---------------------------- MODULE UniV2PairAbi -----------------------------
(***************************************************************************)
(* bindings/i_uniswap_v2_pair.rs: the contract of the v2 pair as the       *)
(* generated client knows it. The same interface is written down several   *)
(* times: the parsed ABI (Functions, Events), the methods, the structs of  *)
(* the calls and the logs and of what they return, and the order in which  *)
(* data is tried on those.                                                 *)
(***************************************************************************)
EXTENDS Abi, TLC

FunctionsFromDOMAIN_SEPARATOR ==
  [MINIMUM_LIQUIDITY |-> Getter(uint256),
   allowance |-> Fn(<<"owner", "spender">>, <<address, address>>, <<"">>,
                    <<uint256>>),
   approve |-> Fn(<<"spender", "value">>, <<address, uint256>>, <<"">>,
                  <<bool>>),
   balanceOf |-> Fn(<<"owner">>, <<address>>, <<"">>, <<uint256>>),
   burn |-> Fn(<<"to">>, <<address>>, <<"amount0", "amount1">>,
               <<uint256, uint256>>)]
  @@ [f \in {"DOMAIN_SEPARATOR", "PERMIT_TYPEHASH"} |-> Getter(bytes32)]

FunctionsFromDecimals ==
  [decimals |-> Getter(uint8),
   factory |-> Getter(address),
   getReserves |-> Fn(<<>>, <<>>,
                      <<"reserve0", "reserve1", "blockTimestampLast">>,
                      <<uint112, uint112, uint32>>),
   initialize |-> Fn(<<"", "">>, <<address, address>>, <<>>, <<>>),
   kLast |-> Getter(uint256),
   mint |-> Fn(<<"to">>, <<address>>, <<"liquidity">>, <<uint256>>),
   name |-> Getter(string)]

FunctionsFromNonces ==
  [nonces |-> Fn(<<"owner">>, <<address>>, <<"">>, <<uint256>>),
   permit |-> Fn(<<"owner", "spender", "value", "deadline", "v", "r", "s">>,
                 <<address, address, uint256, uint256, uint8, bytes32,
                   bytes32>>, <<>>, <<>>),
   skim |-> Fn(<<"to">>, <<address>>, <<>>, <<>>),
   swap |-> Fn(<<"amount0Out", "amount1Out", "to", "data">>,
               <<uint256, uint256, address, bytes>>, <<>>, <<>>)]
  @@ [f \in {"price0CumulativeLast", "price1CumulativeLast"}
        |-> Getter(uint256)]

FunctionsFromSymbol ==
  [symbol |-> Getter(string),
   sync |-> Fn(<<>>, <<>>, <<>>, <<>>),
   totalSupply |-> Getter(uint256),
   transfer |-> Fn(<<"to", "value">>, <<address, uint256>>, <<"">>, <<bool>>),
   transferFrom |-> Fn(<<"from", "to", "value">>,
                       <<address, address, uint256>>, <<"">>, <<bool>>)]
  @@ [f \in {"token0", "token1"} |-> Getter(address)]

Functions ==
  FunctionsFromDOMAIN_SEPARATOR @@ FunctionsFromDecimals @@
  FunctionsFromNonces @@ FunctionsFromSymbol

Events ==
  [Approval |-> Event(<<"owner", "spender", "value">>,
                      <<address, address, uint256>>, {"owner", "spender"}),
   Burn |-> Event(<<"sender", "amount0", "amount1", "to">>,
                  <<address, uint256, uint256, address>>, {"sender", "to"}),
   Mint |-> Event(<<"sender", "amount0", "amount1">>,
                  <<address, uint256, uint256>>, {"sender"}),
   Swap |-> Event(<<"sender", "amount0In", "amount1In", "amount0Out",
                    "amount1Out", "to">>,
                  <<address, uint256, uint256, uint256, uint256, address>>,
                  {"sender", "to"}),
   Sync |-> Event(<<"reserve0", "reserve1">>, <<uint112, uint112>>, {}),
   Transfer |-> Event(<<"from", "to", "value">>, <<address, address, uint256>>,
                      {"from", "to"})]

MethodsFromDOMAIN_SEPARATOR ==
  [allowance |-> Sends("allowance", <<address, address>>,
                       <<"owner", "spender">>),
   approve |-> Sends("approve", <<address, uint256>>, <<"spender", "value">>),
   balanceOf |-> Sends("balanceOf", <<address>>, <<"owner">>),
   burn |-> Sends("burn", <<address>>, <<"to">>),
   initialize |-> Sends("initialize", <<address, address>>, <<"", "">>),
   mint |-> Sends("mint", <<address>>, <<"to">>)]
  @@ [f \in {"DOMAIN_SEPARATOR", "MINIMUM_LIQUIDITY", "PERMIT_TYPEHASH",
               "decimals", "factory", "getReserves", "kLast", "name"}
        |-> Sends(f, <<>>, <<>>)]

MethodsFromNonces ==
  [nonces |-> Sends("nonces", <<address>>, <<"owner">>),
   permit |-> Sends("permit",
                    <<address, address, uint256, uint256, uint8, bytes32,
                      bytes32>>,
                    <<"owner", "spender", "value", "deadline", "v", "r",
                      "s">>),
   skim |-> Sends("skim", <<address>>, <<"to">>),
   swap |-> Sends("swap", <<uint256, uint256, address, bytes>>,
                  <<"amount0Out", "amount1Out", "to", "data">>),
   transfer |-> Sends("transfer", <<address, uint256>>, <<"to", "value">>),
   transferFrom |-> Sends("transferFrom", <<address, address, uint256>>,
                          <<"from", "to", "value">>)]
  @@ [f \in {"price0CumulativeLast", "price1CumulativeLast", "symbol", "sync",
               "token0", "token1", "totalSupply"}
        |-> Sends(f, <<>>, <<>>)]

Methods ==
  MethodsFromDOMAIN_SEPARATOR @@ MethodsFromNonces

CallsFromDOMAIN_SEPARATOR ==
  [allowance |-> Sends("allowance", <<address, address>>,
                       <<"owner", "spender">>),
   approve |-> Sends("approve", <<address, uint256>>, <<"spender", "value">>),
   balanceOf |-> Sends("balanceOf", <<address>>, <<"owner">>),
   burn |-> Sends("burn", <<address>>, <<"to">>)]
  @@ [f \in {"DOMAIN_SEPARATOR", "MINIMUM_LIQUIDITY", "PERMIT_TYPEHASH",
               "decimals", "factory"}
        |-> Sends(f, <<>>, <<>>)]

CallsFromGetReserves ==
  [initialize |-> Sends("initialize", <<address, address>>, <<"", "">>),
   mint |-> Sends("mint", <<address>>, <<"to">>),
   nonces |-> Sends("nonces", <<address>>, <<"owner">>),
   permit |-> Sends("permit",
                    <<address, address, uint256, uint256, uint8, bytes32,
                      bytes32>>,
                    <<"owner", "spender", "value", "deadline", "v", "r",
                      "s">>)]
  @@ [f \in {"getReserves", "kLast", "name", "price0CumulativeLast",
               "price1CumulativeLast"}
        |-> Sends(f, <<>>, <<>>)]

CallsFromSkim ==
  [skim |-> Sends("skim", <<address>>, <<"to">>),
   swap |-> Sends("swap", <<uint256, uint256, address, bytes>>,
                  <<"amount0Out", "amount1Out", "to", "data">>),
   transfer |-> Sends("transfer", <<address, uint256>>, <<"to", "value">>),
   transferFrom |-> Sends("transferFrom", <<address, address, uint256>>,
                          <<"from", "to", "value">>)]
  @@ [f \in {"symbol", "sync", "token0", "token1", "totalSupply"}
        |-> Sends(f, <<>>, <<>>)]

Calls ==
  CallsFromDOMAIN_SEPARATOR @@ CallsFromGetReserves @@ CallsFromSkim

CallOrder ==
  <<"DOMAIN_SEPARATOR", "MINIMUM_LIQUIDITY", "PERMIT_TYPEHASH", "allowance",
    "approve", "balanceOf", "burn", "decimals", "factory", "getReserves",
    "initialize", "kLast", "mint", "name", "nonces", "permit",
    "price0CumulativeLast", "price1CumulativeLast", "skim", "swap",
    "symbol", "sync", "token0", "token1", "totalSupply", "transfer",
    "transferFrom">>

ReturnsFromDOMAIN_SEPARATOR ==
  [burn |-> <<"amount0", "amount1">>,
   getReserves |-> <<"reserve0", "reserve1", "blockTimestampLast">>]
  @@ [f \in {"DOMAIN_SEPARATOR", "MINIMUM_LIQUIDITY", "PERMIT_TYPEHASH",
               "allowance", "approve", "balanceOf", "decimals", "factory", "kLast"}
        |-> <<"">>]

ReturnsFromMint ==
  [mint |-> <<"liquidity">>]
  @@ [f \in {"name", "nonces", "price0CumulativeLast", "price1CumulativeLast",
               "symbol", "token0", "token1", "totalSupply", "transfer",
               "transferFrom"}
        |-> <<"">>]

Returns ==
  ReturnsFromDOMAIN_SEPARATOR @@ ReturnsFromMint

Logs ==
  [Approval |-> Logged("Approval", <<address, address, uint256>>,
                       <<"owner", "spender", "value">>, {"owner", "spender"}),
   Burn |-> Logged("Burn", <<address, uint256, uint256, address>>,
                   <<"sender", "amount0", "amount1", "to">>, {"sender", "to"}),
   Mint |-> Logged("Mint", <<address, uint256, uint256>>,
                   <<"sender", "amount0", "amount1">>, {"sender"}),
   Swap |-> Logged("Swap",
                   <<address, uint256, uint256, uint256, uint256, address>>,
                   <<"sender", "amount0In", "amount1In", "amount0Out",
                     "amount1Out", "to">>, {"sender", "to"}),
   Sync |-> Logged("Sync", <<uint112, uint112>>, <<"reserve0", "reserve1">>,
                   {}),
   Transfer |-> Logged("Transfer", <<address, address, uint256>>,
                       <<"from", "to", "value">>, {"from", "to"})]

LogOrder ==
  <<"Approval", "Burn", "Mint", "Swap", "Sync", "Transfer">>
==============================================================================
