--------------------------- MODULE UniV3FactoryAbi ---------------------------
(***************************************************************************)
(* bindings/i_uniswap_v3_factory.rs: the contract of the factory of v3     *)
(* pools as the generated client knows it. The same interface is written   *)
(* down several times: the parsed ABI (Functions, Events), the methods,    *)
(* the structs of the calls and the logs and of what they return, and the  *)
(* order in which data is tried on those.                                  *)
(***************************************************************************)
EXTENDS Abi, TLC

Functions ==
  [createPool |-> Fn(<<"tokenA", "tokenB", "fee">>,
                     <<address, address, uint24>>, <<"pool">>, <<address>>),
   enableFeeAmount |-> Fn(<<"fee", "tickSpacing">>, <<uint24, int24>>, <<>>,
                          <<>>),
   feeAmountTickSpacing |-> Fn(<<"fee">>, <<uint24>>, <<"">>, <<int24>>),
   getPool |-> Fn(<<"tokenA", "tokenB", "fee">>, <<address, address, uint24>>,
                  <<"pool">>, <<address>>),
   owner |-> Getter(address),
   setOwner |-> Fn(<<"_owner">>, <<address>>, <<>>, <<>>)]

Events ==
  [FeeAmountEnabled |-> Event(<<"fee", "tickSpacing">>, <<uint24, int24>>,
                              {"fee", "tickSpacing"}),
   OwnerChanged |-> Event(<<"oldOwner", "newOwner">>, <<address, address>>,
                          {"oldOwner", "newOwner"}),
   PoolCreated |-> Event(<<"token0", "token1", "fee", "tickSpacing", "pool">>,
                         <<address, address, uint24, int24, address>>,
                         {"token0", "token1", "fee"})]

Methods ==
  [createPool |-> Sends("createPool", <<address, address, uint24>>,
                        <<"tokenA", "tokenB", "fee">>),
   enableFeeAmount |-> Sends("enableFeeAmount", <<uint24, int24>>,
                             <<"fee", "tickSpacing">>),
   feeAmountTickSpacing |-> Sends("feeAmountTickSpacing", <<uint24>>,
                                  <<"fee">>),
   getPool |-> Sends("getPool", <<address, address, uint24>>,
                     <<"tokenA", "tokenB", "fee">>),
   owner |-> Sends("owner", <<>>, <<>>),
   setOwner |-> Sends("setOwner", <<address>>, <<"_owner">>)]

Calls ==
  [createPool |-> Sends("createPool", <<address, address, uint24>>,
                        <<"tokenA", "tokenB", "fee">>),
   enableFeeAmount |-> Sends("enableFeeAmount", <<uint24, int24>>,
                             <<"fee", "tickSpacing">>),
   feeAmountTickSpacing |-> Sends("feeAmountTickSpacing", <<uint24>>,
                                  <<"fee">>),
   getPool |-> Sends("getPool", <<address, address, uint24>>,
                     <<"tokenA", "tokenB", "fee">>),
   owner |-> Sends("owner", <<>>, <<>>),
   setOwner |-> Sends("setOwner", <<address>>, <<"_owner">>)]

CallOrder ==
  <<"createPool", "enableFeeAmount", "feeAmountTickSpacing", "getPool",
    "owner", "setOwner">>

Returns ==
  [createPool |-> <<"pool">>,
   getPool |-> <<"pool">>]
  @@ [f \in {"feeAmountTickSpacing", "owner"} |-> <<"">>]

Logs ==
  [FeeAmountEnabled |-> Logged("FeeAmountEnabled", <<uint24, int24>>,
                               <<"fee", "tickSpacing">>,
                               {"fee", "tickSpacing"}),
   OwnerChanged |-> Logged("OwnerChanged", <<address, address>>,
                           <<"oldOwner", "newOwner">>,
                           {"oldOwner", "newOwner"}),
   PoolCreated |-> Logged("PoolCreated",
                          <<address, address, uint24, int24, address>>,
                          <<"token0", "token1", "fee", "tickSpacing", "pool">>,
                          {"token0", "token1", "fee"})]

LogOrder ==
  <<"FeeAmountEnabled", "OwnerChanged", "PoolCreated">>
==============================================================================
