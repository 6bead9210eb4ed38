--------------------------- MODULE UniV2FactoryAbi ---------------------------
(***************************************************************************)
(* bindings/i_uniswap_v2_factory.rs: the contract of the factory of v2     *)
(* pairs as the generated client knows it. The same interface is written   *)
(* down several times: the parsed ABI (Functions, Events), the methods,    *)
(* the structs of the calls and the logs and of what they return, and the  *)
(* order in which data is tried on those.                                  *)
(***************************************************************************)
EXTENDS Abi, TLC

Functions ==
  [allPairs |-> Fn(<<"">>, <<uint256>>, <<"pair">>, <<address>>),
   allPairsLength |-> Getter(uint256),
   createPair |-> Fn(<<"tokenA", "tokenB">>, <<address, address>>, <<"pair">>,
                     <<address>>),
   getPair |-> Fn(<<"tokenA", "tokenB">>, <<address, address>>, <<"pair">>,
                  <<address>>),
   setFeeTo |-> Fn(<<"">>, <<address>>, <<>>, <<>>),
   setFeeToSetter |-> Fn(<<"">>, <<address>>, <<>>, <<>>)]
  @@ [f \in {"feeTo", "feeToSetter"} |-> Getter(address)]

Events ==
  [PairCreated |-> Event(<<"token0", "token1", "pair", "">>,
                         <<address, address, address, uint256>>,
                         {"token0", "token1"})]

Methods ==
  [allPairs |-> Sends("allPairs", <<uint256>>, <<"">>),
   createPair |-> Sends("createPair", <<address, address>>,
                        <<"tokenA", "tokenB">>),
   getPair |-> Sends("getPair", <<address, address>>, <<"tokenA", "tokenB">>),
   setFeeTo |-> Sends("setFeeTo", <<address>>, <<"">>),
   setFeeToSetter |-> Sends("setFeeToSetter", <<address>>, <<"">>)]
  @@ [f \in {"allPairsLength", "feeTo", "feeToSetter"}
        |-> Sends(f, <<>>, <<>>)]

Calls ==
  [allPairs |-> Sends("allPairs", <<uint256>>, <<"">>),
   createPair |-> Sends("createPair", <<address, address>>,
                        <<"tokenA", "tokenB">>),
   getPair |-> Sends("getPair", <<address, address>>, <<"tokenA", "tokenB">>),
   setFeeTo |-> Sends("setFeeTo", <<address>>, <<"">>),
   setFeeToSetter |-> Sends("setFeeToSetter", <<address>>, <<"">>)]
  @@ [f \in {"allPairsLength", "feeTo", "feeToSetter"}
        |-> Sends(f, <<>>, <<>>)]

CallOrder ==
  <<"allPairs", "allPairsLength", "createPair", "feeTo", "feeToSetter",
    "getPair", "setFeeTo", "setFeeToSetter">>

Returns ==
  [allPairs |-> <<"pair">>,
   createPair |-> <<"pair">>,
   getPair |-> <<"pair">>]
  @@ [f \in {"allPairsLength", "feeTo", "feeToSetter"} |-> <<"">>]

Logs ==
  [PairCreated |-> Logged("PairCreated",
                          <<address, address, address, uint256>>,
                          <<"token0", "token1", "pair", "">>,
                          {"token0", "token1"})]
==============================================================================
