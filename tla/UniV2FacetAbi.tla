---------------------------- MODULE UniV2FacetAbi ----------------------------
(***************************************************************************)
(* bindings/uni_v2_facet.rs: the contract of the v2 facet as the generated *)
(* client knows it. The same interface is written down several times: the  *)
(* parsed ABI (Functions), the methods, the structs of the calls and of    *)
(* what they return, and the order in which data is tried on those.        *)
(***************************************************************************)
EXTENDS Abi, TLC

Functions ==
  [uniV2PoolNum |-> Fn(<<"factory">>, <<address>>, <<"">>, <<uint256>>),
   uniV2PoolParams |-> Fn(<<"pool">>, <<address>>,
                          <<"tuple", "", "", "", "", "end">>,
                          <<tuple, uint256s, address, address, addresses,
                            end>>),
   uniV2PoolState |-> Fn(<<"pool">>, <<address>>,
                         <<"tuple", "", "", "", "end">>,
                         <<tuple, uint256s, uint256, bool, end>>),
   uniV2Pools |-> Fn(<<"factory", "start", "end">>,
                     <<address, uint256, uint256>>, <<"">>, <<addresses>>),
   uniV2SwapExactInput |-> Fn(<<"amountIn", "router", "path", "recipient",
                                "payer">>,
                              <<uint256, address, addresses, address,
                                address>>,
                              <<"inputToken", "outputToken", "amountOut">>,
                              <<address, address, uint256>>)]

Methods ==
  [uniV2PoolNum |-> Sends("uniV2PoolNum", <<address>>, <<"factory">>),
   uniV2PoolParams |-> Sends("uniV2PoolParams", <<address>>, <<"pool">>),
   uniV2PoolState |-> Sends("uniV2PoolState", <<address>>, <<"pool">>),
   uniV2Pools |-> Sends("uniV2Pools", <<address, uint256, uint256>>,
                        <<"factory", "start", "end">>),
   uniV2SwapExactInput |-> Sends("uniV2SwapExactInput",
                                 <<uint256, address, addresses, address,
                                   address>>,
                                 <<"amountIn", "router", "path", "recipient",
                                   "payer">>)]

Calls ==
  [uniV2PoolNum |-> Sends("uniV2PoolNum", <<address>>, <<"factory">>),
   uniV2PoolParams |-> Sends("uniV2PoolParams", <<address>>, <<"pool">>),
   uniV2PoolState |-> Sends("uniV2PoolState", <<address>>, <<"pool">>),
   uniV2Pools |-> Sends("uniV2Pools", <<address, uint256, uint256>>,
                        <<"factory", "start", "end">>),
   uniV2SwapExactInput |-> Sends("uniV2SwapExactInput",
                                 <<uint256, address, addresses, address,
                                   address>>,
                                 <<"amountIn", "router", "path", "recipient",
                                   "payer">>)]

CallOrder ==
  <<"uniV2PoolNum", "uniV2PoolParams", "uniV2PoolState", "uniV2Pools",
    "uniV2SwapExactInput">>

UniV2PoolParamsResponse ==
  <<"fees", "pool", "factory", "tokenList">>

UniV2PoolStateResponse ==
  <<"balances", "totalSupply", "paused">>

Returns ==
  [uniV2PoolParams |-> OneOf(UniV2PoolParamsResponse),
   uniV2PoolState |-> OneOf(UniV2PoolStateResponse),
   uniV2SwapExactInput |-> <<"inputToken", "outputToken", "amountOut">>]
  @@ [f \in {"uniV2PoolNum", "uniV2Pools"} |-> <<"">>]
==============================================================================
