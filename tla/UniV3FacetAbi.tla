---------------------------- MODULE UniV3FacetAbi ----------------------------
(***************************************************************************)
(* bindings/uni_v3_facet.rs: the contract of the v3 facet as the generated *)
(* client knows it. The same interface is written down several times: the  *)
(* parsed ABI (Functions), the methods, the structs of the calls and of    *)
(* what they return, and the order in which data is tried on those.        *)
(***************************************************************************)
EXTENDS Abi, TLC

Functions ==
  [uniV3GetTicks |-> Fn(<<"pool", "tickRange">>, <<address, int24>>,
                        <<"list", "", "", "", "", "", "end">>,
                        <<list, uint128, int128, uint256, uint256, int24,
                          end>>),
   uniV3PoolParams |-> Fn(<<"pool">>, <<address>>,
                          <<"tuple", "", "", "", "", "", "", "end">>,
                          <<tuple, address, int24, uint24, uint128, address,
                            addresses, end>>),
   uniV3PoolState |-> Fn(<<"pool">>, <<address>>,
                         <<"tuple", "", "", "", "", "", "", "", "", "end">>,
                         <<tuple, uint160, uint32, uint32, int24, uint16,
                           uint16, uint128, uint16, end>>),
   uniV3SwapExactInput |-> Fn(<<"amountIn", "path", "recipient", "payer">>,
                              <<uint256, bytes, address, address>>,
                              <<"inputToken", "outputToken", "amountOut">>,
                              <<address, address, uint256>>),
   uniswapV3SwapCallback |-> Fn(<<"amount0Delta", "amount1Delta", "data">>,
                                <<int256, int256, bytes>>, <<>>, <<>>)]

Methods ==
  [uniV3GetTicks |-> Sends("uniV3GetTicks", <<address, int24>>,
                           <<"pool", "tickRange">>),
   uniV3PoolParams |-> Sends("uniV3PoolParams", <<address>>, <<"pool">>),
   uniV3PoolState |-> Sends("uniV3PoolState", <<address>>, <<"pool">>),
   uniV3SwapExactInput |-> Sends("uniV3SwapExactInput",
                                 <<uint256, bytes, address, address>>,
                                 <<"amountIn", "path", "recipient", "payer">>),
   uniswapV3SwapCallback |-> Sends("uniswapV3SwapCallback",
                                   <<int256, int256, bytes>>,
                                   <<"amount0Delta", "amount1Delta", "data">>)]

Calls ==
  [uniV3GetTicks |-> Sends("uniV3GetTicks", <<address, int24>>,
                           <<"pool", "tickRange">>),
   uniV3PoolParams |-> Sends("uniV3PoolParams", <<address>>, <<"pool">>),
   uniV3PoolState |-> Sends("uniV3PoolState", <<address>>, <<"pool">>),
   uniV3SwapExactInput |-> Sends("uniV3SwapExactInput",
                                 <<uint256, bytes, address, address>>,
                                 <<"amountIn", "path", "recipient", "payer">>),
   uniswapV3SwapCallback |-> Sends("uniswapV3SwapCallback",
                                   <<int256, int256, bytes>>,
                                   <<"amount0Delta", "amount1Delta", "data">>)]

CallOrder ==
  <<"uniV3GetTicks", "uniV3PoolParams", "uniV3PoolState",
    "uniV3SwapExactInput", "uniswapV3SwapCallback">>

Tick ==
  <<"liquidityGross", "liquidityNet", "feeGrowthOutside0X128",
    "feeGrowthOutside1X128", "tick">>

UniV3PoolParamsResponse ==
  <<"pool", "tickSpacing", "fee", "maxLiquidityPerTick", "factory",
    "tokenList">>

\* Mutant: the fields are in the order of slot0.
UniV3PoolStateAsSlot0 ==
  <<"sqrtPriceX96", "tick", "observationIndex", "observationCardinality",
    "observationCardinalityNext", "feeProtocol", "liquidity",
    "blockTimestamp">>
UniV3PoolStateResponse ==
  <<"sqrtPriceX96", "blockTimestamp", "feeProtocol", "tick",
    "observationIndex", "observationCardinality", "liquidity",
    "observationCardinalityNext">>

Returns ==
  [uniV3GetTicks |-> ManyOf(Tick),
   uniV3PoolParams |-> OneOf(UniV3PoolParamsResponse),
   uniV3PoolState |-> OneOf(UniV3PoolStateResponse),
   uniV3SwapExactInput |-> <<"inputToken", "outputToken", "amountOut">>]
==============================================================================
