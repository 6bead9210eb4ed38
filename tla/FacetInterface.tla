--------------------------- MODULE FacetInterface ---------------------------
(***************************************************************************)
(* The facets as Solidity declares them, and what their views put into the *)
(* structs they return.  The names of the fields exist in Solidity only:   *)
(* the compiled interface keeps the order and the types.                   *)
(***************************************************************************)
EXTENDS Abi, TLC

UniV2PoolParamsFields == <<"fees", "pool", "factory", "tokenList">>
UniV2PoolStateFields == <<"balances", "totalSupply", "paused">>
UniV3TickFields ==
  <<"liquidityGross", "liquidityNet", "feeGrowthOutside0X128",
    "feeGrowthOutside1X128", "tick">>
UniV3PoolParamsFields ==
  <<"pool", "tickSpacing", "fee", "maxLiquidityPerTick", "factory", "tokenList">>
UniV3PoolStateFields ==
  <<"sqrtPriceX96", "blockTimestamp", "feeProtocol", "tick", "observationIndex",
    "observationCardinality", "liquidity", "observationCardinalityNext">>

(* Recipient and Payer are addresses. *)
UniV2Facet ==
  [uniV2SwapExactInput |->
     Fn(<<"amountIn", "router", "path", "recipient", "payer">>,
        <<uint256, address, addresses, address, address>>,
        <<"inputToken", "outputToken", "amountOut">>, <<address, address, uint256>>),
   uniV2PoolNum |-> Fn(<<"factory">>, <<address>>, <<"">>, <<uint256>>),
   uniV2Pools |-> Fn(<<"factory", "start", "end">>, <<address, uint256, uint256>>,
                     <<"">>, <<addresses>>),
   uniV2PoolParams |->
     Fn(<<"pool">>, <<address>>, OneOf(UniV2PoolParamsFields),
        OneOf(<<uint256s, address, address, addresses>>)),
   uniV2PoolState |->
     Fn(<<"pool">>, <<address>>, OneOf(UniV2PoolStateFields),
        OneOf(<<uint256s, uint256, bool>>))]

UniV3Facet ==
  [uniV3SwapExactInput |->
     Fn(<<"amountIn", "path", "recipient", "payer">>,
        <<uint256, bytes, address, address>>,
        <<"inputToken", "outputToken", "amountOut">>, <<address, address, uint256>>),
   uniswapV3SwapCallback |->
     Fn(<<"amount0Delta", "amount1Delta", "data">>, <<int256, int256, bytes>>,
        <<>>, <<>>),
   uniV3GetTicks |->
     Fn(<<"pool", "tickRange">>, <<address, int24>>, ManyOf(UniV3TickFields),
        ManyOf(<<uint128, int128, uint256, uint256, int24>>)),
   uniV3PoolParams |->
     Fn(<<"pool">>, <<address>>, OneOf(UniV3PoolParamsFields),
        OneOf(<<address, int24, uint24, uint128, address, addresses>>)),
   uniV3PoolState |->
     Fn(<<"pool">>, <<address>>, OneOf(UniV3PoolStateFields),
        OneOf(<<uint160, uint32, uint32, int24, uint16, uint16, uint128, uint16>>))]

-----------------------------------------------------------------------------
(* What uniV3PoolState decodes slot0 as, and the field each word goes to. *)
Slot0Types == <<uint160, int24, uint16, uint16, uint16, uint32, bool>>
Slot0Fields ==
  <<"sqrtPriceX96", "tick", "observationIndex", "observationCardinality",
    "observationCardinalityNext", "feeProtocol">>

(* The name, at the pool, of what a field of the answer holds. *)
PoolStateSource(slot0, field) ==
  IF \E i \in DOMAIN Slot0Fields : Slot0Fields[i] = field
  THEN slot0.outs[CHOOSE i \in DOMAIN Slot0Fields : Slot0Fields[i] = field]
  ELSE field
=============================================================================
