---------------------------- MODULE UniV3PoolAbi -----------------------------
(***************************************************************************)
(* bindings/i_uniswap_v3_pool.rs: the contract of the v3 pool as the       *)
(* generated client knows it. The same interface is written down several   *)
(* times: the parsed ABI (Functions, Events), the methods, the structs of  *)
(* the calls and the logs and of what they return, and the order in which  *)
(* data is tried on those.                                                 *)
(***************************************************************************)
EXTENDS Abi, TLC

FunctionsFromBurn ==
  [burn |-> Fn(<<"tickLower", "tickUpper", "amount">>,
               <<int24, int24, uint128>>, <<"amount0", "amount1">>,
               <<uint256, uint256>>),
   collect |-> Fn(<<"recipient", "tickLower", "tickUpper", "amount0Requested",
                    "amount1Requested">>,
                  <<address, int24, int24, uint128, uint128>>,
                  <<"amount0", "amount1">>, <<uint128, uint128>>),
   collectProtocol |-> Fn(<<"recipient", "amount0Requested",
                            "amount1Requested">>,
                          <<address, uint128, uint128>>,
                          <<"amount0", "amount1">>, <<uint128, uint128>>)]

FunctionsFromFactory ==
  [factory |-> Getter(address),
   fee |-> Getter(uint24),
   flash |-> Fn(<<"recipient", "amount0", "amount1", "data">>,
                <<address, uint256, uint256, bytes>>, <<>>, <<>>),
   increaseObservationCardinalityNext |->
     Fn(<<"observationCardinalityNext">>, <<uint16>>, <<>>, <<>>),
   initialize |-> Fn(<<"sqrtPriceX96">>, <<uint160>>, <<>>, <<>>)]
  @@ [f \in {"feeGrowthGlobal0X128", "feeGrowthGlobal1X128"}
        |-> Getter(uint256)]

FunctionsFromLiquidity ==
  [mint |-> Fn(<<"recipient", "tickLower", "tickUpper", "amount", "data">>,
               <<address, int24, int24, uint128, bytes>>,
               <<"amount0", "amount1">>, <<uint256, uint256>>),
   observations |-> Fn(<<"index">>, <<uint256>>,
                       <<"blockTimestamp", "tickCumulative",
                         "secondsPerLiquidityCumulativeX128", "initialized">>,
                       <<uint32, int56, uint160, bool>>)]
  @@ [f \in {"liquidity", "maxLiquidityPerTick"} |-> Getter(uint128)]

FunctionsFromObserve ==
  [observe |-> Fn(<<"secondsAgos">>, <<uint32s>>,
                  <<"tickCumulatives", "secondsPerLiquidityCumulativeX128s">>,
                  <<int56s, uint160s>>),
   positions |-> Fn(<<"key">>, <<bytes32>>,
                    <<"_liquidity", "feeGrowthInside0LastX128",
                      "feeGrowthInside1LastX128", "tokensOwed0",
                      "tokensOwed1">>,
                    <<uint128, uint256, uint256, uint128, uint128>>),
   protocolFees |-> Fn(<<>>, <<>>, <<"token0", "token1">>,
                       <<uint128, uint128>>),
   setFeeProtocol |-> Fn(<<"feeProtocol0", "feeProtocol1">>, <<uint8, uint8>>,
                         <<>>, <<>>)]

FunctionsFromSlot0 ==
  [slot0 |-> Fn(<<>>, <<>>,
                <<"sqrtPriceX96", "tick", "observationIndex",
                  "observationCardinality", "observationCardinalityNext",
                  "feeProtocol", "unlocked">>,
                <<uint160, int24, uint16, uint16, uint16, uint8, bool>>),
   snapshotCumulativesInside |-> Fn(<<"tickLower", "tickUpper">>,
                                    <<int24, int24>>,
                                    <<"tickCumulativeInside",
                                      "secondsPerLiquidityInsideX128",
                                      "secondsInside">>,
                                    <<int56, uint160, uint32>>),
   swap |-> Fn(<<"recipient", "zeroForOne", "amountSpecified",
                 "sqrtPriceLimitX96", "data">>,
               <<address, bool, int256, uint160, bytes>>,
               <<"amount0", "amount1">>, <<int256, int256>>)]

FunctionsFromTickBitmap ==
  [tickBitmap |-> Fn(<<"wordPosition">>, <<int16>>, <<"">>, <<uint256>>),
   tickSpacing |-> Getter(int24),
   ticks |-> Fn(<<"tick">>, <<int24>>,
                <<"liquidityGross", "liquidityNet", "feeGrowthOutside0X128",
                  "feeGrowthOutside1X128", "tickCumulativeOutside",
                  "secondsPerLiquidityOutsideX128", "secondsOutside",
                  "initialized">>,
                <<uint128, int128, uint256, uint256, int56, uint160, uint32,
                  bool>>)]
  @@ [f \in {"token0", "token1"} |-> Getter(address)]

Functions ==
  FunctionsFromBurn @@ FunctionsFromFactory @@ FunctionsFromLiquidity @@
  FunctionsFromObserve @@ FunctionsFromSlot0 @@ FunctionsFromTickBitmap

EventsFromBurn ==
  [Burn |-> Event(<<"owner", "tickLower", "tickUpper", "amount", "amount0",
                    "amount1">>,
                  <<address, int24, int24, uint128, uint256, uint256>>,
                  {"owner", "tickLower", "tickUpper"}),
   Collect |-> Event(<<"owner", "recipient", "tickLower", "tickUpper",
                       "amount0", "amount1">>,
                     <<address, address, int24, int24, uint128, uint128>>,
                     {"owner", "tickLower", "tickUpper"}),
   CollectProtocol |-> Event(<<"sender", "recipient", "amount0", "amount1">>,
                             <<address, address, uint128, uint128>>,
                             {"sender", "recipient"}),
   Flash |-> Event(<<"sender", "recipient", "amount0", "amount1", "paid0",
                     "paid1">>,
                   <<address, address, uint256, uint256, uint256, uint256>>,
                   {"sender", "recipient"})]

EventsFromIncreaseObservationCardinalityNext ==
  [IncreaseObservationCardinalityNext |->
     Event(<<"observationCardinalityNextOld",
             "observationCardinalityNextNew">>, <<uint16, uint16>>, {}),
   Initialize |-> Event(<<"sqrtPriceX96", "tick">>, <<uint160, int24>>, {}),
   Mint |-> Event(<<"sender", "owner", "tickLower", "tickUpper", "amount",
                    "amount0", "amount1">>,
                  <<address, address, int24, int24, uint128, uint256,
                    uint256>>, {"owner", "tickLower", "tickUpper"}),
   SetFeeProtocol |-> Event(<<"feeProtocol0Old", "feeProtocol1Old",
                              "feeProtocol0New", "feeProtocol1New">>,
                            <<uint8, uint8, uint8, uint8>>, {}),
   Swap |-> Event(<<"sender", "recipient", "amount0", "amount1",
                    "sqrtPriceX96", "liquidity", "tick">>,
                  <<address, address, int256, int256, uint160, uint128,
                    int24>>, {"sender", "recipient"})]

Events ==
  EventsFromBurn @@ EventsFromIncreaseObservationCardinalityNext

MethodsFromBurn ==
  [burn |-> Sends("burn", <<int24, int24, uint128>>,
                  <<"tickLower", "tickUpper", "amount">>),
   collect |-> Sends("collect", <<address, int24, int24, uint128, uint128>>,
                     <<"recipient", "tickLower", "tickUpper",
                       "amount0Requested", "amount1Requested">>),
   collectProtocol |-> Sends("collectProtocol", <<address, uint128, uint128>>,
                             <<"recipient", "amount0Requested",
                               "amount1Requested">>),
   flash |-> Sends("flash", <<address, uint256, uint256, bytes>>,
                   <<"recipient", "amount0", "amount1", "data">>),
   increaseObservationCardinalityNext |->
     Sends("increaseObservationCardinalityNext", <<uint16>>,
           <<"observationCardinalityNext">>)]
  @@ [f \in {"factory", "fee", "feeGrowthGlobal0X128", "feeGrowthGlobal1X128"}
        |-> Sends(f, <<>>, <<>>)]

MethodsFromInitialize ==
  [initialize |-> Sends("initialize", <<uint160>>, <<"sqrtPriceX96">>),
   mint |-> Sends("mint", <<address, int24, int24, uint128, bytes>>,
                  <<"recipient", "tickLower", "tickUpper", "amount", "data">>),
   observations |-> Sends("observations", <<uint256>>, <<"index">>),
   observe |-> Sends("observe", <<uint32s>>, <<"secondsAgos">>),
   positions |-> Sends("positions", <<bytes32>>, <<"key">>),
   setFeeProtocol |-> Sends("setFeeProtocol", <<uint8, uint8>>,
                            <<"feeProtocol0", "feeProtocol1">>)]
  @@ [f \in {"liquidity", "maxLiquidityPerTick", "protocolFees", "slot0"}
        |-> Sends(f, <<>>, <<>>)]

MethodsFromSnapshotCumulativesInside ==
  [snapshotCumulativesInside |-> Sends("snapshotCumulativesInside",
                                       <<int24, int24>>,
                                       <<"tickLower", "tickUpper">>),
   swap |-> Sends("swap", <<address, bool, int256, uint160, bytes>>,
                  <<"recipient", "zeroForOne", "amountSpecified",
                    "sqrtPriceLimitX96", "data">>),
   tickBitmap |-> Sends("tickBitmap", <<int16>>, <<"wordPosition">>),
   ticks |-> Sends("ticks", <<int24>>, <<"tick">>)]
  @@ [f \in {"tickSpacing", "token0", "token1"} |-> Sends(f, <<>>, <<>>)]

Methods ==
  MethodsFromBurn @@ MethodsFromInitialize @@
  MethodsFromSnapshotCumulativesInside

CallsFromBurn ==
  [burn |-> Sends("burn", <<int24, int24, uint128>>,
                  <<"tickLower", "tickUpper", "amount">>),
   collect |-> Sends("collect", <<address, int24, int24, uint128, uint128>>,
                     <<"recipient", "tickLower", "tickUpper",
                       "amount0Requested", "amount1Requested">>),
   collectProtocol |-> Sends("collectProtocol", <<address, uint128, uint128>>,
                             <<"recipient", "amount0Requested",
                               "amount1Requested">>),
   flash |-> Sends("flash", <<address, uint256, uint256, bytes>>,
                   <<"recipient", "amount0", "amount1", "data">>)]
  @@ [f \in {"factory", "fee", "feeGrowthGlobal0X128", "feeGrowthGlobal1X128"}
        |-> Sends(f, <<>>, <<>>)]

CallsFromIncreaseObservationCardinalityNext ==
  [increaseObservationCardinalityNext |->
     Sends("increaseObservationCardinalityNext", <<uint16>>,
           <<"observationCardinalityNext">>),
   initialize |-> Sends("initialize", <<uint160>>, <<"sqrtPriceX96">>),
   mint |-> Sends("mint", <<address, int24, int24, uint128, bytes>>,
                  <<"recipient", "tickLower", "tickUpper", "amount", "data">>),
   observations |-> Sends("observations", <<uint256>>, <<"index">>),
   observe |-> Sends("observe", <<uint32s>>, <<"secondsAgos">>),
   positions |-> Sends("positions", <<bytes32>>, <<"key">>)]
  @@ [f \in {"liquidity", "maxLiquidityPerTick", "protocolFees"}
        |-> Sends(f, <<>>, <<>>)]

CallsFromSetFeeProtocol ==
  [setFeeProtocol |-> Sends("setFeeProtocol", <<uint8, uint8>>,
                            <<"feeProtocol0", "feeProtocol1">>),
   snapshotCumulativesInside |-> Sends("snapshotCumulativesInside",
                                       <<int24, int24>>,
                                       <<"tickLower", "tickUpper">>),
   swap |-> Sends("swap", <<address, bool, int256, uint160, bytes>>,
                  <<"recipient", "zeroForOne", "amountSpecified",
                    "sqrtPriceLimitX96", "data">>),
   tickBitmap |-> Sends("tickBitmap", <<int16>>, <<"wordPosition">>),
   ticks |-> Sends("ticks", <<int24>>, <<"tick">>)]
  @@ [f \in {"slot0", "tickSpacing", "token0", "token1"}
        |-> Sends(f, <<>>, <<>>)]

Calls ==
  CallsFromBurn @@ CallsFromIncreaseObservationCardinalityNext @@
  CallsFromSetFeeProtocol

CallOrder ==
  <<"burn", "collect", "collectProtocol", "factory", "fee",
    "feeGrowthGlobal0X128", "feeGrowthGlobal1X128", "flash",
    "increaseObservationCardinalityNext", "initialize", "liquidity",
    "maxLiquidityPerTick", "mint", "observations", "observe", "positions",
    "protocolFees", "setFeeProtocol", "slot0", "snapshotCumulativesInside",
    "swap", "tickBitmap", "tickSpacing", "ticks", "token0", "token1">>

ReturnsFromBurn ==
  [burn |-> <<"amount0", "amount1">>,
   collect |-> <<"amount0", "amount1">>,
   collectProtocol |-> <<"amount0", "amount1">>]
  @@ [f \in {"factory", "fee", "feeGrowthGlobal0X128", "feeGrowthGlobal1X128",
               "liquidity"}
        |-> <<"">>]

ReturnsFromMaxLiquidityPerTick ==
  [maxLiquidityPerTick |-> <<"">>,
   mint |-> <<"amount0", "amount1">>,
   observations |-> <<"blockTimestamp", "tickCumulative",
       "secondsPerLiquidityCumulativeX128", "initialized">>,
   observe |-> <<"tickCumulatives", "secondsPerLiquidityCumulativeX128s">>,
   positions |-> <<"_liquidity", "feeGrowthInside0LastX128",
       "feeGrowthInside1LastX128", "tokensOwed0", "tokensOwed1">>,
   protocolFees |-> <<"token0", "token1">>,
   slot0 |-> <<"sqrtPriceX96", "tick", "observationIndex",
       "observationCardinality", "observationCardinalityNext", "feeProtocol",
       "unlocked">>]

ReturnsFromSnapshotCumulativesInside ==
  [snapshotCumulativesInside |-> <<"tickCumulativeInside",
       "secondsPerLiquidityInsideX128", "secondsInside">>,
   swap |-> <<"amount0", "amount1">>,
   ticks |-> <<"liquidityGross", "liquidityNet", "feeGrowthOutside0X128",
       "feeGrowthOutside1X128", "tickCumulativeOutside",
       "secondsPerLiquidityOutsideX128", "secondsOutside", "initialized">>]
  @@ [f \in {"tickBitmap", "tickSpacing", "token0", "token1"} |-> <<"">>]

Returns ==
  ReturnsFromBurn @@ ReturnsFromMaxLiquidityPerTick @@
  ReturnsFromSnapshotCumulativesInside

LogsFromBurn ==
  [Burn |-> Logged("Burn",
                   <<address, int24, int24, uint128, uint256, uint256>>,
                   <<"owner", "tickLower", "tickUpper", "amount", "amount0",
                     "amount1">>, {"owner", "tickLower", "tickUpper"}),
   Collect |-> Logged("Collect",
                      <<address, address, int24, int24, uint128, uint128>>,
                      <<"owner", "recipient", "tickLower", "tickUpper",
                        "amount0", "amount1">>,
                      {"owner", "tickLower", "tickUpper"}),
   CollectProtocol |-> Logged("CollectProtocol",
                              <<address, address, uint128, uint128>>,
                              <<"sender", "recipient", "amount0", "amount1">>,
                              {"sender", "recipient"}),
   Flash |-> Logged("Flash",
                    <<address, address, uint256, uint256, uint256, uint256>>,
                    <<"sender", "recipient", "amount0", "amount1", "paid0",
                      "paid1">>, {"sender", "recipient"})]

LogsFromIncreaseObservationCardinalityNext ==
  [IncreaseObservationCardinalityNext |->
     Logged("IncreaseObservationCardinalityNext", <<uint16, uint16>>,
            <<"observationCardinalityNextOld",
              "observationCardinalityNextNew">>, {}),
   Initialize |-> Logged("Initialize", <<uint160, int24>>,
                         <<"sqrtPriceX96", "tick">>, {}),
   Mint |-> Logged("Mint",
                   <<address, address, int24, int24, uint128, uint256,
                     uint256>>,
                   <<"sender", "owner", "tickLower", "tickUpper", "amount",
                     "amount0", "amount1">>,
                   {"owner", "tickLower", "tickUpper"}),
   SetFeeProtocol |-> Logged("SetFeeProtocol", <<uint8, uint8, uint8, uint8>>,
                             <<"feeProtocol0Old", "feeProtocol1Old",
                               "feeProtocol0New", "feeProtocol1New">>, {}),
   Swap |-> Logged("Swap",
                   <<address, address, int256, int256, uint160, uint128,
                     int24>>,
                   <<"sender", "recipient", "amount0", "amount1",
                     "sqrtPriceX96", "liquidity", "tick">>,
                   {"sender", "recipient"})]

Logs ==
  LogsFromBurn @@ LogsFromIncreaseObservationCardinalityNext

LogOrder ==
  <<"Burn", "Collect", "CollectProtocol", "Flash",
    "IncreaseObservationCardinalityNext", "Initialize", "Mint",
    "SetFeeProtocol", "Swap">>
==============================================================================
