SPECIFICATION FairSpec
CONSTANTS
  p1 = p1
  p2 = p2
  p3 = p3
  Pools <- MCPools
  Genesis = {1}
  FirstKinds = {"Initialize"}
  LaterKinds = {"Burn", "Flash"}
  StateKinds = {"Initialize", "Swap", "Mint", "Burn"}
  MaxHead = 2
  MaxPerBlock = 2
  Tracked <- MCTracked
  Unknown = Unknown
  BlockPageSize = 1
  MaxFailures = 2
INVARIANTS TypeOK OkMeansExact EntriesNotTorn
PROPERTIES ImplementsContract CatchesUp
