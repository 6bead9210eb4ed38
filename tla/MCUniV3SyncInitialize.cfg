SPECIFICATION Spec
CONSTANTS
  p1 = p1
  p2 = p2
  p3 = p3
  Pools <- MCPools
  Genesis = {0, 1}
  FirstKinds = {"Initialize"}
  LaterKinds = {"Swap", "Mint", "Burn", "Flash"}
  StateKinds = {"Initialize", "Swap", "Mint", "Burn"}
  MaxHead = 2
  MaxPerBlock = 1
  Tracked <- MCTracked
  Unknown = Unknown
  BlockPageSize = 1
  MaxFailures = 2
INVARIANTS OkMeansExact
