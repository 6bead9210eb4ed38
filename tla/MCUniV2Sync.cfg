SPECIFICATION FairSpec
CONSTANTS
  p1 = p1
  p2 = p2
  Pools <- MCPools
  Genesis = {0}
  FirstKinds = {"Sync"}
  LaterKinds = {"Sync"}
  StateKinds = {"Sync"}
  MaxHead = 3
  MaxPerBlock = 2
  Tracked <- MCTracked
  Unknown = Unknown
  AddrPageSize = 2
  ParamPageSize = 2
  StatePageSize = 2
  BlockPageSize = 2
  MaxFailures = 2
INVARIANTS TypeOK OkMeansExact EntriesReal
PROPERTIES WindowKeepsSnapshot ImplementsContract CatchesUp
