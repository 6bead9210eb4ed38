SPECIFICATION DexSpec
CONSTANTS
  PageSize = 3
  MaxPairs = 7
  MaxHeight = 3
  MaxFailures = 1
  Ids = {1, 2, 3, 4, 5, 6}
  Configured <- MCConfigured
  Cap = 5
INVARIANTS DiscoveryExact RevertsForPageBehind QuietListExact DuplicatesBounded
PROPERTIES CallerDiscovers
