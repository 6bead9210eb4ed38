SPECIFICATION CallSpec
CONSTANTS
  PoolStates <- MCPoolStates
  Ranges <- MCRanges
  MinTick <- MCMinTick
  MaxTick = 887272
  Lengths = {0, 19, 20, 62, 63, 64, 105, 106, 107, 117, 138, 139, 148, 149, 150,
             160, 181, 191, 192, 193, 203, 213, 234, 235, 236, 247}
  Junk <- MCJunk
INVARIANTS ScanExact HopsFollowPath
CHECK_DEADLOCK FALSE
