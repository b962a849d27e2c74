SPECIFICATION Spec
CONSTANTS
  a = a
  b = b
  c = c
  Gone = Gone
  NoOne = NoOne
  Transcripts <- ThreeSessions
  Bad <- OneBad
  Quiet <- OneQuiet
  Items <- TwoItems
  Limit = 2
  MaxBucket = 1
  MaxQueue = 3
  MaxFaults = 1
INVARIANT EveryItemOnce
PROPERTY EverySessionReached
CHECK_DEADLOCK FALSE
