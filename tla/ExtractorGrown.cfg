SPECIFICATION Spec
CONSTANTS
  a = a
  b = b
  c = c
  Gone = Gone
  NoOne = NoOne
  Transcripts <- OneSession
  Bad <- None
  Quiet <- None
  Items <- TwoItems
  Limit = 2
  MaxBucket = 2
  MaxQueue = 1
  MaxFaults = 0
INVARIANT DoneWasRead
CHECK_DEADLOCK FALSE
