SPECIFICATION ProgressSpec
CONSTANTS
  p1 = p1
  p2 = p2
  i0 = i0
  i1 = i1
  i2 = i2
  Ghost = Ghost
  NoPid = NoPid
  NoFile = NoFile
  Procs <- TwoRuns
  Inodes <- ThreeInodes
  ReusesInodes = FALSE
  JobTicks = 1
  StaleTicks = 2
  j1 = j1
  Unreadable = Unreadable
 
PROPERTY LockMovesOn
PROPERTY PressAnswered
PROPERTY Returns
CHECK_DEADLOCK FALSE
