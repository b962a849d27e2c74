SPECIFICATION FairSpec
CONSTANTS
  j1 = j1
  Unreadable = Unreadable
  Jobs <- OneJob
  RefreshEvery = 1
  Patience = 1
  MaxQueue = 1
  MaxPresses = 1
  MaxOdd = 0
  MayHang = TRUE
PROPERTY SilenceIsSaid
CHECK_DEADLOCK FALSE
