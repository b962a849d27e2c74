SPECIFICATION FairSpec
CONSTANTS
  r1 = r1
  r2 = r2
  r3 = r3
  a = a
  b = b
  g1 = g1
  g2 = g2
  NoReq = NoReq
  NoPid = NoPid
  Foreign = Foreign
  Writer = Writer
  Ids <- TwoIds
  Requests <- TwoRequests
  IdOf <- OwnIds
  Pids <- OnePid
  MaxInflight = 2
  MaxKids = 1
PROPERTY StdinMovesOn
 
PROPERTY EveryCallAnswered
CHECK_DEADLOCK FALSE
