SPECIFICATION Spec
CONSTANTS
  r1 = r1
  r2 = r2
  r3 = r3
  a = a
  b = b
  g1 = g1
  g2 = g2
  NoReq = NoReq
  NoPid = NoPid
  Foreign = Foreign
  Writer = Writer
  Ids <- TwoIds
  Requests <- ThreeRequests
  IdOf <- MixedIds
  Pids <- OnePid
  MaxInflight = 2
  MaxKids = 2
INVARIANT TypeOK
INVARIANT SignalsHitTheirGroup
INVARIANT CancelReaches
INVARIANT CallsAreKnown
INVARIANT ShutdownSettles
CHECK_DEADLOCK FALSE
