SPECIFICATION Spec
CONSTANTS
  ann = ann
  bob = bob
  p = p
  q = q
  Procs <- TwoSessions
  Commands <- Swapped
  Endpoints <- RowEnds
  Self <- OwnEntities
INVARIANT EndpointsNeverDeadlock
CHECK_DEADLOCK FALSE
