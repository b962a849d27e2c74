SPECIFICATION WorkloadSpec
CONSTANTS
  p1 = p1
  p2 = p2
  p3 = p3
  ann = ann
  bob = bob
  web = web
  ops = ops
  Nobody = Nobody
  NoProject = NoProject
  Procs <- Sessions
  Authors <- People
  Projects <- Tags
  Membership <- Members
  Commands <- AllCommands
  MaxTx = 6
  Parties <- ThreeSessions
  Issued <- Everything
  Endpoints <- RowEnds
  Self <- OwnEntities
SYMMETRY SessionsAreAlike
INVARIANT TypeOK
INVARIANT BeliefTime
INVARIANT BelievedNow
INVARIANT Handover
INVARIANT OnceOnly
INVARIANT AudienceNeverWidens
 
 
PROPERTY WinnerStays
PROPERTY OwnRowsOnly
PROPERTY ImplementsBeliefLog
