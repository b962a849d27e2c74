SPECIFICATION Tier1Spec
CONSTANTS
  w1 = w1
  w2 = w2
  Nobody = Nobody
  NoMap = NoMap
  Callers <- Workers
  Ttl = 2
  CeilingMult = 10
  DbTimeout = 1
  MaxNow = 26
  Repo = "r"
  Graphs <- MapsOfComponents
  Paths = {"p", "q"}
  Outside = "x"
  Names <- Spellings
  Fold <- LowerCase
  Up = ".."
  Systems <- Trees
  FilePaths <- PathsAsked
  Roots <- RootsAsked
  MaxHops = 2
  MaxSteps = 12
INVARIANT MapIsYoung
 
INVARIANT RulesDelivered
PROPERTY MorePathsKeepRules
CHECK_DEADLOCK FALSE
