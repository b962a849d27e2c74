SPECIFICATION Spec
CONSTANTS
  r1 = r1
  r2 = r2
  r3 = r3
  Shas = {r1, r2, r3}
  None = None
  Keep = 1
  PruneAge = 1
  MaxInstalls = 5
  MaxDeaths = 2
SYMMETRY AnyOrder
INVARIANT LatelyCurrentStays
CHECK_DEADLOCK FALSE
