SPECIFICATION Spec
CONSTANTS
  Ids = {1, 2, 3, 4}
  Nowhere = 0
  MaxRoutes = 2
  Sources <- AnySource
INVARIANTS
  CyclesAreFound
  VerdictOfAdmission
CHECK_DEADLOCK FALSE
