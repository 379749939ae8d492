SPECIFICATION FairSpec
CONSTANTS
  Ids <- Four
  Regions <- AllRegions
INVARIANTS
  OrderIsTopological
  AdmittedIffSound
  PromisesAreKept
  PromisesAreComplete
PROPERTIES
  AdmittedRegionsEnd
CHECK_DEADLOCK FALSE
