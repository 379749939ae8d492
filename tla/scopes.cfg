SPECIFICATION Spec
CONSTANTS
  Depth = 5
  Iterations = 2
  Items = 2
INVARIANTS
  AnalysesAgree
  ProvidedAsAdmitted
