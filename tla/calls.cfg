SPECIFICATION Spec
CONSTANTS
  Modules <- Three
  Sources <- AnyCalls
  Outcomes <- Done
  CallDepth = 1
INVARIANTS
  RecursionIsFound
  DepthIsExact
  LinkingAgreesWithAdmission
  AdmittedCallsDescend
CHECK_DEADLOCK FALSE
