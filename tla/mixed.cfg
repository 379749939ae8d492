SPECIFICATION Spec
CONSTANTS
  Nodes <- MixedNodes
  Initial <- MixedInitial
  EntryRegion = "root"
  Limits <- Ample
  MaxSafeInteger = 1000
  maximumTotalActivities <- ExactActivities
INVARIANTS
  StateReadable
  WaitsForWhatItIssued
  EarlyDecisionIsFinal
  ActivitiesWithinBound
