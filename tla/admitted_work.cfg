SPECIFICATION Spec
CONSTANTS
  Nodes <- NestedNodes
  Initial <- NestedInitial
  EntryRegion = "root"
  Limits <- ExactWork
INVARIANTS
  AdmissionSuffices
