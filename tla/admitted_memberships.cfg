SPECIFICATION Spec
CONSTANTS
  Nodes <- TrioNodes
  Initial <- TrioInitial
  EntryRegion = "root"
  Limits <- ExactMemberships
INVARIANTS
  AdmissionSuffices
