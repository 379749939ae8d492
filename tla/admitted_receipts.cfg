SPECIFICATION Spec
CONSTANTS
  Nodes <- ChainNodes
  Initial <- ChainInitial
  EntryRegion = "root"
  Limits <- ExactOperations
INVARIANTS
  AdmissionSuffices
