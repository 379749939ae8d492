SPECIFICATION Spec
CONSTANTS
  Nodes <- RaceNodes
  Initial <- RaceInitial
  EntryRegion = "root"
  Limits <- Ample
INVARIANTS
  CancellationCoversDescendants
