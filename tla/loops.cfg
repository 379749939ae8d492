SPECIFICATION FairSpec
CONSTANTS
  Nodes <- LoopNodes
  Initial <- LoopInitial
  EntryRegion = "root"
  Limits <- Ample
INVARIANTS
  DispatchedOnce
  ReceiptsOutliveRegion
  StateWithinEnvelope
PROPERTIES
  NothingStartsOnceCancelled
  RunCancellationWins
  Concludes
