SPECIFICATION Spec
CONSTANTS
  Nodes <- OwnerNodes
  Initial <- OwnerInitial
  EntryRegion = "root"
  Limits <- Ample
INVARIANTS
  TypeOK
  NoInvariantFault
  StateReadable
  CancellationCoversDescendants
  NoDetachedWork
  WaitsForHost
  MapKeepsConcurrency
  StateWithinEnvelope
PROPERTIES
  ResultsAreFinal
  ImplementsRun
