SPECIFICATION Spec
CONSTANTS
  Collections <- AnyCollection
  MaxKey = 3
  maximumItems = 3
  maximumConcurrency = 2
  Failures = {"e", "f"}
INVARIANTS
  KeysArePartitioned
  ItemsAreTheirOwn
  ResultsAreComplete
  FirstFailureWins
CHECK_DEADLOCK FALSE
