SPECIFICATION Spec
CONSTANTS
  Sources <- AnySource
  Submissions <- AnySubmission
INVARIANTS
  ValidatedIsCompiled
  StatusesAreKept
PROPERTIES
  FollowsSource
CHECK_DEADLOCK FALSE
