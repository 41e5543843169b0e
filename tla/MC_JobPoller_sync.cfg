CONSTANTS
  Jobs <- MC_Jobs
  MaxTries <- MC_MaxTries
  Async = FALSE
SPECIFICATION Spec
INVARIANT FinishedIsJustified
INVARIANT TriesCountFailures
PROPERTY FinishedJobEventuallyRecorded
CHECK_DEADLOCK FALSE
