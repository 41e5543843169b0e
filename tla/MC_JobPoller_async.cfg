CONSTANTS
  Jobs <- MC_Jobs
  MaxTries <- MC_MaxTries
  Async = TRUE
SPECIFICATION Spec
INVARIANT TypeOK
INVARIANT FinishedIsJustified
PROPERTY TrackerSpec
CHECK_DEADLOCK FALSE
