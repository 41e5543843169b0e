CONSTANTS
  Jobs <- MC_Jobs
  MaxTries <- MC_MaxTries
  Async = TRUE
SPECIFICATION Spec
PROPERTY FinishedJobEventuallyRecorded
CHECK_DEADLOCK FALSE
