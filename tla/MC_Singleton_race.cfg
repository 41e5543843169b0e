CONSTANTS
  Threads <- MC_RaceThreads
  MaxCalls <- MC_RaceCalls
SPECIFICATION Spec
INVARIANT SameInstanceForAll
CHECK_DEADLOCK FALSE
