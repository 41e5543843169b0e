CONSTANTS
  Threads <- MC_Threads
  MaxCalls <- MC_MaxCalls
SPECIFICATION Spec
PROPERTY StableAfterFirstCalls
CHECK_DEADLOCK FALSE
