CONSTANT MaxTries <- MC_MaxTries
SPECIFICATION Spec
INVARIANT NotGivenUpBeforeFailure
