CONSTANT MaxTries <- MC_MaxTries
SPECIFICATION Spec
INVARIANT TypeOK
PROPERTY CountdownContract
