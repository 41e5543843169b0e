CONSTANTS
  Classes <- MC_SubClasses
  Bases <- MC_SubBases
  Underscored = {}
  Attrs <- MC_Attrs
  DefinedIn <- MC_DefinedIn
  Kind <- MC_Kind
  Objects <- MC_SubObjects
  ClassOf <- MC_SubClassOf
  MaxReads = 2
SPECIFICATION Spec
INVARIANT InitializerRunsOnce
CHECK_DEADLOCK FALSE
