CONSTANTS
  Classes <- MC_UnderClasses
  Bases = {}
  Underscored <- MC_UnderClasses
  Attrs <- MC_Attrs
  DefinedIn <- MC_UnderDefinedIn
  Kind <- MC_Kind
  Objects <- MC_SubObjects
  ClassOf <- MC_UnderClassOf
  MaxReads = 2
SPECIFICATION Spec
INVARIANT InitializerRunsOnce
CHECK_DEADLOCK FALSE
