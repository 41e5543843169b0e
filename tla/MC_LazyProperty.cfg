CONSTANTS
  Classes <- MC_Classes
  Bases <- MC_Bases
  Underscored = {}
  Attrs <- MC_Attrs
  DefinedIn <- MC_DefinedIn
  Kind <- MC_Kind
  Objects <- MC_Objects
  ClassOf <- MC_ClassOf
  MaxReads = 2
SPECIFICATION Spec
INVARIANT InitializerRunsOnce
CHECK_DEADLOCK FALSE
