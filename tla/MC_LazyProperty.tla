------------------------- MODULE MC_LazyProperty -------------------------
EXTENDS LazyProperty

\* Base defines one lazy property of each kind of name.
MC_Attrs == {"plain", "private", "dunder"}
MC_DefinedIn == [a \in MC_Attrs |-> "Base"]
MC_Kind == [a \in MC_Attrs |-> a]
\* Instances of the defining class only.
MC_Classes == {"Base"}
MC_Bases == {}
MC_Objects == {"b1", "b2"}
MC_ClassOf == [o \in MC_Objects |-> "Base"]
\* Sub inherits from Base; an instance of Sub reads the private property.
MC_SubClasses == {"Base", "Sub"}
MC_SubBases == {<<"Sub", "Base">>}
MC_SubObjects == {"s"}
MC_SubClassOf == [o \in MC_SubObjects |-> "Sub"]
\* A class whose name starts with '_' defines the properties.
MC_UnderClasses == {"_Base"}
MC_UnderDefinedIn == [a \in MC_Attrs |-> "_Base"]
MC_UnderClassOf == [o \in MC_SubObjects |-> "_Base"]
=============================================================================
