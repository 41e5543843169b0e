--------------------------- MODULE LazyProperty ---------------------------
(***************************************************************************)
(* slivka.utils.lazy_property: a non-data descriptor that computes an     *)
(* attribute on first access and caches it in the instance dictionary.   *)
(* Because it defines no __set__, Python looks an attribute up in the     *)
(* instance dictionary first, and calls __get__ only on a miss.  __get__  *)
(* stores the value under a key of its own making (lines 72-77); the      *)
(* cache works only when that key is the one Python looks up.             *)
(*                                                                         *)
(* Attribute and class names are model values.  A name string is          *)
(* abstracted to its structure: an attribute key is <<a>> for a name that *)
(* is not mangled, and <<a, n>> for the mangled '_' + n + a, where a class *)
(* name n is <<u, c>>: u is the '_' the name of class c starts with, or "".*)
(***************************************************************************)
EXTENDS Naturals, Relation

CONSTANTS
    Classes,      \* classes of the program
    Bases,        \* <<sub, base>> pairs: sub names base as a base class
    Underscored,  \* classes whose __name__ starts with '_'
    Attrs,        \* lazy properties
    DefinedIn,    \* the class whose body defines each lazy property
    Kind,         \* "plain" (x, _x), "private" (__x) or "dunder" (__x__)
    Objects,      \* instances
    ClassOf,      \* type(instance)
    MaxReads      \* reads of each attribute of each instance

ASSUME LazyAssumption ==
    /\ Underscored \subseteq Classes
    /\ DefinedIn \in [Attrs -> Classes]
    /\ Kind \in [Attrs -> {"plain", "private", "dunder"}]
    /\ ClassOf \in [Objects -> Classes]
    /\ MaxReads \in Nat

\* issubclass(sub, base), from the direct bases.
IsSubclass ==
    ReflexiveTransitiveClosure([p \in Classes \X Classes |-> p \in Bases], Classes)

\* c.__name__ and c.__name__.lstrip('_').
ClassName(c) == <<IF c \in Underscored THEN "_" ELSE "", c>>
StrippedName(c) == <<"", c>>

\* The key Python looks up for instance.a in a method of the defining
\* class: a private name is mangled at compile time with the defining
\* class's name, leading underscores stripped.
LookupKey(a) ==
    IF Kind[a] = "private" THEN <<a, StrippedName(DefinedIn[a])>> ELSE <<a>>

\* A fault of the kind a change here could introduce: the test
\* `not name.endswith('__')` dropped.
StoreKeyMangleDunder(a, owner) ==
    IF Kind[a] \in {"private", "dunder"} THEN <<a, ClassName(owner)>> ELSE <<a>>

\* The key __get__ stores under (lines 74-76): '_' + owner.__name__ + name
\* for a name that starts, and does not end, with '__'.
StoreKey(a, owner) ==
    IF Kind[a] = "private" THEN <<a, ClassName(owner)>> ELSE <<a>>

VARIABLES
    dict,    \* instance.__dict__: the keys set so far and their values
    inits,   \* calls of the initializer, per instance and attribute
    reads    \* reads done, per instance and attribute

vars == <<dict, inits, reads>>

Pairs == Objects \X Attrs

Init ==
    /\ dict = [o \in Objects |-> <<>>]
    /\ inits = [p \in Pairs |-> 0]
    /\ reads = [p \in Pairs |-> 0]

\* d[k] = v on a dictionary d: k is added to the keys if it is new.
SetItem(d, k, v) == [x \in {k} \cup DOMAIN d |-> IF x = k THEN v ELSE d[x]]

\* instance.a resolves to the lazy property: type(instance) inherits it.
CanRead(o, a) ==
    /\ IsSubclass[ClassOf[o], DefinedIn[a]]
    /\ reads[<<o, a>>] < MaxReads

\* The instance dictionary holds the key: the cached value is returned and
\* the descriptor is not called.
ReadCached(o, a) ==
    /\ CanRead(o, a)
    /\ LookupKey(a) \in DOMAIN dict[o]
    /\ reads' = [reads EXCEPT ![<<o, a>>] = @ + 1]
    /\ UNCHANGED <<dict, inits>>

\* A miss: __get__(instance, type(instance)) runs the initializer, whose
\* result is a new value, and stores it (lines 71-78).
ReadCompute(o, a) ==
    /\ CanRead(o, a)
    /\ LookupKey(a) \notin DOMAIN dict[o]
    /\ inits' = [inits EXCEPT ![<<o, a>>] = @ + 1]
    /\ dict' = [dict EXCEPT ![o] =
                   SetItem(@, StoreKey(a, ClassOf[o]), <<o, a, inits'[<<o, a>>]>>)]
    /\ reads' = [reads EXCEPT ![<<o, a>>] = @ + 1]

Next == \E o \in Objects, a \in Attrs : ReadCached(o, a) \/ ReadCompute(o, a)

Spec == Init /\ [][Next]_vars
-----------------------------------------------------------------------------
\* The promise of a lazy property (spec 9, cache on first access): the
\* initializer runs at most once per instance, so every read of the
\* attribute returns the value the first read computed.
InitializerRunsOnce == \A p \in Pairs : inits[p] <= 1
=============================================================================
