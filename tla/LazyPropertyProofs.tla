------------------------ MODULE LazyPropertyProofs ------------------------
(***************************************************************************)
(* What the lazy_property cache needs to be a cache: for every instance  *)
(* and every lazy property it can read, the key __get__ stores under is  *)
(* the key Python looks up.  Under that condition the initializer runs   *)
(* at most once per instance and attribute, for any classes, names,      *)
(* instances and number of reads.  The runs lazy_subclass and            *)
(* lazy_underscore_class show the condition failing in the code.         *)
(***************************************************************************)
EXTENDS LazyProperty, TLAPS

\* The key line 76 builds is the key Python looks up, for every instance
\* and every lazy property its class inherits.
KeysAgree ==
    \A o \in Objects, a \in Attrs :
        IsSubclass[ClassOf[o], DefinedIn[a]] => StoreKey(a, ClassOf[o]) = LookupKey(a)

\* The uses of lazy_property under which lines 74-76 build the looked-up
\* key: a private (__x) lazy property is read only on instances of the
\* class that defines it, and that class's name does not start with '_'.
PrivateUseInDefiningClass ==
    \A o \in Objects, a \in Attrs :
        IsSubclass[ClassOf[o], DefinedIn[a]] /\ Kind[a] = "private"
            => ClassOf[o] = DefinedIn[a] /\ DefinedIn[a] \notin Underscored

\* An attribute whose initializer has run is found in the instance
\* dictionary from then on.
LazyInv ==
    /\ inits \in [Pairs -> Nat]
    /\ DOMAIN dict = Objects
    /\ \A o \in Objects, a \in Attrs :
          /\ inits[<<o, a>>] <= 1
          /\ inits[<<o, a>>] = 1 => LookupKey(a) \in DOMAIN dict[o]

LEMMA InitLazy == Init => LazyInv
  BY DEF Init, LazyInv, Pairs

\* A miss stores a key that is looked up, and keys are never removed.
LEMMA ComputeLazy ==
  ASSUME KeysAgree, LazyInv, NEW o \in Objects, NEW a \in Attrs, ReadCompute(o, a)
  PROVE  LazyInv'
  <1> DEFINE k == StoreKey(a, ClassOf[o])
  <1>1. inits[<<o, a>>] = 0
    <2>1. LookupKey(a) \notin DOMAIN dict[o]
      BY Zenon DEF ReadCompute
    <2>2. QED
      BY <2>1 DEF LazyInv, Pairs
  <1>2. k = LookupKey(a)
    <2>1. IsSubclass[ClassOf[o], DefinedIn[a]]
      BY Zenon DEF ReadCompute, CanRead
    <2>2. QED
      BY <2>1, Zenon DEF KeysAgree
  <1>3. dict' = [dict EXCEPT ![o] = SetItem(dict[o], k, <<o, a, inits'[<<o, a>>]>>)]
    BY Zenon DEF ReadCompute
  <1>4. DOMAIN dict' = Objects
    BY <1>3 DEF LazyInv
  <1>5. DOMAIN dict'[o] = {k} \cup DOMAIN dict[o]
    BY <1>3 DEF SetItem, LazyInv
  <1>6. \A o2 \in Objects : o2 # o => dict'[o2] = dict[o2]
    BY <1>3 DEF LazyInv
  <1>7. inits' = [inits EXCEPT ![<<o, a>>] = 1]
    <2>1. inits' = [inits EXCEPT ![<<o, a>>] = inits[<<o, a>>] + 1]
      BY Zenon DEF ReadCompute
    <2>2. QED
      BY <1>1, <2>1
  <1>8. inits' \in [Pairs -> Nat]
    BY <1>7 DEF LazyInv, Pairs
  <1>9. ASSUME NEW o2 \in Objects, NEW a2 \in Attrs
        PROVE  /\ inits'[<<o2, a2>>] <= 1
               /\ inits'[<<o2, a2>>] = 1 => LookupKey(a2) \in DOMAIN dict'[o2]
    <2>1. CASE o2 = o
      BY <1>2, <1>5, <1>7, <2>1 DEF LazyInv, Pairs
    <2>2. CASE o2 # o
      BY <1>6, <1>7, <2>2 DEF LazyInv, Pairs
    <2>3. QED
      BY <2>1, <2>2
  <1>10. QED
    BY <1>4, <1>8, <1>9 DEF LazyInv

LEMMA NextLazy ==
  ASSUME KeysAgree, LazyInv, [Next]_vars
  PROVE  LazyInv'
  <1>1. ASSUME NEW o \in Objects, NEW a \in Attrs, ReadCached(o, a) PROVE LazyInv'
    BY <1>1 DEF ReadCached, LazyInv
  <1>2. ASSUME NEW o \in Objects, NEW a \in Attrs, ReadCompute(o, a) PROVE LazyInv'
    BY <1>2, ComputeLazy
  <1>3. CASE UNCHANGED vars
    BY <1>3 DEF vars, LazyInv
  <1>4. QED
    BY <1>1, <1>2, <1>3 DEF Next

\* The name mangling of __get__ agrees with Python's exactly when private
\* lazy properties are read only on the defining class, and that class's
\* name has no leading underscore: '_' + owner.__name__ + name names the
\* subclass for an inherited attribute, and keeps the underscores that
\* the compiler strips.
THEOREM KeysAgreeIffPrivateUse == KeysAgree <=> PrivateUseInDefiningClass
  <1>1. ASSUME NEW o \in Objects, NEW a \in Attrs, Kind[a] = "private"
        PROVE  StoreKey(a, ClassOf[o]) = LookupKey(a)
                 <=> ClassOf[o] = DefinedIn[a] /\ DefinedIn[a] \notin Underscored
    <2> DEFINE c == ClassOf[o]
               d == DefinedIn[a]
    <2>1. LookupKey(a) = <<a, <<"", d>>>>
      BY <1>1 DEF LookupKey, StrippedName
    <2>2. CASE c \in Underscored
      <3>1. StoreKey(a, c) = <<a, <<"_", c>>>>
        BY <1>1, <2>2 DEF StoreKey, ClassName
      <3>2. StoreKey(a, c) # LookupKey(a)
        <4>1. <<"_", c>> # <<"", d>>
          BY <<"_", c>>[1] # <<"", d>>[1]
        <4>2. <<a, <<"_", c>>>>[2] # <<a, <<"", d>>>>[2]
          BY <4>1
        <4>3. QED
          BY <2>1, <3>1, <4>2
      <3>3. ~(c = d /\ d \notin Underscored)
        BY <2>2
      <3>4. QED
        BY <3>2, <3>3
    <2>3. CASE c \notin Underscored
      <3>1. StoreKey(a, c) = <<a, <<"", c>>>>
        BY <1>1, <2>3 DEF StoreKey, ClassName
      <3>2. StoreKey(a, c) = LookupKey(a) <=> c = d
        <4>1. <<a, <<"", c>>>> = <<a, <<"", d>>>> <=> <<"", c>> = <<"", d>>
          OBVIOUS
        <4>2. <<"", c>> = <<"", d>> <=> c = d
          OBVIOUS
        <4>3. QED
          BY <2>1, <3>1, <4>1, <4>2
      <3>3. QED
        BY <2>3, <3>2
    <2>4. QED
      BY <2>2, <2>3
  <1>2. ASSUME NEW o \in Objects, NEW a \in Attrs, Kind[a] # "private"
        PROVE  StoreKey(a, ClassOf[o]) = LookupKey(a)
    BY <1>2 DEF StoreKey, LookupKey
  <1>3. QED
    BY <1>1, <1>2, Zenon DEF KeysAgree, PrivateUseInDefiningClass

\* When the key __get__ stores under is the key Python looks up, the
\* initializer of a lazy property runs at most once per instance.
THEOREM InitializerOnceWhenKeysAgree == KeysAgree => (Spec => []InitializerRunsOnce)
  <1> SUFFICES ASSUME KeysAgree PROVE Spec => []InitializerRunsOnce
    OBVIOUS
  <1>1. LazyInv => InitializerRunsOnce
    BY DEF LazyInv, InitializerRunsOnce, Pairs
  <1>2. QED
    BY <1>1, InitLazy, NextLazy, PTL DEF Spec

\* The cache of lazy_property works, whatever the classes, instances and
\* reads, for programs that read private lazy properties only on the
\* class that defines them, in a class whose name has no leading '_'.
THEOREM InitializerOnceUnderPrivateUse ==
    PrivateUseInDefiningClass => (Spec => []InitializerRunsOnce)
  BY KeysAgreeIffPrivateUse, InitializerOnceWhenKeysAgree
====
