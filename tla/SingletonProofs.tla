-------------------------- MODULE SingletonProofs --------------------------
(***************************************************************************)
(* Proof that the race of Singleton.__call__ is confined to the first    *)
(* calls, and constructs at most one instance per thread, for any number *)
(* of threads and calls.                                                   *)
(***************************************************************************)
EXTENDS Singleton, FiniteSetTheorems, TLAPS

\* Only a thread still in its first call can be about to construct: a later
\* call follows a completed one, which stored an instance or found one, and
\* an instance once stored is never removed.
SingletonInv ==
    /\ made \in Nat /\ stored \in Nat
    /\ pc \in [Threads -> {"idle", "create", "return"}]
    /\ calls \in [Threads -> Nat]
    /\ \A t \in Threads : pc[t] = "create" => calls[t] = 0
    /\ \A t \in Threads : pc[t] = "return" => stored # NoInstance
    /\ \A t \in Threads : calls[t] >= 1 => stored # NoInstance

LEMMA InitInv == Init => SingletonInv
  BY DEF Init, SingletonInv, NoInstance

LEMMA NextInv == SingletonInv /\ [Next]_vars => SingletonInv'
  <1> SUFFICES ASSUME SingletonInv, [Next]_vars PROVE SingletonInv'
    OBVIOUS
  <1>1. ASSUME NEW t \in Threads, Call(t) PROVE SingletonInv'
    BY <1>1 DEF Call, SingletonInv, NoInstance
  <1>2. ASSUME NEW t \in Threads, Create(t) PROVE SingletonInv'
    BY <1>2 DEF Create, SingletonInv, NoInstance
  <1>3. ASSUME NEW t \in Threads, Return(t) PROVE SingletonInv'
    BY <1>3 DEF Return, SingletonInv, NoInstance
  <1>4. CASE UNCHANGED vars
    BY <1>4 DEF vars, SingletonInv
  <1>5. QED
    BY <1>1, <1>2, <1>3, <1>4 DEF Next

\* Once every thread has completed a call, no step changes the stored
\* instance, whatever the number of threads and calls.
THEOREM StableAfterFirstCallsHolds == Spec => StableAfterFirstCalls
  <1>1. SingletonInv /\ [Next]_vars
          => [(\A t \in Threads : calls[t] >= 1) => stored' = stored]_vars
    <2> SUFFICES ASSUME SingletonInv, [Next]_vars, \A t \in Threads : calls[t] >= 1
                 PROVE  stored' = stored
      BY DEF vars
    <2>1. \A t \in Threads : ~Create(t)
      BY DEF Create, SingletonInv
    <2>2. QED
      BY <2>1 DEF Next, Call, Return, vars
  <1>2. QED
    BY <1>1, InitInv, NextInv, PTL DEF Spec, StableAfterFirstCalls

\* The threads past their first check: about to return, or done with a call.
Started == {t \in Threads : pc[t] = "return" \/ calls[t] >= 1}

\* Every construction so far moved a thread that had not started into
\* Started, so there are at most as many instances as started threads.
CountInv == SingletonInv /\ made <= Cardinality(Started)

\* Sets of threads are finite and no larger than Threads.
LEMMA ThreadSets ==
  ASSUME NEW T \in SUBSET Threads
  PROVE  /\ IsFiniteSet(T)
         /\ Cardinality(T) \in Nat
         /\ Cardinality(T) <= Cardinality(Threads)
  BY SingletonAssumption, FS_Subset, FS_CardinalityType

LEMMA NextCount == CountInv /\ [Next]_vars => CountInv'
  <1> SUFFICES ASSUME CountInv, [Next]_vars PROVE CountInv'
    OBVIOUS
  <1>1. SingletonInv'
    BY NextInv DEF CountInv
  <1>2. Started \in SUBSET Threads /\ Started' \in SUBSET Threads
    BY DEF Started
  <1>3. ASSUME NEW t \in Threads, Call(t) PROVE made' <= Cardinality(Started')
    <2>1. Started \subseteq Started'
      BY <1>3 DEF Call, Started, CountInv, SingletonInv
    <2>2. Cardinality(Started) <= Cardinality(Started')
      BY <1>2, <2>1, ThreadSets, FS_Subset
    <2>3. QED
      BY <1>3, <1>2, <2>2, ThreadSets DEF Call, CountInv, SingletonInv
  <1>4. ASSUME NEW t \in Threads, Create(t) PROVE made' <= Cardinality(Started')
    <2>1. t \notin Started
      BY <1>4 DEF Create, Started, CountInv, SingletonInv
    <2>2. Started' = Started \cup {t}
      BY <1>4 DEF Create, Started, CountInv, SingletonInv
    <2>3. Cardinality(Started') = Cardinality(Started) + 1
      BY <1>2, <2>1, <2>2, ThreadSets, FS_AddElement
    <2>4. QED
      BY <1>4, <1>2, <2>3, ThreadSets DEF Create, CountInv, SingletonInv
  <1>5. ASSUME NEW t \in Threads, Return(t) PROVE made' <= Cardinality(Started')
    <2>1. Started' = Started
      BY <1>5 DEF Return, Started, CountInv, SingletonInv
    <2>2. QED
      BY <1>5, <2>1 DEF Return, CountInv
  <1>6. CASE UNCHANGED vars
    <2>1. Started' = Started
      BY <1>6 DEF vars, Started
    <2>2. QED
      BY <1>1, <1>6, <2>1 DEF vars, CountInv
  <1>7. QED
    BY <1>1, <1>3, <1>4, <1>5, <1>6 DEF Next, CountInv

\* However the first calls of Singleton.__call__ interleave, at most one
\* settings object per thread is ever constructed (lines 18-19), for any
\* number of threads and calls.
THEOREM InstancesWithinThreads == Spec => [](made <= Cardinality(Threads))
  <1>1. Init => CountInv
    <2> SUFFICES ASSUME Init PROVE CountInv
      OBVIOUS
    <2>1. Cardinality(Started) \in Nat
      BY ThreadSets DEF Started
    <2>2. QED
      BY <2>1, InitInv DEF Init, CountInv
  <1>2. CountInv => made <= Cardinality(Threads)
    <2> SUFFICES ASSUME CountInv PROVE made <= Cardinality(Threads)
      OBVIOUS
    <2>1. Started \in SUBSET Threads
      BY DEF Started
    <2>2. QED
      BY <2>1, ThreadSets DEF CountInv, SingletonInv
  <1>3. QED
    BY <1>1, <1>2, NextCount, PTL DEF Spec

====
