----------------------------- MODULE Singleton -----------------------------
(***************************************************************************)
(* slivka.utils.Singleton, the metaclass of the settings object, called   *)
(* by several threads.  __call__ runs in three steps that another thread  *)
(* can interleave with:                                                    *)
(*   check  -- `if cls not in cls.__instances` (line 18)                  *)
(*   create -- `cls.__instances[cls] = super().__call__(...)` (line 19):  *)
(*             construct a new instance and store it                       *)
(*   return -- `return cls.__instances[cls]` (line 20), a second read of  *)
(*             the dictionary                                              *)
(* The `instance` property (lines 22-24) is the same call.  One class is  *)
(* modelled: the dictionary is keyed by class, so classes do not interact.*)
(***************************************************************************)
EXTENDS Naturals, FiniteSets

CONSTANTS Threads,   \* threads that construct the settings object
          MaxCalls   \* calls each thread makes

ASSUME SingletonAssumption ==
    Threads # {} /\ IsFiniteSet(Threads) /\ MaxCalls \in Nat

\* Instances are numbered in creation order; 0 is "cls not in __instances".
NoInstance == 0

VARIABLES
    stored,    \* cls.__instances[cls], or NoInstance
    pc,        \* where each thread is in __call__
    made,      \* instances constructed so far
    returned,  \* the instances each thread's calls have returned
    calls      \* calls each thread has completed

vars == <<stored, pc, made, returned, calls>>

Init ==
    /\ stored = NoInstance
    /\ pc = [t \in Threads |-> "idle"]
    /\ made = 0
    /\ returned = [t \in Threads |-> {}]
    /\ calls = [t \in Threads |-> 0]

\* A fault of the kind a change here could introduce: the membership test
\* dropped, so every call constructs.
CallWithoutCheck(t) ==
    /\ pc[t] = "idle"
    /\ calls[t] < MaxCalls
    /\ pc' = [pc EXCEPT ![t] = "create"]
    /\ UNCHANGED <<stored, made, returned, calls>>

\* Cls(...) or Cls.instance: test whether an instance is stored.
Call(t) ==
    /\ pc[t] = "idle"
    /\ calls[t] < MaxCalls
    /\ pc' = [pc EXCEPT ![t] = IF stored = NoInstance THEN "create" ELSE "return"]
    /\ UNCHANGED <<stored, made, returned, calls>>

\* Construct an instance and store it, whatever is stored by now.
Create(t) ==
    /\ pc[t] = "create"
    /\ made' = made + 1
    /\ stored' = made + 1
    /\ pc' = [pc EXCEPT ![t] = "return"]
    /\ UNCHANGED <<returned, calls>>

\* Read the dictionary again and return what it holds.
Return(t) ==
    /\ pc[t] = "return"
    /\ returned' = [returned EXCEPT ![t] = @ \cup {stored}]
    /\ calls' = [calls EXCEPT ![t] = @ + 1]
    /\ pc' = [pc EXCEPT ![t] = "idle"]
    /\ UNCHANGED <<stored, made>>

Next == \E t \in Threads : Call(t) \/ Create(t) \/ Return(t)

Spec == Init /\ [][Next]_vars
-----------------------------------------------------------------------------
\* The promise of a singleton: every call, by any thread, returns the same
\* object (spec 9: a single configuration object shared by every
\* component).
SameInstanceForAll ==
    Cardinality(UNION {returned[t] : t \in Threads}) <= 1

\* The race is confined to the first calls: once every thread has completed
\* a call, the stored instance never changes again, since a later check
\* always finds it (made <= Cardinality(Threads) follows).
StableAfterFirstCalls ==
    [][ (\A t \in Threads : calls[t] >= 1) => stored' = stored ]_vars
=============================================================================
