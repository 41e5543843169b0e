------------------------ MODULE BackoffCounterProofs ------------------------
(***************************************************************************)
(* Proofs about BackoffCounter for every value of max_tries: the counter  *)
(* keeps its type, CounterOK is preserved by each method, and next()      *)
(* follows the countdown contract.                                        *)
(***************************************************************************)
EXTENDS BackoffCounter, TLAPS

\* The constructor and reset() build a counter in its initial state.
LEMMA NewCounterOK == NewCounter \in Counter /\ CounterOK(NewCounter)
  BY MaxTriesAssumption DEF NewCounter, Counter, CounterOK

LEMMA ResetOK ==
  ASSUME NEW c \in Counter
  PROVE  /\ CounterReset(c) \in Counter
         /\ CounterOK(CounterReset(c))
  BY MaxTriesAssumption DEF CounterReset, Counter, CounterOK

\* next() keeps the type and CounterOK, and yields the previous delay
\* minus one, never below 0.
LEMMA NextOK ==
  ASSUME NEW c \in Counter, CounterOK(c)
  PROVE  /\ CounterNext(c) \in Counter
         /\ CounterOK(CounterNext(c))
         /\ CounterNext(c).current = IF c.current > 0 THEN c.current - 1 ELSE 0
  <1>1. CASE c.gen = "repeat0"
    BY <1>1, ShiftAssumption DEF CounterNext, Counter, CounterOK
  <1>2. CASE c.gen = "countdown" /\ c.remaining > 0
    <2>1. 2^c.tries \in Nat
      BY ShiftAssumption DEF Counter
    <2>2. QED
      BY <1>2, <2>1 DEF CounterNext, Counter, CounterOK
  <1>3. CASE c.gen = "countdown" /\ ~(c.remaining > 0)
    <2>1. CounterNext(c) = CounterReset(c)
      BY <1>3 DEF CounterNext
    <2>2. c.current = 0 /\ CounterReset(c).current = 0
      BY <1>3 DEF Counter, CounterOK, CounterReset
    <2>3. QED
      BY <2>1, <2>2, ResetOK
  <1>4. QED
    BY <1>1, <1>2, <1>3 DEF Counter

\* failure() keeps the type and CounterOK.
LEMMA FailureOK ==
  ASSUME NEW c \in Counter
  PROVE  /\ CounterFailure(c) \in Counter
         /\ CounterOK(CounterFailure(c))
  <1> DEFINE t == IF c.tries + 1 < MaxTries THEN c.tries + 1 ELSE MaxTries
  <1>1. t \in 0..MaxTries
    BY MaxTriesAssumption DEF Counter
  <1>2. 2^t \in Nat
    BY <1>1, ShiftAssumption
  <1>3. CounterFailure(c) = [tries |-> t, current |-> 2^t,
                             gen |-> "countdown", remaining |-> 2^t]
    BY DEF CounterFailure
  <1>4. QED
    BY <1>1, <1>2, <1>3 DEF Counter, CounterOK

\* TypeOK /\ CounterInv is an inductive invariant of the counter.
LEMMA Inductive == Spec => [](TypeOK /\ CounterInv)
  <1>1. Init => TypeOK /\ CounterInv
    BY NewCounterOK DEF Init, TypeOK, CounterInv
  <1>2. TypeOK /\ CounterInv /\ [Next]_bc => (TypeOK /\ CounterInv)'
    <2> SUFFICES ASSUME TypeOK, CounterInv, [Next]_bc
                 PROVE  (TypeOK /\ CounterInv)'
      OBVIOUS
    <2>1. CASE DoNext
      BY <2>1, NextOK DEF DoNext, TypeOK, CounterInv
    <2>2. CASE DoFailure
      BY <2>2, FailureOK DEF DoFailure, TypeOK, CounterInv
    <2>3. CASE DoReset
      BY <2>3, ResetOK DEF DoReset, TypeOK, CounterInv
    <2>4. CASE UNCHANGED bc
      BY <2>4 DEF TypeOK, CounterInv
    <2>5. QED
      BY <2>1, <2>2, <2>3, <2>4 DEF Next
  <1>3. QED
    BY <1>1, <1>2, PTL DEF Spec

\* The counter always has its type.
THEOREM TypeCorrect == Spec => []TypeOK
  BY Inductive, PTL

\* Every next() yields the previous delay minus one, never below 0: after
\* the n-th failure() the delays are 2^n - 1, ..., 0, 0, ...
THEOREM CountdownHolds == Spec => CountdownContract
  <1>1. TypeOK /\ CounterInv /\ [Next]_bc
          => [DoNext => bc'.current = IF bc.current > 0 THEN bc.current - 1 ELSE 0]_bc
    BY NextOK DEF TypeOK, CounterInv, DoNext
  <1>2. QED
    BY <1>1, Inductive, PTL DEF Spec, CountdownContract
=============================================================================
