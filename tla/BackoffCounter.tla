--------------------------- MODULE BackoffCounter ---------------------------
(***************************************************************************)
(* slivka.utils.BackoffCounter: the delay generator a poller uses to pace  *)
(* repeated queries after failures.  The object is a record:               *)
(*   tries     -- _tries, the saturating failure count                     *)
(*   current   -- the last value produced, or 2^tries after failure()      *)
(*   gen       -- which iterator _counter holds: "repeat0" is the class    *)
(*                attribute _zero_gen = itertools.repeat(0), "countdown"   *)
(*                is reversed(range(current)) made by failure()            *)
(*   remaining -- how many values the countdown still yields; it yields    *)
(*                remaining-1 next and raises StopIteration at 0           *)
(* The operators give the object after each method; the specification at  *)
(* the end lets a single owner call the methods in any order.              *)
(***************************************************************************)
EXTENDS Naturals

CONSTANT MaxTries   \* max_tries given to the constructor

ASSUME MaxTriesAssumption == MaxTries \in Nat

\* 1 << t, the delay failure() sets, is a natural number for every try
\* count (TLC evaluates this; the provers know no facts about ^).
ASSUME ShiftAssumption == \A t \in 0..MaxTries : 2^t \in Nat

VARIABLE bc

Counter == [ tries : 0..MaxTries, current : Nat,
             gen : {"repeat0", "countdown"}, remaining : Nat ]

\* __init__: _counter = _zero_gen, _tries = 0, current = 0.
NewCounter == [tries |-> 0, current |-> 0, gen |-> "repeat0", remaining |-> 0]

(* Faults of the kind a change to this class could introduce; each one   *)
(* replaces a definition below in a check that the properties detect it. *)
ResetKeepingTries(c) ==
    [tries |-> c.tries, current |-> 0, gen |-> "repeat0", remaining |-> 0]
FailureUnsaturated(c) ==
    [tries |-> c.tries + 1, current |-> 2^(c.tries + 1),
     gen |-> "countdown", remaining |-> 2^(c.tries + 1)]
FailureRangeOffByOne(c) ==
    LET t == IF c.tries + 1 < MaxTries THEN c.tries + 1 ELSE MaxTries
    IN  [tries |-> t, current |-> 2^t, gen |-> "countdown", remaining |-> 2^t + 1]
NextWithoutStop(c) ==
    CASE c.gen = "repeat0" -> [c EXCEPT !.current = 0]
      [] OTHER -> [tries |-> c.tries, current |-> c.remaining - 1,
                   gen |-> "countdown", remaining |-> c.remaining - 1]
GiveUpEarly(c) == c.tries + 1 >= MaxTries
GiveUpNever(c) == c.tries > MaxTries

\* reset(): the same three assignments as the constructor.
CounterReset(c) ==
    [tries |-> 0, current |-> 0, gen |-> "repeat0", remaining |-> 0]

\* __next__: take the next value of _counter; on StopIteration call reset()
\* and take the next value of _zero_gen, which is 0.
CounterNext(c) ==
    CASE c.gen = "repeat0" -> [c EXCEPT !.current = 0]
      [] c.gen = "countdown" /\ c.remaining > 0 ->
             [tries |-> c.tries, current |-> c.remaining - 1,
              gen |-> "countdown", remaining |-> c.remaining - 1]
      [] OTHER -> CounterReset(c)

\* failure(): saturate _tries at max_tries, current = 1 << _tries and
\* _counter = reversed(range(current)).
CounterFailure(c) ==
    LET t == IF c.tries + 1 < MaxTries THEN c.tries + 1 ELSE MaxTries
    IN  [tries |-> t, current |-> 2^t, gen |-> "countdown", remaining |-> 2^t]

\* The give_up property.
GiveUp(c) == c.tries >= MaxTries
-----------------------------------------------------------------------------
(* A single owner calling the three methods.                               *)

Init == bc = NewCounter

DoNext == bc' = CounterNext(bc)

DoFailure == bc' = CounterFailure(bc)

DoReset == bc' = CounterReset(bc)

Next == DoNext \/ DoFailure \/ DoReset

Spec == Init /\ [][Next]_bc
-----------------------------------------------------------------------------
TypeOK == bc \in Counter

\* The relation between the visible delay and the iterator behind it: the
\* countdown still holds exactly `current` values, never more than 2^tries,
\* and the shared zero iterator is only ever held by a counter in its
\* initial state.
CounterOK(c) ==
    /\ c.current = c.remaining
    /\ c.remaining <= 2^c.tries
    /\ c.gen = "repeat0" => c.tries = 0 /\ c.remaining = 0

CounterInv == CounterOK(bc)

\* The contract of next() (spec 4.5 and 9): after the n-th failure() the
\* values produced are 2^n - 1, 2^n - 2, ..., 0 and then 0 for ever, i.e.
\* every next() yields the previous delay minus one, never below 0.  This
\* is about how __next__ and failure() hand the generator to each other.
CountdownContract ==
    [][DoNext => bc'.current = IF bc.current > 0 THEN bc.current - 1 ELSE 0]_bc

\* A counter that has seen no failure() since it was made or reset (it still
\* holds the zero iterator) has not given up (spec 4.5: with max_tries = 0,
\* give_up becomes true after the first failure()).
NotGivenUpBeforeFailure == bc.gen = "repeat0" => ~GiveUp(bc)
=============================================================================
