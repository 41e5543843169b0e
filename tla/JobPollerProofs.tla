-------------------------- MODULE JobPollerProofs --------------------------
(***************************************************************************)
(* Proof that the poller records a job finished only with the backend's   *)
(* own terminal state or after MaxTries failed queries in a row, for      *)
(* every set of jobs, every max_tries and both query modes.               *)
(***************************************************************************)
EXTENDS JobPoller, TLAPS

BCP == INSTANCE BackoffCounterProofs WITH bc <- counter

\* The counter module's assumptions hold for the poller's constants.
LEMMA CounterAssumptions ==
  BCP!MaxTriesAssumption /\ BCP!ShiftAssumption
  BY PollerAssumption

\* next() never raises the try count; failure() raises it by one and
\* saturates at MaxTries.
LEMMA TriesBounds ==
  ASSUME NEW c \in BC!Counter, BC!CounterOK(c)
  PROVE  /\ BC!CounterNext(c).tries <= c.tries
         /\ BC!CounterFailure(c).tries =
               IF c.tries + 1 < MaxTries THEN c.tries + 1 ELSE MaxTries
         /\ BC!CounterReset(c).tries = 0
  <1>1. BC!CounterNext(c).tries <= c.tries
    BY CounterAssumptions DEF BC!CounterNext, BC!Counter, BC!CounterReset
  <1>2. QED
    BY <1>1 DEF BC!CounterFailure, BC!CounterReset

\* A fresh counter is well formed.
LEMMA NewCounterIsOK == BC!NewCounter \in BC!Counter /\ BC!CounterOK(BC!NewCounter)
  BY CounterAssumptions, BCP!NewCounterOK
     DEF BC!Counter, BCP!Counter, BC!NewCounter, BCP!NewCounter,
         BC!CounterOK, BCP!CounterOK

\* Handling an answer leaves the worker of job j without one, or the
\* answers as they are: the answers stay typed, and a terminal one is
\* still the backend's state.
LEMMA AnswerCleared ==
  ASSUME PollerInv, NEW j \in Jobs, bstatus' = bstatus,
         answer' \in {answer, [answer EXCEPT ![j] = NoAnswer]}
  PROVE  /\ answer' \in [Jobs -> Answers]
         /\ \A k \in Jobs : answer'[k] \in JobStatus /\ IsFinished(answer'[k])
                            => answer'[k] = bstatus'[k]
  <1>1. NoAnswer \in Answers /\ NoAnswer \notin JobStatus
    BY DEF NoAnswer, Answers, JobStatus, StatusValue
  <1>2. QED
    BY <1>1 DEF PollerInv, TypeOK

\* A successful answer s, handled with the job's counter c after the
\* tick's next(), preserves the invariant when s, if terminal, is the
\* backend's state.
LEMMA SucceededOK ==
  ASSUME PollerInv, NEW j \in Jobs,
         NEW c \in BC!Counter, BC!CounterOK(c), c.tries <= failStreak[j],
         NEW s \in JobStatus, IsFinished(s) => s = bstatus[j],
         QuerySucceeded(j, c, s), bstatus' = bstatus,
         inflight' \in [Jobs -> BOOLEAN],
         answer' \in {answer, [answer EXCEPT ![j] = NoAnswer]}
  PROVE  PollerInv'
  <1>1. BC!CounterReset(c) \in BC!Counter /\ BC!CounterOK(BC!CounterReset(c))
    BY CounterAssumptions, BCP!ResetOK
       DEF BC!Counter, BCP!Counter, BC!CounterReset, BCP!CounterReset,
           BC!CounterOK, BCP!CounterOK
  <1>2. BC!CounterReset(c).tries = 0
    BY TriesBounds
  <1>3. TypeOK'
    <2>1. status' \in [Jobs -> JobStatus]
      BY DEF PollerInv, TypeOK, QuerySucceeded
    <2>2. counter' \in [Jobs -> BC!Counter]
      BY <1>1 DEF PollerInv, TypeOK, QuerySucceeded
    <2>3. failStreak' \in [Jobs -> 0..MaxTries]
      BY PollerAssumption DEF PollerInv, TypeOK, QuerySucceeded
    <2>4. QED
      BY <2>1, <2>2, <2>3, AnswerCleared DEF PollerInv, TypeOK
  <1>4. \A k \in Jobs : BC!CounterOK(counter'[k]) /\ counter'[k].tries <= failStreak'[k]
    BY <1>1, <1>2 DEF PollerInv, TypeOK, QuerySucceeded
  <1>5. FinishedIsJustified'
    BY DEF PollerInv, TypeOK, QuerySucceeded, FinishedIsJustified
  <1>6. QED
    BY <1>3, <1>4, <1>5, AnswerCleared DEF PollerInv

\* A transient error, handled with the job's counter c, preserves the
\* invariant: the try count failure() reaches is at most the failed
\* queries in a row, so give_up implies MaxTries of them.
LEMMA FailedOK ==
  ASSUME PollerInv, NEW j \in Jobs,
         NEW c \in BC!Counter, BC!CounterOK(c), c.tries <= failStreak[j],
         QueryFailed(j, c), bstatus' = bstatus,
         inflight' \in [Jobs -> BOOLEAN],
         answer' \in {answer, [answer EXCEPT ![j] = NoAnswer]}
  PROVE  PollerInv'
  <1> DEFINE c2 == BC!CounterFailure(c)
  <1>1. c2 \in BC!Counter /\ BC!CounterOK(c2)
    BY CounterAssumptions, BCP!FailureOK
       DEF BC!Counter, BCP!Counter, BC!CounterFailure, BCP!CounterFailure,
           BC!CounterOK, BCP!CounterOK
  <1>2. c2.tries = IF c.tries + 1 < MaxTries THEN c.tries + 1 ELSE MaxTries
    BY TriesBounds
  <1>3. failStreak'[j] = IF failStreak[j] + 1 < MaxTries THEN failStreak[j] + 1 ELSE MaxTries
    BY DEF PollerInv, TypeOK, QueryFailed
  <1>4. c2.tries <= failStreak'[j] /\ failStreak'[j] <= MaxTries
    BY <1>2, <1>3, PollerAssumption DEF PollerInv, TypeOK, BC!Counter
  <1>5. TypeOK'
    <2>1. status' \in [Jobs -> JobStatus]
      <3>1. "ERROR" \in JobStatus
        BY DEF JobStatus, StatusValue
      <3>2. QED
        BY <3>1 DEF PollerInv, TypeOK, QueryFailed
    <2>2. counter' \in [Jobs -> BC!Counter]
      BY <1>1 DEF PollerInv, TypeOK, QueryFailed
    <2>3. failStreak' \in [Jobs -> 0..MaxTries]
      BY <1>3, PollerAssumption DEF PollerInv, TypeOK, QueryFailed
    <2>4. QED
      BY <2>1, <2>2, <2>3, AnswerCleared DEF PollerInv, TypeOK
  <1>6. \A k \in Jobs : BC!CounterOK(counter'[k]) /\ counter'[k].tries <= failStreak'[k]
    BY <1>1, <1>4 DEF PollerInv, TypeOK, QueryFailed
  <1>7. FinishedIsJustified'
    <2>1. CASE BC!GiveUp(c2)
      <3> SUFFICES ASSUME NEW k \in Jobs, IsFinished(status'[k])
                   PROVE  \/ status'[k] = bstatus'[k]
                          \/ status'[k] = "ERROR" /\ failStreak'[k] >= MaxTries
        BY DEF FinishedIsJustified
      <3>1. status' = [status EXCEPT ![j] = "ERROR"]
        BY <2>1 DEF QueryFailed
      <3>2. CASE k = j
        <4>1. status'[k] = "ERROR"
          BY <3>1, <3>2 DEF PollerInv, TypeOK
        <4>2. failStreak'[k] >= MaxTries
          BY <3>2, <2>1, <1>1, <1>4, PollerAssumption DEF BC!GiveUp, BC!Counter
        <4>3. QED
          BY <4>1, <4>2
      <3>3. CASE k # j
        <4>1. status'[k] = status[k] /\ failStreak'[k] = failStreak[k]
          BY <3>1, <3>3 DEF PollerInv, TypeOK, QueryFailed
        <4>2. QED
          BY <4>1 DEF PollerInv, FinishedIsJustified
      <3>4. QED
        BY <3>2, <3>3
    <2>2. CASE ~BC!GiveUp(c2)
      <3> SUFFICES ASSUME NEW k \in Jobs, IsFinished(status'[k])
                   PROVE  \/ status'[k] = bstatus'[k]
                          \/ status'[k] = "ERROR" /\ failStreak'[k] >= MaxTries
        BY DEF FinishedIsJustified
      <3>1. status' = status
        BY <2>2 DEF QueryFailed
      <3>2. failStreak[k] >= MaxTries => failStreak'[k] >= MaxTries
        BY <1>3, PollerAssumption DEF PollerInv, TypeOK, QueryFailed
      <3>3. QED
        BY <3>1, <3>2 DEF PollerInv, FinishedIsJustified
    <2>3. QED
      BY <2>1, <2>2
  <1>8. QED
    BY <1>5, <1>6, <1>7, AnswerCleared DEF PollerInv
\* next() on a well-formed counter gives a well-formed counter.
LEMMA TickCounterOK ==
  ASSUME NEW c \in BC!Counter, BC!CounterOK(c)
  PROVE  /\ BC!CounterNext(c) \in BC!Counter
         /\ BC!CounterOK(BC!CounterNext(c))
         /\ BC!CounterNext(c).tries <= c.tries
  <1>1. BC!CounterNext(c) \in BC!Counter /\ BC!CounterOK(BC!CounterNext(c))
    BY CounterAssumptions, BCP!NextOK
       DEF BC!Counter, BCP!Counter, BC!CounterNext, BCP!CounterNext,
           BC!CounterReset, BCP!CounterReset, BC!CounterOK, BCP!CounterOK
  <1>2. QED
    BY <1>1, TriesBounds

\* A tick that only advances the job's counter (Wait, Issue) preserves the
\* invariant.
LEMMA CounterTickOK ==
  ASSUME PollerInv, NEW j \in Jobs,
         counter' = [counter EXCEPT ![j] = BC!CounterNext(counter[j])],
         inflight' \in [Jobs -> BOOLEAN],
         UNCHANGED <<status, bstatus, answer, failStreak>>
  PROVE  PollerInv'
  <1>1. /\ BC!CounterNext(counter[j]) \in BC!Counter
        /\ BC!CounterOK(BC!CounterNext(counter[j]))
        /\ BC!CounterNext(counter[j]).tries <= counter[j].tries
    BY TickCounterOK DEF PollerInv, TypeOK
  <1>2. TypeOK'
    BY <1>1 DEF PollerInv, TypeOK
  <1>3. \A k \in Jobs : BC!CounterOK(counter'[k]) /\ counter'[k].tries <= failStreak'[k]
    BY <1>1, PollerAssumption DEF PollerInv, TypeOK, BC!Counter
  <1>4. FinishedIsJustified'
    BY DEF PollerInv, FinishedIsJustified
  <1>5. QED
    BY <1>2, <1>3, <1>4 DEF PollerInv

\* The worker's call of get_status preserves the invariant: a terminal
\* answer is the backend's state when it is taken, and stays so.
LEMMA QueryOK ==
  ASSUME PollerInv, NEW j \in Jobs, Query(j)
  PROVE  PollerInv'
  <1>1. PICK a \in {bstatus[j], QueryError} : answer' = [answer EXCEPT ![j] = a]
    BY DEF Query
  <1>2. QueryError \in Answers /\ QueryError \notin JobStatus /\ JobStatus \subseteq Answers
    BY DEF QueryError, Answers, JobStatus, StatusValue
  <1>3. TypeOK'
    BY <1>1, <1>2 DEF PollerInv, TypeOK, Query
  <1>4. \A k \in Jobs : answer'[k] \in JobStatus /\ IsFinished(answer'[k])
                       => answer'[k] = bstatus'[k]
    BY <1>1, <1>2 DEF PollerInv, TypeOK, Query
  <1>5. QED
    BY <1>3, <1>4 DEF PollerInv, Query, FinishedIsJustified

\* The backend moves only unfinished jobs, so a recorded terminal status
\* that matched the backend keeps matching it.
LEMMA BackendStepOK ==
  ASSUME PollerInv, NEW j \in Jobs, BackendStep(j)
  PROVE  PollerInv'
  <1>1. ~IsFinished(bstatus[j])
    BY DEF BackendStep, BackendMoves, IsFinished
  <1>2. \A s \in BackendMoves[bstatus[j]] : s \in JobStatus
    BY DEF BackendStep, BackendMoves, JobStatus, StatusValue
  <1>3. TypeOK'
    BY <1>2 DEF PollerInv, TypeOK, BackendStep
  <1>4. \A k \in Jobs : answer'[k] \in JobStatus /\ IsFinished(answer'[k])
                       => answer'[k] = bstatus'[k]
    BY <1>1 DEF PollerInv, TypeOK, BackendStep
  <1>6. FinishedIsJustified'
    <2> SUFFICES ASSUME NEW k \in Jobs, IsFinished(status'[k])
                 PROVE  \/ status'[k] = bstatus'[k]
                        \/ status'[k] = "ERROR" /\ failStreak'[k] >= MaxTries
      BY DEF FinishedIsJustified
    <2>1. CASE k = j
      BY <1>1, <2>1 DEF PollerInv, FinishedIsJustified, BackendStep
    <2>2. CASE k # j
      BY <2>2 DEF PollerInv, TypeOK, FinishedIsJustified, BackendStep
    <2>3. QED
      BY <2>1, <2>2
  <1>5. QED
    BY <1>3, <1>4, <1>6 DEF PollerInv, BackendStep

\* The strengthened invariant holds in every reachable state.
THEOREM PollerInvariant == Spec => []PollerInv
  <1>1. Init => PollerInv
    <2> SUFFICES ASSUME Init PROVE PollerInv
      OBVIOUS
    <2>1. "QUEUED" \in JobStatus /\ ~IsFinished("QUEUED")
      BY DEF JobStatus, StatusValue, IsFinished
    <2>2. BC!NewCounter.tries = 0
      BY DEF BC!NewCounter
    <2>3. TypeOK
      <3>1. NoAnswer \in Answers
        BY DEF NoAnswer, Answers
      <3>2. QED
        BY <2>1, <3>1, NewCounterIsOK, PollerAssumption DEF Init, TypeOK
    <2>4. \A j \in Jobs : BC!CounterOK(counter[j]) /\ counter[j].tries <= failStreak[j]
      BY <2>2, NewCounterIsOK DEF Init
    <2>5. FinishedIsJustified
      BY <2>1 DEF Init, FinishedIsJustified
    <2>6. NoAnswer \in Answers /\ NoAnswer \notin JobStatus
      BY DEF NoAnswer, Answers, JobStatus, StatusValue
    <2>7. QED
      BY <2>3, <2>4, <2>5, <2>6 DEF Init, PollerInv
  <1>2. PollerInv /\ [Next]_vars => PollerInv'
    <2> SUFFICES ASSUME PollerInv, [Next]_vars PROVE PollerInv'
      OBVIOUS
    <2>1. ASSUME NEW j \in Jobs, BackendStep(j) PROVE PollerInv'
      BY <2>1, BackendStepOK
    <2>2. ASSUME NEW j \in Jobs, Wait(j) PROVE PollerInv'
      BY <2>2, CounterTickOK DEF Wait, PollerInv, TypeOK
    <2>3. ASSUME NEW j \in Jobs, Poll(j) PROVE PollerInv'
      <3> DEFINE c == BC!CounterNext(counter[j])
      <3>1. c \in BC!Counter /\ BC!CounterOK(c) /\ c.tries <= failStreak[j]
        BY TickCounterOK DEF PollerInv, TypeOK, BC!Counter
      <3>2. bstatus[j] \in JobStatus
        BY DEF PollerInv, TypeOK
      <3>3. QED
        BY <2>3, <3>1, <3>2, SucceededOK, FailedOK DEF Poll, PollerInv, TypeOK
    <2>4. ASSUME NEW j \in Jobs, Issue(j) PROVE PollerInv'
      BY <2>4, CounterTickOK DEF Issue, PollerInv, TypeOK
    <2>5. ASSUME NEW j \in Jobs, Deliver(j) PROVE PollerInv'
      <3>1. counter[j] \in BC!Counter /\ BC!CounterOK(counter[j])
            /\ counter[j].tries <= failStreak[j]
        BY DEF PollerInv, TypeOK
      <3>2. inflight' \in [Jobs -> BOOLEAN]
            /\ answer' \in {answer, [answer EXCEPT ![j] = NoAnswer]}
            /\ bstatus' = bstatus
        BY <2>5 DEF Deliver, PollerInv, TypeOK
      <3>3. CASE answer[j] = QueryError
        BY <2>5, <3>1, <3>2, <3>3, FailedOK DEF Deliver
      <3>4. CASE answer[j] # QueryError
        <4>1. answer[j] \in JobStatus
          BY <2>5, <3>4 DEF Deliver, PollerInv, TypeOK, Answers
        <4>2. IsFinished(answer[j]) => answer[j] = bstatus[j]
          BY <4>1 DEF PollerInv
        <4>3. QuerySucceeded(j, counter[j], answer[j])
          BY <2>5, <3>4 DEF Deliver
        <4>4. QED
          BY <3>1, <3>2, <4>1, <4>2, <4>3, SucceededOK
      <3>5. QED
        BY <3>3, <3>4
    <2>8. ASSUME NEW j \in Jobs, Query(j) PROVE PollerInv'
      BY <2>8, QueryOK
    <2>6. CASE UNCHANGED vars
      BY <2>6 DEF vars, PollerInv, TypeOK, FinishedIsJustified
    <2>7. QED
      BY <2>1, <2>2, <2>3, <2>4, <2>5, <2>6, <2>8 DEF Next, Tick
  <1>3. QED
    BY <1>1, <1>2, PTL DEF Spec

\* A job is recorded finished only with the backend's own terminal state
\* or as ERROR after MaxTries failed queries in a row, in both query modes.
THEOREM FinishedJustified == Spec => []FinishedIsJustified
  BY PollerInvariant, PTL DEF PollerInv

\* Every variable of the poller keeps its type: statuses are JobStatus
\* members, counters are counters of the code's shape, and a held answer is
\* a status, the query error or nothing, in both query modes.
THEOREM PollerTypeCorrect == Spec => []TypeOK
  BY PollerInvariant, PTL DEF PollerInv
-----------------------------------------------------------------------------
(***************************************************************************)
(* With blocking queries every tick's next() runs on a counter whose      *)
(* countdown is not drained, because a tick that drains it queries at     *)
(* once, and the answer replaces the counter.  next() then never takes    *)
(* the StopIteration path that resets the try count, and the try count   *)
(* follows the failed queries in a row exactly.                           *)
(***************************************************************************)
SyncInv ==
    \A j \in Jobs :
        /\ ~inflight[j]
        /\ counter[j].tries = failStreak[j]
        /\ counter[j].gen = "countdown" => counter[j].remaining > 0

\* next() on a counter whose countdown is not drained keeps the try count,
\* and a countdown it leaves has as many values left as it yields now.
LEMMA NextInSync ==
  ASSUME NEW c \in BC!Counter, c.gen = "countdown" => c.remaining > 0
  PROVE  /\ BC!CounterNext(c).tries = c.tries
         /\ BC!CounterNext(c).gen = "countdown" =>
               BC!CounterNext(c).remaining = BC!CounterNext(c).current
  BY DEF BC!CounterNext, BC!Counter

\* failure() raises the try count the way the streak of failures grows,
\* and starts a countdown with values left.
LEMMA FailureInSync ==
  ASSUME NEW c \in BC!Counter
  PROVE  /\ BC!CounterFailure(c).tries =
               IF c.tries + 1 < MaxTries THEN c.tries + 1 ELSE MaxTries
         /\ BC!CounterFailure(c).gen = "countdown"
         /\ BC!CounterFailure(c).remaining > 0
  <1> DEFINE t == IF c.tries + 1 < MaxTries THEN c.tries + 1 ELSE MaxTries
  <1>1. t \in 0..MaxTries
    BY PollerAssumption DEF BC!Counter
  <1>2. 2^t \in Nat \ {0}
    BY <1>1, PollerAssumption
  <1>3. QED
    BY <1>2 DEF BC!CounterFailure

\* A blocking query's answer, handled with the counter c of the tick,
\* keeps the try count equal to the failures in a row.
LEMMA PollInSync ==
  ASSUME PollerInv, SyncInv, NEW j \in Jobs, Poll(j)
  PROVE  SyncInv'
  <1> DEFINE c == BC!CounterNext(counter[j])
  <1>1. counter[j] \in BC!Counter
    BY DEF PollerInv, TypeOK
  <1>2. c.tries = failStreak[j]
    BY <1>1, NextInSync DEF SyncInv
  <1>3. c \in BC!Counter
    BY <1>1, TickCounterOK DEF PollerInv
  <1>4. CASE QuerySucceeded(j, c, bstatus[j])
    <2>1. BC!CounterReset(c).tries = 0 /\ BC!CounterReset(c).gen = "repeat0"
      BY DEF BC!CounterReset
    <2>2. QED
      BY <1>4, <2>1 DEF Poll, QuerySucceeded, SyncInv, PollerInv, TypeOK
  <1>5. CASE QueryFailed(j, c)
    <2>1. counter'[j] = BC!CounterFailure(c)
      BY <1>5 DEF QueryFailed, PollerInv, TypeOK
    <2>2. counter'[j].tries = failStreak'[j]
      BY <1>2, <1>3, <1>5, <2>1, FailureInSync DEF QueryFailed, PollerInv, TypeOK
    <2>3. counter'[j].gen = "countdown" => counter'[j].remaining > 0
      BY <1>3, <2>1, FailureInSync
    <2>4. QED
      BY <1>5, <2>2, <2>3 DEF Poll, QueryFailed, SyncInv, PollerInv, TypeOK
  <1>6. QED
    BY <1>4, <1>5 DEF Poll

\* A tick that only waits keeps a countdown with values left.
LEMMA WaitInSync ==
  ASSUME PollerInv, SyncInv, NEW j \in Jobs, Wait(j)
  PROVE  SyncInv'
  <1> DEFINE c == BC!CounterNext(counter[j])
  <1>1. counter[j] \in BC!Counter
    BY DEF PollerInv, TypeOK
  <1>2. c.tries = counter[j].tries
        /\ (c.gen = "countdown" => c.remaining = c.current)
    BY <1>1, NextInSync DEF SyncInv
  <1>3. c.current > 0
    BY DEF Wait, SyncInv
  <1>4. QED
    BY <1>2, <1>3 DEF Wait, SyncInv, PollerInv, TypeOK

\* With blocking queries the try count of every job's counter is the
\* number of failed queries in a row.
THEOREM TriesCounted == ~Async => (Spec => []TriesCountFailures)
  <1> SUFFICES ASSUME ~Async PROVE Spec => []TriesCountFailures
    OBVIOUS
  <1>1. Init => SyncInv
    BY DEF Init, SyncInv, BC!NewCounter
  <1>2. PollerInv /\ SyncInv /\ [Next]_vars => SyncInv'
    <2> SUFFICES ASSUME PollerInv, SyncInv, [Next]_vars PROVE SyncInv'
      OBVIOUS
    <2>1. ASSUME NEW j \in Jobs, BackendStep(j) PROVE SyncInv'
      BY <2>1 DEF BackendStep, SyncInv
    <2>2. ASSUME NEW j \in Jobs, Wait(j) PROVE SyncInv'
      BY <2>2, WaitInSync
    <2>3. ASSUME NEW j \in Jobs, Poll(j) PROVE SyncInv'
      BY <2>3, PollInSync
    <2>4. ASSUME NEW j \in Jobs, Issue(j) PROVE SyncInv'
      BY <2>4 DEF Issue
    <2>5. ASSUME NEW j \in Jobs, Deliver(j) PROVE SyncInv'
      BY <2>5 DEF Deliver, SyncInv
    <2>8. ASSUME NEW j \in Jobs, Query(j) PROVE SyncInv'
      BY <2>8 DEF Query, SyncInv
    <2>6. CASE UNCHANGED vars
      BY <2>6 DEF vars, SyncInv
    <2>7. QED
      BY <2>1, <2>2, <2>3, <2>4, <2>5, <2>6, <2>8 DEF Next, Tick
  <1>3. SyncInv => TriesCountFailures
    BY DEF SyncInv, TriesCountFailures
  <1>4. QED
    BY <1>1, <1>2, <1>3, PollerInvariant, PTL DEF Spec
-----------------------------------------------------------------------------
(***************************************************************************)
(* Refinement of the tracker's promise.  The mapping is the identity on   *)
(* status and bstatus.  A delivered answer may be stale, so the proof     *)
(* needs to know where a held answer lies: between the recorded status   *)
(* and the backend's state in the lifecycle.  It also needs that a job   *)
(* with a query out is unfinished, so that a late answer is always       *)
(* applied to a job the tracker is still allowed to change.              *)
(***************************************************************************)
Stage(s) == Tracker!Stage(s)

TrackInv ==
    \A j \in Jobs :
        /\ answer[j] # NoAnswer => inflight[j]
        /\ inflight[j] => ~IsFinished(status[j])
        /\ ~IsFinished(status[j]) => Stage(status[j]) <= Stage(bstatus[j])
        /\ answer[j] \in JobStatus =>
               Stage(status[j]) <= Stage(answer[j]) /\ Stage(answer[j]) <= Stage(bstatus[j])

\* The backend only moves a job forward in the lifecycle.
LEMMA MovesForward ==
  \A s \in DOMAIN BackendMoves : \A t \in BackendMoves[s] :
      t \in JobStatus /\ Stage(t) > Stage(s)
  BY DEF BackendMoves, Stage, Tracker!Stage, JobStatus, StatusValue

\* Every stage is a natural number.
LEMMA StageNat == \A s : Stage(s) \in Nat
  BY DEF Stage, Tracker!Stage

\* A failed query, handled by a tick or a delivery that leaves job j with
\* no query out, keeps the recorded status or makes it ERROR.
LEMMA FailedTrack ==
  ASSUME PollerInv, TrackInv, NEW j \in Jobs, NEW c, QueryFailed(j, c),
         bstatus' = bstatus,
         inflight' = [inflight EXCEPT ![j] = FALSE],
         answer' = [answer EXCEPT ![j] = NoAnswer]
  PROVE  TrackInv'
  <1>1. status' = [status EXCEPT ![j] = "ERROR"] \/ status' = status
    BY DEF QueryFailed
  <1>2. IsFinished("ERROR") /\ NoAnswer \notin JobStatus
    BY DEF IsFinished, NoAnswer, JobStatus, StatusValue
  <1> SUFFICES ASSUME NEW k \in Jobs
               PROVE  /\ answer'[k] # NoAnswer => inflight'[k]
                      /\ inflight'[k] => ~IsFinished(status'[k])
                      /\ ~IsFinished(status'[k]) => Stage(status'[k]) <= Stage(bstatus'[k])
                      /\ answer'[k] \in JobStatus =>
                             /\ Stage(status'[k]) <= Stage(answer'[k])
                             /\ Stage(answer'[k]) <= Stage(bstatus'[k])
    BY DEF TrackInv
  <1>3. CASE k = j
    <2>1. answer'[k] = NoAnswer /\ inflight'[k] = FALSE
      BY <1>3 DEF PollerInv, TypeOK
    <2>2. status'[k] = "ERROR" \/ status'[k] = status[k]
      BY <1>1, <1>3 DEF PollerInv, TypeOK
    <2>3. QED
      BY <1>2, <2>1, <2>2 DEF TrackInv
  <1>4. CASE k # j
    <2>1. answer'[k] = answer[k] /\ inflight'[k] = inflight[k] /\ status'[k] = status[k]
      BY <1>1, <1>4 DEF PollerInv, TypeOK
    <2>2. QED
      BY <2>1 DEF TrackInv
  <1>5. QED
    BY <1>3, <1>4

LEMMA TrackInvStep ==
  ASSUME PollerInv, TrackInv, [Next]_vars
  PROVE  TrackInv'
  <1>1. NoAnswer \notin JobStatus /\ QueryError \notin JobStatus
    BY DEF NoAnswer, QueryError, JobStatus, StatusValue
  <1>2. ASSUME NEW j \in Jobs, BackendStep(j) PROVE TrackInv'
    <2>1. PICK t \in BackendMoves[bstatus[j]] : bstatus' = [bstatus EXCEPT ![j] = t]
      BY <1>2 DEF BackendStep
    <2>2. Stage(t) > Stage(bstatus[j])
      BY <1>2, MovesForward DEF BackendStep
    <2>3. QED
      BY <1>2, <2>1, <2>2, StageNat DEF BackendStep, TrackInv, PollerInv, TypeOK
  <1>3. ASSUME NEW j \in Jobs, Wait(j) PROVE TrackInv'
    BY <1>3 DEF Wait, TrackInv
  <1>4. ASSUME NEW j \in Jobs, Issue(j) PROVE TrackInv'
    BY <1>4 DEF Issue, Tracked, TrackInv, PollerInv, TypeOK
  <1>5. ASSUME NEW j \in Jobs, Query(j) PROVE TrackInv'
    <2>1. PICK a \in {bstatus[j], QueryError} : answer' = [answer EXCEPT ![j] = a]
      BY <1>5 DEF Query
    <2>2. QED
      BY <1>1, <1>5, <2>1, StageNat DEF Query, TrackInv, PollerInv, TypeOK
  <1>6. ASSUME NEW j \in Jobs, Poll(j) PROVE TrackInv'
    <2> DEFINE c == BC!CounterNext(counter[j])
    <2>1. answer[j] = NoAnswer
      BY <1>6 DEF Poll, TrackInv
    <2>2. CASE QuerySucceeded(j, c, bstatus[j])
      BY <1>6, <2>1, <2>2, <1>1, StageNat DEF Poll, QuerySucceeded, TrackInv, PollerInv, TypeOK
    <2>3. CASE QueryFailed(j, c)
      <3>1. inflight' = [inflight EXCEPT ![j] = FALSE] /\ answer' = [answer EXCEPT ![j] = NoAnswer]
        BY <1>6, <2>1 DEF Poll, PollerInv, TypeOK
      <3>2. QED
        BY <1>6, <2>3, <3>1, FailedTrack DEF Poll
    <2>4. QED
      BY <1>6, <2>2, <2>3 DEF Poll
  <1>7. ASSUME NEW j \in Jobs, Deliver(j) PROVE TrackInv'
    <2>1. CASE answer[j] = QueryError
      BY <1>7, <2>1, FailedTrack DEF Deliver
    <2>2. CASE answer[j] # QueryError
      <3>1. answer[j] \in JobStatus
        BY <1>7, <2>2 DEF Deliver, PollerInv, TypeOK, Answers
      <3>2. status' = [status EXCEPT ![j] = answer[j]]
        BY <1>7, <2>2 DEF Deliver, QuerySucceeded
      <3>3. QED
        BY <1>7, <3>1, <3>2, <1>1, StageNat DEF Deliver, TrackInv, PollerInv, TypeOK
    <2>3. QED
      BY <2>1, <2>2
  <1>8. CASE UNCHANGED vars
    BY <1>8 DEF vars, TrackInv
  <1>9. QED
    BY <1>2, <1>3, <1>4, <1>5, <1>6, <1>7, <1>8 DEF Next, Tick

\* A failed query handled for an unfinished job is the tracker giving up
\* on it, or changes nothing the tracker sees.
LEMMA FailedMaps ==
  ASSUME NEW j \in Jobs, NEW c, ~IsFinished(status[j]), QueryFailed(j, c),
         bstatus' = bstatus
  PROVE  [Tracker!Next]_Tracker!vars
  <1>1. CASE BC!GiveUp(BC!CounterFailure(c))
    <2>1. Tracker!Abandon(j)
      BY <1>1 DEF QueryFailed, Tracker!Abandon, Tracker!IsFinished, IsFinished
    <2>2. QED
      BY <2>1 DEF Tracker!Next
  <1>2. CASE ~BC!GiveUp(BC!CounterFailure(c))
    BY <1>2 DEF QueryFailed, Tracker!vars
  <1>3. QED
    BY <1>1, <1>2

\* A successful answer s for an unfinished job, lying between the
\* recorded status and the backend's state, is the tracker's Observe.
LEMMA SucceededMaps ==
  ASSUME NEW j \in Jobs, NEW c, NEW s \in JobStatus, ~IsFinished(status[j]),
         Stage(status[j]) <= Stage(s), Stage(s) <= Stage(bstatus[j]),
         IsFinished(s) => s = bstatus[j],
         QuerySucceeded(j, c, s), bstatus' = bstatus
  PROVE  [Tracker!Next]_Tracker!vars
  <1>1. status' = [status EXCEPT ![j] = s] /\ UNCHANGED bstatus
    BY DEF QuerySucceeded
  <1>2. s \in Tracker!JobStatus
    BY DEF Tracker!JobStatus, JobStatus, Tracker!StatusValue, StatusValue
  <1>3. ~Tracker!IsFinished(status[j]) /\ (Tracker!IsFinished(s) => s = bstatus[j])
    BY DEF Tracker!IsFinished, IsFinished
  <1>4. Tracker!Stage(status[j]) <= Tracker!Stage(s)
        /\ Tracker!Stage(s) <= Tracker!Stage(bstatus[j])
    BY DEF Stage
  <1>5. Tracker!Observe(j)
    BY <1>1, <1>2, <1>3, <1>4 DEF Tracker!Observe
  <1>6. QED
    BY <1>5 DEF Tracker!Next

\* Every step of the poller is a step of the tracker or leaves the
\* recorded and the backend's statuses alone.
LEMMA TrackerStep ==
  ASSUME PollerInv, TrackInv, [Next]_vars
  PROVE  [Tracker!Next]_Tracker!vars
  <1>1. ASSUME NEW j \in Jobs, BackendStep(j) PROVE [Tracker!Next]_Tracker!vars
    <2>1. PICK t \in BackendMoves[bstatus[j]] : bstatus' = [bstatus EXCEPT ![j] = t]
      BY <1>1 DEF BackendStep
    <2>2. ~IsFinished(bstatus[j])
      BY <1>1 DEF BackendStep, BackendMoves, IsFinished
    <2>3. t \in JobStatus /\ Stage(t) > Stage(bstatus[j])
      BY <1>1, MovesForward DEF BackendStep
    <2>4. Tracker!Move(j)
      <3>1. ~Tracker!IsFinished(bstatus[j])
        BY <2>2 DEF Tracker!IsFinished, IsFinished
      <3>2. t \in Tracker!JobStatus /\ Tracker!Stage(t) > Tracker!Stage(bstatus[j])
        BY <2>3 DEF Stage, Tracker!JobStatus, JobStatus, Tracker!StatusValue, StatusValue
      <3>3. UNCHANGED status
        BY <1>1 DEF BackendStep
      <3>4. QED
        BY <2>1, <3>1, <3>2, <3>3 DEF Tracker!Move
    <2>5. QED
      BY <2>4 DEF Tracker!Next
  <1>2. ASSUME NEW j \in Jobs, Wait(j) \/ Issue(j) \/ Query(j)
        PROVE  [Tracker!Next]_Tracker!vars
    BY <1>2 DEF Wait, Issue, Query, Tracker!vars
  <1>3. ASSUME NEW j \in Jobs, Poll(j) PROVE [Tracker!Next]_Tracker!vars
    <2> DEFINE c == BC!CounterNext(counter[j])
    <2>1. ~IsFinished(status[j]) /\ bstatus' = bstatus
      BY <1>3 DEF Poll, Tracked
    <2>2. CASE QuerySucceeded(j, c, bstatus[j])
      <3>1. bstatus[j] \in JobStatus /\ Stage(status[j]) <= Stage(bstatus[j])
        BY <2>1 DEF PollerInv, TypeOK, TrackInv
      <3>2. QED
        BY <2>1, <2>2, <3>1, StageNat, SucceededMaps
    <2>3. CASE QueryFailed(j, c)
      BY <2>1, <2>3, FailedMaps
    <2>4. QED
      BY <1>3, <2>2, <2>3 DEF Poll
  <1>4. ASSUME NEW j \in Jobs, Deliver(j) PROVE [Tracker!Next]_Tracker!vars
    <2>1. ~IsFinished(status[j]) /\ bstatus' = bstatus
      BY <1>4 DEF Deliver, TrackInv
    <2>2. CASE answer[j] = QueryError
      BY <1>4, <2>1, <2>2, FailedMaps DEF Deliver
    <2>3. CASE answer[j] # QueryError
      <3>1. answer[j] \in JobStatus
        BY <1>4, <2>3 DEF Deliver, PollerInv, TypeOK, Answers
      <3>2. Stage(status[j]) <= Stage(answer[j]) /\ Stage(answer[j]) <= Stage(bstatus[j])
            /\ (IsFinished(answer[j]) => answer[j] = bstatus[j])
        BY <3>1 DEF TrackInv, PollerInv
      <3>3. QuerySucceeded(j, counter[j], answer[j])
        BY <1>4, <2>3 DEF Deliver
      <3>4. QED
        BY <2>1, <3>1, <3>2, <3>3, SucceededMaps
    <2>4. QED
      BY <2>2, <2>3
  <1>5. CASE UNCHANGED vars
    BY <1>5 DEF vars, Tracker!vars
  <1>6. QED
    BY <1>1, <1>2, <1>3, <1>4, <1>5 DEF Next, Tick

\* The poller implements the tracker's promise: in both query modes, for
\* every set of jobs and every max_tries, a recorded status only follows
\* the backend forward, possibly late, or becomes ERROR, and never
\* changes once finished.
THEOREM Refinement == Spec => TrackerSpec
  <1>1. Init => TrackInv
    <2> SUFFICES ASSUME Init PROVE TrackInv
      OBVIOUS
    <2>1. NoAnswer \notin JobStatus /\ Stage("QUEUED") \in Nat
      BY StageNat DEF NoAnswer, JobStatus, StatusValue
    <2>2. QED
      BY <2>1 DEF Init, TrackInv
  <1>2. Init => Tracker!Init
    BY DEF Init, Tracker!Init
  <1>3. PollerInv /\ TrackInv /\ [Next]_vars => TrackInv'
    BY TrackInvStep
  <1>4. PollerInv /\ TrackInv /\ [Next]_vars => [Tracker!Next]_Tracker!vars
    BY TrackerStep
  <1>5. QED
    BY <1>1, <1>2, <1>3, <1>4, PollerInvariant, PTL DEF Spec, TrackerSpec, Tracker!Spec
====
