----------------------------- MODULE JobPoller -----------------------------
(***************************************************************************)
(* The poller that tracks submitted jobs (spec sections 2, 5, 6 and 7):    *)
(* it owns one BackoffCounter per job, calls next() on it every tick,      *)
(* queries the backend's get_status when the delay is 0, calls reset() on *)
(* a successful answer and failure() on a transient error, and records    *)
(* ERROR once give_up holds.  The poller is the persistence collaborator  *)
(* of the spec, not code of src/; the counter and the status              *)
(* classification it uses are slivka.utils.                              *)
(*                                                                         *)
(* Async = FALSE: get_status is a blocking call, its answer is handled in *)
(* the tick that issued it.  Async = TRUE: the query is offloaded to a    *)
(* worker and its answer delivered to the poll loop later (spec 5), while *)
(* the loop keeps ticking the job's counter.  The worker asks the backend *)
(* at some point after the query is issued, and its answer reaches the   *)
(* loop later still, so it may be stale when it is applied.              *)
(***************************************************************************)
EXTENDS Naturals, JobStatus

CONSTANTS Jobs,      \* the submitted jobs
          MaxTries,  \* max_tries of every job's BackoffCounter
          Async      \* whether status queries are answered asynchronously

ASSUME PollerAssumption ==
    /\ Jobs # {}
    /\ MaxTries \in Nat
    /\ Async \in BOOLEAN
    /\ \A t \in 0..MaxTries : 2^t \in Nat \ {0}   \* see BackoffCounter

VARIABLES
    status,      \* the recorded JobStatus of each job
    bstatus,     \* the state of each job in the execution backend
    counter,     \* each job's BackoffCounter
    inflight,    \* whether a status query of the job awaits its answer
    answer,      \* the worker's answer not yet delivered, or NoAnswer
    failStreak   \* auxiliary: failed queries since the last success,
                 \* saturated at MaxTries

vars == <<status, bstatus, counter, inflight, answer, failStreak>>

BC == INSTANCE BackoffCounter WITH bc <- counter

\* What a worker can hold for the loop: nothing yet, a transient error, or
\* the state get_status returned.
NoAnswer == "none"
QueryError == "error"
Answers == JobStatus \cup {NoAnswer, QueryError}

\* The states a backend moves a job through (local process or cluster
\* scheduler): from queued to running, then to one of the terminal states;
\* a queued or running job may be deleted.
BackendMoves ==
    [ QUEUED  |-> {"RUNNING", "DELETED"},
      RUNNING |-> {"COMPLETED", "FAILED", "INTERRUPTED", "ERROR", "DELETED"} ]
-----------------------------------------------------------------------------
Init ==
    /\ status = [j \in Jobs |-> "QUEUED"]
    /\ bstatus = [j \in Jobs |-> "QUEUED"]
    /\ counter = [j \in Jobs |-> BC!NewCounter]
    /\ inflight = [j \in Jobs |-> FALSE]
    /\ answer = [j \in Jobs |-> NoAnswer]
    /\ failStreak = [j \in Jobs |-> 0]

\* The backend advances a job.
BackendStep(j) ==
    /\ bstatus[j] \in DOMAIN BackendMoves
    /\ \E s \in BackendMoves[bstatus[j]] : bstatus' = [bstatus EXCEPT ![j] = s]
    /\ UNCHANGED <<status, counter, inflight, answer, failStreak>>

\* A successful get_status answer s with counter c (the counter after the
\* tick's next()): record the status, reset() the counter.
QuerySucceeded(j, c, s) ==
    /\ status' = [status EXCEPT ![j] = s]
    /\ counter' = [counter EXCEPT ![j] = BC!CounterReset(c)]
    /\ failStreak' = [failStreak EXCEPT ![j] = 0]

\* A transient get_status error with counter c: failure(), and ERROR is
\* recorded when give_up holds afterwards.
QueryFailed(j, c) ==
    LET c2 == BC!CounterFailure(c)
    IN  /\ counter' = [counter EXCEPT ![j] = c2]
        /\ status' = IF BC!GiveUp(c2) THEN [status EXCEPT ![j] = "ERROR"]
                                       ELSE status
        /\ failStreak' = [failStreak EXCEPT ![j] =
                             IF @ + 1 < MaxTries THEN @ + 1 ELSE MaxTries]

\* A fault of the kind a change here could introduce: the poll loop never
\* drops a job it is tracking.
TrackedForever(j) == TRUE

\* The poll loop ticks a job until its recorded status is_finished.
Tracked(j) == ~IsFinished(status[j])

\* A tick of a tracked job that does not query: the delay next() gives
\* is positive, or a query is already out.
Wait(j) ==
    /\ Tracked(j)
    /\ LET c == BC!CounterNext(counter[j])
       IN  /\ c.current > 0 \/ inflight[j]
           /\ counter' = [counter EXCEPT ![j] = c]
    /\ UNCHANGED <<status, bstatus, inflight, answer, failStreak>>

\* A tick whose next() gives 0 with no query out, blocking query.
Poll(j) ==
    /\ ~Async
    /\ Tracked(j)
    /\ ~inflight[j]
    /\ LET c == BC!CounterNext(counter[j])
       IN  /\ c.current = 0
           /\ \/ QuerySucceeded(j, c, bstatus[j])
              \/ QueryFailed(j, c)
    /\ UNCHANGED <<bstatus, inflight, answer>>

\* The same tick when the query is handed to a worker.
Issue(j) ==
    /\ Async
    /\ Tracked(j)
    /\ ~inflight[j]
    /\ LET c == BC!CounterNext(counter[j])
       IN  /\ c.current = 0
           /\ counter' = [counter EXCEPT ![j] = c]
    /\ inflight' = [inflight EXCEPT ![j] = TRUE]
    /\ UNCHANGED <<status, bstatus, answer, failStreak>>

\* The worker calls get_status: the backend's state now, or an error.
Query(j) ==
    /\ inflight[j]
    /\ answer[j] = NoAnswer
    /\ \E a \in {bstatus[j], QueryError} : answer' = [answer EXCEPT ![j] = a]
    /\ UNCHANGED <<status, bstatus, counter, inflight, failStreak>>

\* The worker's answer reaches the poll loop, which applies it to the
\* counter as it is now.
Deliver(j) ==
    /\ inflight[j]
    /\ answer[j] # NoAnswer
    /\ inflight' = [inflight EXCEPT ![j] = FALSE]
    /\ answer' = [answer EXCEPT ![j] = NoAnswer]
    /\ IF answer[j] = QueryError THEN QueryFailed(j, counter[j])
                                ELSE QuerySucceeded(j, counter[j], answer[j])
    /\ UNCHANGED bstatus

Tick(j) == Wait(j) \/ Poll(j) \/ Issue(j)

Next == \E j \in Jobs : BackendStep(j) \/ Tick(j) \/ Query(j) \/ Deliver(j)

\* The poll loop visits every job, and a worker always answers; the
\* backend is not assumed to finish any job.
Fairness == \A j \in Jobs : WF_vars(Tick(j)) /\ WF_vars(Query(j)) /\ WF_vars(Deliver(j))

Spec == Init /\ [][Next]_vars /\ Fairness
-----------------------------------------------------------------------------
TypeOK ==
    /\ status \in [Jobs -> JobStatus]
    /\ bstatus \in [Jobs -> JobStatus]
    /\ counter \in [Jobs -> BC!Counter]
    /\ inflight \in [Jobs -> BOOLEAN]
    /\ answer \in [Jobs -> Answers]
    /\ failStreak \in [Jobs -> 0..MaxTries]

\* A job is recorded finished only with the terminal state the backend
\* itself reports, or as ERROR after MaxTries consecutive failed queries
\* (spec 7: a transient query failure never silently marks a job
\* finished).  Breaking it takes a counter that gives up early or a
\* recorded status that outruns the backend.
FinishedIsJustified ==
    \A j \in Jobs : IsFinished(status[j]) =>
        \/ status[j] = bstatus[j]
        \/ status[j] = "ERROR" /\ failStreak[j] >= MaxTries

\* The counter's try count is the number of consecutive failed queries
\* (spec 3: after N consecutive failures, current = 2^N), so that the
\* delay before the next query doubles with every failure in a row.
TriesCountFailures ==
    \A j \in Jobs : counter[j].tries = failStreak[j]

\* The inductive strengthening of FinishedIsJustified: every counter is
\* well formed, its try count never exceeds the failed queries in a row
\* (a drain of the countdown may lower it, nothing raises it more), and
\* an answer a worker holds, if terminal, is still the backend's state.
PollerInv ==
    /\ TypeOK
    /\ \A j \in Jobs : BC!CounterOK(counter[j]) /\ counter[j].tries <= failStreak[j]
    /\ \A j \in Jobs : answer[j] \in JobStatus /\ IsFinished(answer[j]) => answer[j] = bstatus[j]
    /\ FinishedIsJustified

\* The poller implements the tracker's promise (JobTracker): a recorded
\* status only becomes the backend's own state or ERROR, and once finished
\* it never changes, even when an answer to a query issued earlier is
\* delivered afterwards.
Tracker == INSTANCE JobTracker
TrackerSpec == Tracker!Spec

\* Once the backend has finished a job, the poller eventually records it
\* as finished: either a query succeeds or the counter gives up.
FinishedJobEventuallyRecorded ==
    \A j \in Jobs : IsFinished(bstatus[j]) ~> IsFinished(status[j])
=============================================================================
