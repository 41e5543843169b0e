----------------------------- MODULE JobTracker -----------------------------
(***************************************************************************)
(* What a status tracker promises about the statuses it records (spec    *)
(* sections 3 and 7), whatever its pacing and however it queries.  The   *)
(* backend moves a job forward through the lifecycle of spec 3.  A       *)
(* recorded status may lag behind the backend's, since an answer can be  *)
(* stale when it arrives, but it never runs ahead of it or goes back; it *)
(* is finished only with the backend's own terminal state, or ERROR when *)
(* the tracker gives up on the job; and once finished it never changes.  *)
(***************************************************************************)
EXTENDS Naturals, JobStatus

CONSTANT Jobs

VARIABLES status, bstatus

vars == <<status, bstatus>>

\* The lifecycle of spec 3: PENDING, ACCEPTED, QUEUED, RUNNING, then one
\* of the terminal states.
Stage(s) ==
    CASE s = "PENDING" -> 0 [] s = "ACCEPTED" -> 1 [] s = "QUEUED" -> 2
      [] s = "RUNNING" -> 3 [] OTHER -> 4

Init ==
    /\ status = [j \in Jobs |-> "QUEUED"]
    /\ bstatus = [j \in Jobs |-> "QUEUED"]

\* The tracker records, for an unfinished job, a state the backend has
\* reached since the last record: no earlier in the lifecycle, no later
\* than the backend now, and terminal only if it is the backend's own.
Observe(j) ==
    /\ ~IsFinished(status[j])
    /\ \E s \in JobStatus :
          /\ Stage(status[j]) <= Stage(s) /\ Stage(s) <= Stage(bstatus[j])
          /\ IsFinished(s) => s = bstatus[j]
          /\ status' = [status EXCEPT ![j] = s]
    /\ UNCHANGED bstatus

\* The tracker gives up on an unfinished job and records ERROR.
Abandon(j) ==
    /\ ~IsFinished(status[j])
    /\ status' = [status EXCEPT ![j] = "ERROR"]
    /\ UNCHANGED bstatus

\* The backend moves a job it has not finished forward.
Move(j) ==
    /\ ~IsFinished(bstatus[j])
    /\ \E s \in JobStatus :
          /\ Stage(s) > Stage(bstatus[j])
          /\ bstatus' = [bstatus EXCEPT ![j] = s]
    /\ UNCHANGED status

Next == \E j \in Jobs : Observe(j) \/ Abandon(j) \/ Move(j)

Spec == Init /\ [][Next]_vars
=============================================================================
