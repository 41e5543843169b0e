----------------------------- MODULE JobStatus -----------------------------
(***************************************************************************)
(* The job life-cycle states of slivka.utils.JobStatus (an IntEnum) and    *)
(* their classification by JobStatus.is_finished.                          *)
(***************************************************************************)

\* The eleven members of the enumeration with their integer values.
StatusValue ==
    [ PENDING |-> 1, REJECTED |-> 2, ACCEPTED |-> 3, QUEUED |-> 4,
      RUNNING |-> 5, COMPLETED |-> 6, INTERRUPTED |-> 7, DELETED |-> 8,
      FAILED |-> 9, ERROR |-> 10, UNKNOWN |-> 11 ]

JobStatus == DOMAIN StatusValue

\* is_finished: every member except the four listed in the tuple.
IsFinished(s) == s \notin {"PENDING", "ACCEPTED", "QUEUED", "RUNNING"}

=============================================================================
