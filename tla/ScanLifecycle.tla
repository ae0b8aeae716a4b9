---------------------------- MODULE ScanLifecycle ----------------------------
(***************************************************************************)
(* What a scan promises its reader: the life of each task row, as the      *)
(* state column and its comment in migration 003 have it, and of the scan  *)
(* row.  There is no queue here, no worker and no crash.  ScanPipeline     *)
(* implements it as long as no two handlers are at work on one task, and   *)
(* does not when two are.                                                  *)
(***************************************************************************)
CONSTANTS
    Task,
    Needs      \* per task: the tasks that have to succeed before it runs

VARIABLES state, status

vars == <<state, status>>

Settled == {"succeeded", "failed", "dead", "aborted"}
Move(t, from, to) ==
    /\ state[t] \in from
    /\ state' = [state EXCEPT ![t] = to]
    /\ UNCHANGED status

Init ==
    /\ state = [t \in Task |-> "absent"]
    /\ status = "none"

Submit ==
    /\ status = "none"
    /\ status' = "pending"
    /\ UNCHANGED state

Insert(t) ==
    /\ status = "pending"
    /\ Move(t, {"absent"}, "queued")

(* Tasks are inserted before the scan runs.                                *)
Start ==
    /\ status = "pending"
    /\ \A t \in Task : state[t] # "absent"
    /\ status' = "running"
    /\ UNCHANGED state

Run(t) ==
    /\ \A d \in Needs[t] : state[d] = "succeeded"
    /\ Move(t, {"queued"}, "running")

Retry(t) == Move(t, {"running"}, "queued")

Decide(t) == \E to \in {"succeeded", "failed", "dead"} : Move(t, {"running"}, to)

(* A failure takes queued tasks with it, all at once.                      *)
Abort(ts) ==
    /\ \E d \in Task : state[d] \in {"failed", "dead"}
    /\ \A t \in ts : state[t] = "queued"
    /\ state' = [t \in Task |-> IF t \in ts THEN "aborted" ELSE state[t]]
    /\ UNCHANGED status

Close ==
    /\ status = "running"
    /\ \A t \in Task : state[t] \in Settled
    /\ status' = IF \E t \in Task : state[t] = "succeeded"
                 THEN "completed" ELSE "failed"
    /\ UNCHANGED state

Next ==
    \/ Submit
    \/ Start
    \/ Close
    \/ \E t \in Task : Insert(t) \/ Run(t) \/ Retry(t) \/ Decide(t)
    \/ \E ts \in SUBSET Task : Abort(ts)

Spec == Init /\ [][Next]_vars
=============================================================================
