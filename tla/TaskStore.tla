------------------------------ MODULE TaskStore ------------------------------
(***************************************************************************)
(* The rows of one scan in PostgreSQL: its tasks and the types of the      *)
(* findings recorded for it (common/db.py and the task statements of       *)
(* worker/main.py).  Each operator is one SQL statement or transaction,    *)
(* hence atomic.                                                           *)
(***************************************************************************)
EXTENDS Tasks

VARIABLES
    state,        \* tasks.state, "absent" before the INSERT
    dispatched,   \* the tasks whose dispatched column is TRUE
    findings,     \* types of the findings recorded for the scan
    succeeded     \* history: tasks that were 'succeeded' at some time

storeVars == <<state, dispatched, findings, succeeded>>

Terminal == {"succeeded", "failed", "dead", "aborted"}
Claimable == {"queued", "running"}

StoreTypeOK ==
    /\ state \in [Task -> Terminal \cup Claimable \cup {"absent"}]
    /\ dispatched \subseteq Task
    /\ findings \subseteq FindingType
    /\ succeeded \subseteq Task

StoreInit ==
    /\ state = [t \in Task |-> "absent"]
    /\ dispatched = {}
    /\ findings = {}
    /\ succeeded = {}

Inserted == {t \in Task : state[t] # "absent"}

(* INSERT ... ON CONFLICT (idempotency_key) DO NOTHING.                    *)
InsertTask(t) ==
    /\ state' = [state EXCEPT ![t] = IF @ = "absent" THEN "queued" ELSE @]
    /\ UNCHANGED <<dispatched, findings, succeeded>>

(* Variants: a dependency only has to be over, or the gate is not asked.   *)
ReadyAfterAny(t) ==
    /\ state[t] = "queued"
    /\ t \notin dispatched
    /\ \A d \in Inserted \cap TasksOf(DependsOn[StepOf[t]]) :
          state[d] \in Terminal
    /\ WhenFinding[StepOf[t]] \subseteq findings

ReadyUngated(t) ==
    /\ state[t] = "queued"
    /\ t \notin dispatched
    /\ \A d \in Inserted \cap TasksOf(DependsOn[StepOf[t]]) :
          state[d] = "succeeded"

(* The WHERE clause of ready_tasks.  A dependency step without rows yet is *)
(* satisfied, as NOT EXISTS over no rows is.                               *)
Ready(t) ==
    /\ state[t] = "queued"
    /\ t \notin dispatched
    /\ \A d \in Inserted \cap TasksOf(DependsOn[StepOf[t]]) :
          state[d] = "succeeded"
    /\ WhenFinding[StepOf[t]] \subseteq findings

MarkDispatched(ts) ==
    /\ dispatched' = dispatched \cup ts
    /\ UNCHANGED <<state, findings, succeeded>>

(* Variant: the claim does not look at the state.                          *)
ClaimAnyRow(t) ==
    /\ state' = [state EXCEPT ![t] = "running"]
    /\ UNCHANGED <<dispatched, findings, succeeded>>

(* The worker's claim: UPDATE ... WHERE state IN ('queued','running').     *)
ClaimTask(t) ==
    /\ state[t] \in Claimable
    /\ state' = [state EXCEPT ![t] = "running"]
    /\ UNCHANGED <<dispatched, findings, succeeded>>

(* _finalize: an UPDATE by id alone, whatever the row holds by now.        *)
Finalize(t, s) ==
    /\ state' = [state EXCEPT ![t] = s]
    /\ succeeded' = IF s = "succeeded" THEN succeeded \cup {t} ELSE succeeded
    /\ UNCHANGED <<dispatched, findings>>

(* The retry's UPDATE tasks SET state='queued', also by id alone.          *)
RequeueTask(t) ==
    /\ state' = [state EXCEPT ![t] = "queued"]
    /\ UNCHANGED <<dispatched, findings, succeeded>>

(* record_findings: the types of the batch it stored; a batch whose        *)
(* transaction fails is logged and stores nothing.                         *)
RecordFindings(types) ==
    /\ findings' = findings \cup types
    /\ UNCHANGED <<state, dispatched, succeeded>>

(* The recursive CTE of abort_dependents over the inserted rows: the least *)
(* set of steps that holds the failed one and every step with an inserted  *)
(* task depending on a member.                                             *)
Dependents(failed) ==
    LET closed(bad) ==
            /\ failed \in bad
            /\ \A t \in Inserted :
                  DependsOn[StepOf[t]] \cap bad # {} => StepOf[t] \in bad
    IN  {s \in Step : \A bad \in SUBSET Step : closed(bad) => s \in bad}

AbortDependents(failed) ==
    /\ state' = [t \in Task |->
                   IF state[t] = "queued" /\ StepOf[t] \in Dependents(failed)
                   THEN "aborted" ELSE state[t]]
    /\ UNCHANGED <<dispatched, findings, succeeded>>
=============================================================================
