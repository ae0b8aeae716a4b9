---------------------------- MODULE ScanPipeline ----------------------------
(***************************************************************************)
(* One scan from its submission to its closing: the master's request       *)
(* handler and maintenance loop (master/api.py), the workers' consume      *)
(* loops and task handlers (worker/main.py), the reclaim loops of both     *)
(* (common/redis_client.py), and the crashes and errors between any two    *)
(* awaits of theirs.                                                       *)
(*                                                                         *)
(* An action is the code between two awaits that touch the database or the *)
(* stream.  What a process keeps in local variables across an await (the   *)
(* row ids of a dispatch batch, the counts of a finalization, the entry of *)
(* a delivery) is state of that process, and may be stale when used.       *)
(***************************************************************************)
EXTENDS TaskQueue, TaskStore, FiniteSets

CONSTANTS
    Plan,          \* plan_tasks' list; a key planned twice occurs twice
    Worker,        \* worker processes
    Master,        \* the master process
    Handler,       \* coroutines running _handle, or waiting to
    WorkerOf,      \* the worker a handler belongs to
    Concurrency,   \* WORKER_CONCURRENCY
    Capable,       \* the steps whose tool a worker's allowlist has
    Deniable,      \* tasks whose target may have left the scope since submit
    BadParams,     \* tasks whose params the tool's build_argv rejects
    Consumes,      \* types a step's tool needs in its input file; {}: no file
    Yields,        \* types a step's tool may report
    MaxAttempts,   \* max_attempts of the workflow
    MaxFailures,   \* bound: tool runs that fail
    MaxCrashes,    \* bound: crashes and errors
    MaxEarly,      \* bound: entries reclaimed while someone works on them
    MaxEntries     \* bound: stream length up to which entries are reclaimed

Reclaimer == Worker \cup {Master}

ASSUME PipelineAssumption ==
    /\ Plan \in Seq(Task)
    /\ Master \notin Worker
    /\ WorkerOf \in [Handler -> Worker]
    /\ Concurrency \in Nat \ {0}
    /\ Capable \in [Worker -> SUBSET Step]
    /\ Deniable \subseteq Task
    /\ BadParams \subseteq Task
    /\ Consumes \in [Step -> SUBSET FindingType]
    /\ Yields \in [Step -> SUBSET FindingType]
    /\ MaxAttempts \in Nat \ {0}
    /\ {MaxFailures, MaxCrashes, MaxEarly, MaxEntries} \subseteq Nat

VARIABLES
    scan,      \* scans.status, "none" before the INSERT
    req,       \* submit_scan: where it is, and its index in Plan
    loop,      \* the maintenance loop: where it is, and its locals
    moving,    \* per reclaimer: the entry XAUTOCLAIMed, and whether re-added
    pc,        \* per handler: the await it is at
    entry,     \* per handler: the stream entry it was given, or 0
    failures, crashes, early   \* how much of the bounds was used

procVars == <<req, loop, moving, pc, entry>>
faultVars == <<failures, crashes, early>>
vars == <<queueVars, storeVars, scan, procVars, faultVars>>

NoMove == [entry |-> 0, added |-> FALSE]
LoopIdle == [at |-> "idle", todo |-> {}, sent |-> {}, verdict |-> "none"]

HandlerPc == {"idle", "waiting", "claimed", "run", "succeed", "backoff",
              "abort", "ack"}

ProcTypeOK ==
    /\ scan \in {"none", "pending", "running", "completed", "failed"}
    /\ req \in [at : {"submit", "insert", "enqueue", "mark", "done", "lost"},
                i : 1..Len(Plan) + 1]
    /\ loop \in [at : {"idle", "enqueue", "count", "close"},
                 todo : SUBSET Task, sent : SUBSET Task,
                 verdict : {"none", "completed", "failed"}]
    /\ moving \in [Reclaimer -> [entry : Nat, added : BOOLEAN]]
    /\ pc \in [Handler -> HandlerPc]
    /\ entry \in [Handler -> Nat]
    /\ failures \in Nat /\ crashes \in Nat /\ early \in Nat

TypeOK == QueueTypeOK /\ StoreTypeOK /\ ProcTypeOK

Init ==
    /\ QueueInit
    /\ StoreInit
    /\ scan = "none"
    /\ req = [at |-> "submit", i |-> 1]
    /\ loop = LoopIdle
    /\ moving = [r \in Reclaimer |-> NoMove]
    /\ pc = [h \in Handler |-> "idle"]
    /\ entry = [h \in Handler |-> 0]
    /\ failures = 0
    /\ crashes = 0
    /\ early = 0

-----------------------------------------------------------------------------
(* submit_scan                                                             *)

Planned == Plan[req.i]

InsertScan ==
    /\ req.at = "submit"
    /\ scan' = "pending"
    /\ req' = [req EXCEPT !.at = "insert"]
    /\ UNCHANGED <<queueVars, storeVars, loop, moving, pc, entry, faultVars>>

(* insert_task hands back the id of an existing row too, so a key planned  *)
(* twice goes on as if it had been inserted now.                           *)
InsertPlanned ==
    /\ req.at = "insert"
    /\ req.i <= Len(Plan)
    /\ InsertTask(Planned)
    /\ req' = IF DependsOn[StepOf[Planned]] = {}
              THEN [req EXCEPT !.at = "enqueue"]
              ELSE [req EXCEPT !.i = @ + 1]
    /\ UNCHANGED <<queueVars, scan, loop, moving, pc, entry, faultVars>>

EnqueuePlanned ==
    /\ req.at = "enqueue"
    /\ Enqueue(Planned, 1)
    /\ req' = [req EXCEPT !.at = "mark"]
    /\ UNCHANGED <<storeVars, scan, loop, moving, pc, entry, faultVars>>

MarkPlanned ==
    /\ req.at = "mark"
    /\ MarkDispatched({Planned})
    /\ req' = [at |-> "insert", i |-> req.i + 1]
    /\ UNCHANGED <<queueVars, scan, loop, moving, pc, entry, faultVars>>

StartScan ==
    /\ req.at = "insert"
    /\ req.i > Len(Plan)
    /\ scan' = "running"
    /\ req' = [req EXCEPT !.at = "done"]
    /\ UNCHANGED <<queueVars, storeVars, loop, moving, pc, entry, faultVars>>

Submit == InsertScan \/ InsertPlanned \/ EnqueuePlanned \/ MarkPlanned \/ StartScan

-----------------------------------------------------------------------------
(* The maintenance loop.  Each tick reclaims, dispatches and finalizes in  *)
(* this order; a phase with nothing to do changes nothing, and finalizing  *)
(* has nothing to do while a task is ready, so the phases are taken        *)
(* whenever the loop is idle.                                              *)

(* Variant: marks the rows before their messages are added.                *)
FetchReadyMarking ==
    /\ loop.at = "idle"
    /\ moving[Master] = NoMove
    /\ \E t \in Task : Ready(t)
    /\ loop' = [LoopIdle EXCEPT !.at = "enqueue", !.todo = {t \in Task : Ready(t)}]
    /\ MarkDispatched({t \in Task : Ready(t)})
    /\ UNCHANGED <<queueVars, scan, req, moving, pc, entry, faultVars>>

FetchReady ==
    /\ loop.at = "idle"
    /\ moving[Master] = NoMove
    /\ \E t \in Task : Ready(t)
    /\ loop' = [LoopIdle EXCEPT !.at = "enqueue", !.todo = {t \in Task : Ready(t)}]
    /\ UNCHANGED <<queueVars, storeVars, scan, req, moving, pc, entry, faultVars>>

EnqueueReady(t) ==
    /\ loop.at = "enqueue"
    /\ t \in loop.todo
    /\ Enqueue(t, 1)
    /\ loop' = [loop EXCEPT !.todo = @ \ {t}, !.sent = @ \cup {t}]
    /\ UNCHANGED <<storeVars, scan, req, moving, pc, entry, faultVars>>

MarkReady ==
    /\ loop.at = "enqueue"
    /\ loop.todo = {}
    /\ MarkDispatched(loop.sent)
    /\ loop' = LoopIdle
    /\ UNCHANGED <<queueVars, scan, req, moving, pc, entry, faultVars>>

(* Variants: the query overlooks queued tasks, or wants every task to have *)
(* succeeded.                                                              *)
SelectScanIf(done) ==
    /\ loop.at = "idle"
    /\ moving[Master] = NoMove
    /\ scan = "running"
    /\ done
    /\ loop' = [loop EXCEPT !.at = "count"]
    /\ UNCHANGED <<queueVars, storeVars, scan, req, moving, pc, entry, faultVars>>
SelectScanQueued == SelectScanIf(\A t \in Task : state[t] # "running")
SelectScanAllGood == SelectScanIf(\A t \in Task : state[t] = "succeeded")

(* _finalize_scans: the query for a scan without open tasks, then the      *)
(* counts, then the update they decide.                                    *)
SelectScan == SelectScanIf(\A t \in Task : state[t] \notin Claimable)

(* Variant: one failure fails the scan.                                    *)
CountStatesStrict ==
    /\ loop.at = "count"
    /\ LET seen == {state[t] : t \in Task} \cap Terminal
       IN  loop' = IF seen = {"succeeded"}
                   THEN [loop EXCEPT !.at = "close", !.verdict = "completed"]
                   ELSE [loop EXCEPT !.at = "close", !.verdict = "failed"]
    /\ UNCHANGED <<queueVars, storeVars, scan, req, moving, pc, entry, faultVars>>

CountStates ==
    /\ loop.at = "count"
    /\ LET seen == {state[t] : t \in Task} \cap Terminal
       IN  loop' = CASE "succeeded" \in seen ->
                            [loop EXCEPT !.at = "close", !.verdict = "completed"]
                     [] seen = {} -> LoopIdle
                     [] OTHER -> [loop EXCEPT !.at = "close", !.verdict = "failed"]
    /\ UNCHANGED <<queueVars, storeVars, scan, req, moving, pc, entry, faultVars>>

CloseScan ==
    /\ loop.at = "close"
    /\ scan' = loop.verdict
    /\ loop' = LoopIdle
    /\ UNCHANGED <<queueVars, storeVars, req, moving, pc, entry, faultVars>>

MasterLoop ==
    \/ FetchReady
    \/ \E t \in Task : EnqueueReady(t)
    \/ MarkReady
    \/ SelectScan
    \/ CountStates
    \/ CloseScan

-----------------------------------------------------------------------------
(* reclaim_stale, run by the maintenance loop and by every worker.         *)

InHands(e) ==
    \/ \E h \in Handler : entry[h] = e
    \/ \E r \in Reclaimer : moving[r].entry = e

(* Variant: acknowledges the entry before it is added again.               *)
AutoClaimAcking(r, e) ==
    /\ e \in pel
    /\ moving[r] = NoMove
    /\ r = Master => loop.at = "idle"
    /\ Len(log) < MaxEntries
    /\ moving' = [moving EXCEPT ![r] = [entry |-> e, added |-> FALSE]]
    /\ Ack(e)
    /\ UNCHANGED <<storeVars, scan, req, loop, pc, entry, failures, crashes>>

(* XAUTOCLAIM of one entry.  An entry nobody holds any more gets old       *)
(* enough eventually; one in somebody's hands only when the work on it     *)
(* outlasts stale_requeue_secs.                                            *)
AutoClaim(r, e) ==
    /\ e \in pel
    /\ moving[r] = NoMove
    /\ r = Master => loop.at = "idle"
    /\ Len(log) < MaxEntries
    /\ moving' = [moving EXCEPT ![r] = [entry |-> e, added |-> FALSE]]
    /\ UNCHANGED <<queueVars, storeVars, scan, req, loop, pc, entry,
                   failures, crashes>>

ClaimAbandoned(r, e) ==
    /\ ~InHands(e)
    /\ AutoClaim(r, e)
    /\ UNCHANGED early

ClaimEarly(r, e) ==
    /\ InHands(e)
    /\ early < MaxEarly
    /\ AutoClaim(r, e)
    /\ early' = early + 1

ReAdd(r) ==
    LET e == moving[r].entry
    IN  /\ e # 0
        /\ ~moving[r].added
        /\ Enqueue(log[e].task, log[e].attempt + 1)
        /\ moving' = [moving EXCEPT ![r].added = TRUE]
        /\ UNCHANGED <<storeVars, scan, req, loop, pc, entry, faultVars>>

AckMoved(r) ==
    /\ moving[r].added
    /\ Ack(moving[r].entry)
    /\ moving' = [moving EXCEPT ![r] = NoMove]
    /\ UNCHANGED <<storeVars, scan, req, loop, pc, entry, faultVars>>

Reclaim(r) ==
    \/ \E e \in pel : ClaimAbandoned(r, e)
    \/ ReAdd(r)
    \/ AckMoved(r)

-----------------------------------------------------------------------------
(* A worker's consume loop and its task handlers.                          *)

Msg(h) == log[entry[h]]
StepAt(h) == StepOf[Msg(h).task]

(* Handlers past the semaphore.                                            *)
Active(w) == {h \in Handler : WorkerOf[h] = w /\ pc[h] \notin {"idle", "waiting"}}

(* A handler moves on by itself; when it ends, its locals are gone.        *)
Goto(h, at) ==
    /\ pc' = [pc EXCEPT ![h] = at]
    /\ entry' = IF at = "idle" THEN [entry EXCEPT ![h] = 0] ELSE entry
    /\ UNCHANGED <<scan, req, loop, moving>>

(* The consume loop takes one message at a time and waits for a slot with  *)
(* the message already on the pending list.                                *)
Read(h) ==
    /\ pc[h] = "idle"
    /\ \A g \in Handler : WorkerOf[g] = WorkerOf[h] => pc[g] # "waiting"
    /\ Consume(delivered + 1)
    /\ pc' = [pc EXCEPT ![h] = "waiting"]
    /\ entry' = [entry EXCEPT ![h] = delivered + 1]
    /\ UNCHANGED <<storeVars, scan, req, loop, moving, faultVars>>

Claim(h) ==
    /\ pc[h] = "waiting"
    /\ Cardinality(Active(WorkerOf[h])) < Concurrency
    /\ ClaimTask(Msg(h).task)
    /\ Goto(h, "claimed")
    /\ UNCHANGED <<queueVars, faultVars>>

(* Variant: only queued rows are claimed, so a running one counts as done. *)
ClaimNoneRunning(h) ==
    /\ pc[h] = "waiting"
    /\ Cardinality(Active(WorkerOf[h])) < Concurrency
    /\ state[Msg(h).task] # "queued"
    /\ Goto(h, "ack")
    /\ UNCHANGED <<queueVars, storeVars, faultVars>>

ClaimNone(h) ==
    /\ pc[h] = "waiting"
    /\ Cardinality(Active(WorkerOf[h])) < Concurrency
    /\ state[Msg(h).task] \notin Claimable
    /\ Goto(h, "ack")
    /\ UNCHANGED <<queueVars, storeVars, faultVars>>

(* Gate 1: the target is out of scope by now.                              *)
DenyScope(h) ==
    /\ pc[h] = "claimed"
    /\ Msg(h).task \in Deniable
    /\ Finalize(Msg(h).task, "failed")
    /\ Goto(h, "abort")
    /\ UNCHANGED <<queueVars, faultVars>>

(* Gate 2: this worker's allowlist does not have the tool.  Unlike the     *)
(* other terminal outcomes it does not abort the dependents.               *)
RefuseTool(h) ==
    /\ pc[h] = "claimed"
    /\ StepAt(h) \notin Capable[WorkerOf[h]]
    /\ Finalize(Msg(h).task, "dead")
    /\ Goto(h, "ack")
    /\ UNCHANGED <<queueVars, faultVars>>

Permitted(h) == StepAt(h) \in Capable[WorkerOf[h]]
HasInput(h) == Consumes[StepAt(h)] = {} \/ Consumes[StepAt(h)] \cap findings # {}

(* _build_context raises outside of the try block around build_argv: the   *)
(* handler ends without an outcome and without an ack.                     *)
RaiseNoInput(h) ==
    /\ pc[h] = "claimed"
    /\ Permitted(h)
    /\ ~HasInput(h)
    /\ Goto(h, "idle")
    /\ UNCHANGED <<queueVars, storeVars, faultVars>>

(* Variant: the dependents are left alone.                                 *)
RejectParamsOnly(h) ==
    /\ pc[h] = "claimed"
    /\ Permitted(h)
    /\ HasInput(h)
    /\ Msg(h).task \in BadParams
    /\ Finalize(Msg(h).task, "dead")
    /\ Goto(h, "ack")
    /\ UNCHANGED <<queueVars, faultVars>>

RejectParams(h) ==
    /\ pc[h] = "claimed"
    /\ Permitted(h)
    /\ HasInput(h)
    /\ Msg(h).task \in BadParams
    /\ Finalize(Msg(h).task, "dead")
    /\ Goto(h, "abort")
    /\ UNCHANGED <<queueVars, faultVars>>

BuildContext(h) ==
    /\ pc[h] = "claimed"
    /\ Permitted(h)
    /\ HasInput(h)
    /\ Msg(h).task \notin BadParams
    /\ Goto(h, "run")
    /\ UNCHANGED <<queueVars, storeVars, faultVars>>

(* The executor blocks the worker's event loop, so the run and what        *)
(* follows up to the next await are one step.                              *)
RunOk(h) ==
    /\ pc[h] = "run"
    /\ \E types \in SUBSET Yields[StepAt(h)] : RecordFindings(types)
    /\ Goto(h, "succeed")
    /\ UNCHANGED <<queueVars, faultVars>>

Succeed(h) ==
    /\ pc[h] = "succeed"
    /\ Finalize(Msg(h).task, "succeeded")
    /\ Goto(h, "ack")
    /\ UNCHANGED <<queueVars, faultVars>>

RunFails(h) ==
    /\ pc[h] = "run"
    /\ failures < MaxFailures
    /\ failures' = failures + 1
    /\ UNCHANGED <<queueVars, crashes, early>>

RetryAt(h, next) ==
    /\ RunFails(h)
    /\ Msg(h).attempt < MaxAttempts
    /\ RequeueTask(Msg(h).task)
    /\ Goto(h, next)

(* Variant: a retry that aborts the dependents as a dead letter does.      *)
RetryAborting(h) == RetryAt(h, "abort")

Retry(h) == RetryAt(h, "backoff")

DeadLetter(h) ==
    /\ RunFails(h)
    /\ Msg(h).attempt >= MaxAttempts
    /\ Finalize(Msg(h).task, "dead")
    /\ Goto(h, "abort")

(* After the delay: the next attempt is added before the old entry is      *)
(* acknowledged.                                                           *)
Resend(h) ==
    /\ pc[h] = "backoff"
    /\ Enqueue(Msg(h).task, Msg(h).attempt + 1)
    /\ Goto(h, "ack")
    /\ UNCHANGED <<storeVars, faultVars>>

Abort(h) ==
    /\ pc[h] = "abort"
    /\ AbortDependents(StepAt(h))
    /\ Goto(h, "ack")
    /\ UNCHANGED <<queueVars, faultVars>>

AckDone(h) ==
    /\ pc[h] = "ack"
    /\ Ack(entry[h])
    /\ Goto(h, "idle")
    /\ UNCHANGED <<storeVars, faultVars>>

HandlerStep(h) ==
    \/ Read(h) \/ Claim(h) \/ ClaimNone(h)
    \/ DenyScope(h) \/ RefuseTool(h) \/ RaiseNoInput(h) \/ RejectParams(h)
    \/ BuildContext(h) \/ RunOk(h) \/ Succeed(h) \/ Retry(h) \/ DeadLetter(h)
    \/ Resend(h) \/ Abort(h) \/ AckDone(h)

-----------------------------------------------------------------------------
(* Crashes, and errors of one coroutine: a statement that raises because   *)
(* the database or Redis did not answer.                                   *)

Fault ==
    /\ crashes < MaxCrashes
    /\ crashes' = crashes + 1
    /\ UNCHANGED <<queueVars, storeVars, scan, failures, early>>

(* An exception in a handler, its claim included, is caught by _process,   *)
(* which frees the slot and leaves row and entry as they are.              *)
HandlerError(h) ==
    /\ pc[h] # "idle"
    /\ pc[h] = "waiting" => Cardinality(Active(WorkerOf[h])) < Concurrency
    /\ Fault
    /\ pc' = [pc EXCEPT ![h] = "idle"]
    /\ entry' = [entry EXCEPT ![h] = 0]
    /\ UNCHANGED <<req, loop, moving>>

(* The container restarts at once under a new consumer name.               *)
WorkerCrash(w) ==
    /\ Fault
    /\ pc' = [h \in Handler |-> IF WorkerOf[h] = w THEN "idle" ELSE pc[h]]
    /\ entry' = [h \in Handler |-> IF WorkerOf[h] = w THEN 0 ELSE entry[h]]
    /\ moving' = [moving EXCEPT ![w] = NoMove]
    /\ UNCHANGED <<req, loop>>

(* A reclaim loop, and with the master's the whole tick, gives up.         *)
ReclaimError(r) ==
    /\ moving[r] # NoMove
    /\ Fault
    /\ moving' = [moving EXCEPT ![r] = NoMove]
    /\ UNCHANGED <<req, loop, pc, entry>>

LoopError ==
    /\ loop.at # "idle"
    /\ Fault
    /\ loop' = LoopIdle
    /\ UNCHANGED <<req, moving, pc, entry>>

SubmitError ==
    /\ req.at \notin {"submit", "done", "lost"}
    /\ Fault
    /\ req' = [req EXCEPT !.at = "lost"]
    /\ UNCHANGED <<loop, moving, pc, entry>>

MasterCrash ==
    /\ Fault
    /\ req' = IF req.at \in {"submit", "done"} THEN req
              ELSE [req EXCEPT !.at = "lost"]
    /\ loop' = LoopIdle
    /\ moving' = [moving EXCEPT ![Master] = NoMove]
    /\ UNCHANGED <<pc, entry>>

Faults ==
    \/ \E h \in Handler : HandlerError(h)
    \/ \E w \in Worker : WorkerCrash(w)
    \/ \E r \in Reclaimer : ReclaimError(r)
    \/ LoopError
    \/ SubmitError
    \/ MasterCrash

-----------------------------------------------------------------------------
Next ==
    \/ Submit
    \/ MasterLoop
    \/ \E r \in Reclaimer : Reclaim(r)
    \/ \E r \in Reclaimer, e \in pel : ClaimEarly(r, e)
    \/ \E h \in Handler : HandlerStep(h)
    \/ Faults

Spec == Init /\ [][Next]_vars

(* Every coroutine that can go on does: asyncio runs ready coroutines, the *)
(* loops tick for ever and a crashed container is restarted.  Nothing is   *)
(* promised of faults, early reclaims or the outcome of a tool run.        *)
Fairness ==
    /\ WF_vars(Submit)
    /\ WF_vars(MasterLoop)
    /\ \A r \in Reclaimer : WF_vars(Reclaim(r))
    /\ \A h \in Handler : WF_vars(HandlerStep(h))

FairSpec == Spec /\ Fairness

-----------------------------------------------------------------------------
(* Properties                                                              *)

(* An entry that will still lead to a claim: unread or pending, and not    *)
(* about to be acknowledged by the handler or the reclaimer holding it.    *)
Live(e) ==
    /\ Outstanding(e)
    /\ \A h \in Handler : entry[h] = e => pc[h] \notin {"abort", "ack"}
    /\ \A r \in Reclaimer : moving[r].entry = e => ~moving[r].added

(* A task that was handed to the stream and has no outcome yet always has  *)
(* a live entry: no crash between the XADD, the row updates and the XACK   *)
(* of any process loses it.  An entry reclaimed under a handler's hands    *)
(* voids the promise: the handler that lost it may put the row back to     *)
(* 'queued' after the copy was executed and acknowledged.                  *)
NoTaskLost ==
    early = 0 =>
        \A t \in Sent : state[t] \in Claimable =>
            \E e \in DOMAIN log : log[e].task = t /\ Live(e)

(* The row is marked dispatched only after a message for it exists, so a   *)
(* task is either found by the dispatcher or covered by NoTaskLost.        *)
DispatchedIsSent == dispatched \subseteq Sent

(* No message for a task exists unless every task of the steps it depends  *)
(* on has succeeded, whatever was inserted, fetched and marked in between. *)
DependenciesFirst ==
    \A t \in Sent : TasksOf(DependsOn[StepOf[t]]) \subseteq succeeded

(* A routing-gated task that waits for other steps is not sent before the  *)
(* scan has a finding of the gate's type.                                  *)
GateBeforeDispatch ==
    \A t \in Sent :
        DependsOn[StepOf[t]] # {} => WhenFinding[StepOf[t]] \subseteq findings

(* A terminal row keeps its outcome: a late or repeated delivery does not  *)
(* undo it (migration 003: the claim makes duplicate deliveries no-ops).   *)
OutcomeIsFinal ==
    [][\A t \in Task : state[t] \in Terminal => state'[t] = state[t]]_vars

(* The pipeline implements the lifecycle of tasks and scan: rows move only *)
(* along it, a task runs only once what it depends on has succeeded, and   *)
(* the scan is closed only when all of it is settled.                      *)
Lifecycle == INSTANCE ScanLifecycle WITH
    Needs <- [t \in Task |-> TasksOf(DependsOn[StepOf[t]])], status <- scan

ImplementsLifecycle == Lifecycle!Spec

(* A closed scan is settled: no task is open, and the status says whether  *)
(* any task succeeded.                                                     *)
ClosedIsSettled ==
    scan \in {"completed", "failed"} =>
        /\ \A t \in Task : state[t] \in Terminal
        /\ scan = "completed" <=> \E t \in Task : state[t] = "succeeded"

(* An aborted task was doomed: a task of a step it transitively depends    *)
(* on, or of its own step, failed, died or was refused.                    *)
AbortedHasCause ==
    \A t \in Task : state[t] = "aborted" =>
        \E d \in Task : /\ state[d] \in {"failed", "dead"}
                        /\ StepOf[t] \in Dependents(StepOf[d])

(* Every task handed to the stream gets an outcome, and in the end keeps   *)
(* one, though duplicates may reopen it for a while.                       *)
SentIsDecided == \A t \in Task : t \in Sent ~> [](state[t] \in Terminal)

(* A running scan is closed eventually.                                    *)
RunningIsClosed == scan = "running" ~> scan \in {"completed", "failed"}

(* The same, if no task was given up before the whole plan was inserted:   *)
(* abort_dependents only reaches rows that exist.                          *)
RunningIsClosedIfPlanned ==
    [](scan = "pending" => \A t \in Task : state[t] \notin {"failed", "dead"})
        => RunningIsClosed
=============================================================================
