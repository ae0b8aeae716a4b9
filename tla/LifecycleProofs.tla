--------------------------- MODULE LifecycleProofs ---------------------------
(***************************************************************************)
(* ScanPipeline implements ScanLifecycle as long as no two handlers are at *)
(* work on one task, for every plan that names each task after those it    *)
(* depends on, every number of workers and handlers, every queue history   *)
(* and every number of crashes, errors and early reclaims.                 *)
(***************************************************************************)
EXTENDS ScanPipelineProofs

PlanIsWhole == \A t \in Task : \E i \in 1..Len(Plan) : Plan[i] = t

(* Between its claim and its outcome a handler relies on the row.          *)
AtWork(h) == pc[h] \in {"claimed", "run", "succeed"}

(* No two handlers are at work on one task.                                *)
Apart ==
    \A g, h \in Handler :
        AtWork(g) /\ AtWork(h) /\ Msg(g).task = Msg(h).task => g = h

(* A handler past its claim finds the row as it left it.                   *)
HandlerRows ==
    \A h \in Handler :
        /\ AtWork(h) => state[Msg(h).task] = "running"
        /\ pc[h] = "abort" => state[Msg(h).task] \in {"failed", "dead"}

AllSettled == \A t \in Task : state[t] \in Terminal
Verdict == IF \E t \in Task : state[t] = "succeeded" THEN "completed" ELSE "failed"

(* What the scan's status, the request and the finalizer's locals say of   *)
(* the rows.                                                               *)
ScanRows ==
    /\ req.at = "submit" => scan = "none"
    /\ req.at \in {"insert", "enqueue", "mark"} => scan = "pending"
    /\ scan \in {"running", "completed", "failed"} => Task \subseteq Inserted
    /\ loop.at \in {"count", "close"} => scan = "running" /\ AllSettled
    /\ loop.at = "close" => loop.verdict = Verdict
    /\ scan \in {"completed", "failed"} => AllSettled /\ scan = Verdict

LifeInv ==
    /\ OrderInv
    /\ HandlerRows
    /\ ScanRows
    /\ AbortedHasCause
    /\ \A t \in succeeded : state[t] = "succeeded"

-----------------------------------------------------------------------------
(* How rows move.                                                          *)

Claims(t) ==
    /\ t \in Sent /\ state[t] \in Claimable
    /\ state' = [state EXCEPT ![t] = "running"]
    /\ succeeded' = succeeded

Decides(t) ==
    /\ state[t] = "running"
    /\ \E s \in {"queued", "succeeded", "failed", "dead"} :
        /\ state' = [state EXCEPT ![t] = s]
        /\ succeeded' = IF s = "succeeded" THEN succeeded \cup {t} ELSE succeeded

Cascades(t) ==
    /\ state[t] \in {"failed", "dead"}
    /\ AbortDependents(StepOf[t])

RowStep ==
    \/ state' = state /\ succeeded' = succeeded
    \/ \E t \in Task : \/ Claims(t) \/ Decides(t) \/ Cascades(t)
                       \/ scan = "pending" /\ InsertTask(t)

(* A step of a handler moves the row of its message, or those that depend  *)
(* on it, and leaves them as the handler's next await expects.             *)
LEMMA HandlerMoves ==
    ASSUME TypeInv, HandlerRows, NEW h \in Handler, HandlerStep(h)
    PROVE  /\ RowStep
           /\ scan' = scan
           /\ AtWork(h)' => state'[Msg(h)'.task] = "running"
           /\ pc'[h] = "abort" => state'[Msg(h)'.task] \in {"failed", "dead"}
           /\ \A t \in Task : state[t] = "running" /\ state'[t] # "running" =>
                  AtWork(h) /\ t = Msg(h).task
<1>. USE DEF AtWork
<1>1. CASE Read(h)
  BY <1>1 DEF Read, storeVars, RowStep, TypeInv, TypeOK, ProcTypeOK
<1>2. CASE ~Read(h)
  <2>1. /\ pc[h] # "idle"
        /\ \E at \in HandlerPc : Goto(h, at)
        /\ UNCHANGED queueVars \/ Resend(h) \/ AckDone(h)
    BY <1>2, HandlerFrame
  <2>2. PICK t \in Task : t = Msg(h).task /\ t \in Sent
    BY <2>1, HandlerMessage DEF Msg, Sent
  <2>3. /\ state \in [Task -> Terminal \cup Claimable \cup {"absent"}]
        /\ pc \in [Handler -> HandlerPc]
    BY DEF TypeInv, TypeOK, StoreTypeOK, ProcTypeOK
  <2>4. scan' = scan
    BY <2>1 DEF Goto
  <2>5. \A at : Goto(h, at) => /\ pc'[h] = at
                               /\ at # "idle" => entry' = entry
    BY <2>3 DEF Goto
  <2>6. log' = log => \A at : Goto(h, at) /\ at # "idle" => Msg(h)' = Msg(h)
    BY <2>5 DEF Msg
  <2>7. CASE Claim(h)
    <3>1. Claims(t) /\ Msg(h)' = Msg(h) /\ pc'[h] = "claimed"
      BY <2>2, <2>5, <2>6, <2>7 DEF Claim, ClaimTask, Claims, queueVars
    <3>. QED  BY <2>2, <2>3, <2>4, <3>1 DEF RowStep, Claims
  <2>8. CASE DenyScope(h) \/ RefuseTool(h) \/ RejectParams(h) \/ Succeed(h)
             \/ Retry(h) \/ DeadLetter(h)
    <3>1. state[t] = "running"
      BY <2>2, <2>8 DEF HandlerRows, DenyScope, RefuseTool, RejectParams,
         Succeed, Retry, RetryAt, DeadLetter, RunFails
    <3>2. PICK s \in {"queued", "succeeded", "failed", "dead"} :
              /\ state' = [state EXCEPT ![t] = s]
              /\ succeeded' = IF s = "succeeded" THEN succeeded \cup {t}
                                                 ELSE succeeded
              /\ pc'[h] \notin {"claimed", "run", "succeed"}
              /\ pc'[h] = "abort" => s \in {"failed", "dead"} /\ Msg(h)' = Msg(h)
      <4>1. CASE Retry(h)
        BY <2>2, <2>5, <4>1 DEF Retry, RetryAt, RequeueTask
      <4>2. CASE Succeed(h)
        BY <2>2, <2>5, <4>2 DEF Succeed, Finalize
      <4>3. CASE RefuseTool(h)
        BY <2>2, <2>5, <4>3 DEF RefuseTool, Finalize
      <4>4. CASE DenyScope(h)
        BY <2>2, <2>5, <2>6, <4>4 DEF DenyScope, Finalize, queueVars
      <4>5. CASE RejectParams(h)
        BY <2>2, <2>5, <2>6, <4>5 DEF RejectParams, Finalize, queueVars
      <4>6. CASE DeadLetter(h)
        BY <2>2, <2>5, <2>6, <4>6 DEF DeadLetter, RunFails, Finalize, queueVars
      <4>. QED  BY <2>8, <4>1, <4>2, <4>3, <4>4, <4>5, <4>6
    <3>3. Decides(t)
      BY <3>1, <3>2 DEF Decides
    <3>4. AtWork(h)
      BY <2>8 DEF DenyScope, RefuseTool, RejectParams, Succeed, Retry, RetryAt,
         DeadLetter, RunFails
    <3>5. /\ \A u \in Task : state'[u] # state[u] => u = t
          /\ pc'[h] = "abort" => state'[Msg(h)'.task] \in {"failed", "dead"}
      BY <2>2, <2>3, <3>2
    <3>6. RowStep
      BY <3>3 DEF RowStep
    <3>. QED  BY <2>2, <2>4, <3>2, <3>4, <3>5, <3>6
  <2>9. CASE Abort(h)
    <3>1. Cascades(t)
      BY <2>2, <2>9 DEF Abort, Cascades, HandlerRows, StepAt
    <3>2. pc'[h] = "ack"
      BY <2>5, <2>9 DEF Abort
    <3>3. \A u \in Task : state[u] = "running" => state'[u] = "running"
      BY <3>1 DEF Cascades, AbortDependents
    <3>. QED  BY <2>2, <2>4, <3>1, <3>2, <3>3 DEF RowStep
  <2>10. CASE BuildContext(h) \/ RunOk(h)
    <3>1. state' = state /\ succeeded' = succeeded
      BY <2>10 DEF BuildContext, RunOk, RecordFindings, storeVars
    <3>2. /\ pc'[h] \in {"run", "succeed"} /\ Msg(h)' = Msg(h)
          /\ pc[h] \in {"claimed", "run"}
      BY <2>5, <2>6, <2>10 DEF BuildContext, RunOk, queueVars
    <3>. QED  BY <2>4, <3>1, <3>2 DEF HandlerRows, RowStep
  <2>11. CASE ClaimNone(h) \/ RaiseNoInput(h) \/ Resend(h) \/ AckDone(h)
    <3>1. state' = state /\ succeeded' = succeeded
      BY <2>11 DEF ClaimNone, RaiseNoInput, Resend, AckDone, storeVars
    <3>2. pc'[h] \in {"ack", "idle"}
      BY <2>5, <2>11 DEF ClaimNone, RaiseNoInput, Resend, AckDone
    <3>. QED  BY <2>4, <3>1, <3>2 DEF RowStep
  <2>. QED  BY <1>2, <2>7, <2>8, <2>9, <2>10, <2>11 DEF HandlerStep
<1>. QED  BY <1>1, <1>2

(* Every step moves rows so, and the scan's status only in steps of their  *)
(* own.                                                                    *)
LEMMA RowSteps ==
    ASSUME LifeInv, Next
    PROVE  /\ RowStep
           /\ \/ scan' = scan
              \/ /\ InsertScan \/ StartScan \/ CloseScan
                 /\ state' = state /\ succeeded' = succeeded
<1>0. TypeInv /\ HandlerRows /\ ScanRows
  BY DEF LifeInv, OrderInv, GateInv, DurableInv
<1>1. CASE InsertScan \/ StartScan \/ CloseScan
  BY <1>1 DEF InsertScan, StartScan, CloseScan, storeVars, RowStep
<1>2. CASE InsertPlanned
  <2>1. Planned \in Task
    BY <1>0, <1>2, PlannedType DEF InsertPlanned
  <2>2. scan = "pending" /\ scan' = scan
    BY <1>0, <1>2 DEF ScanRows, InsertPlanned
  <2>. QED  BY <1>2, <2>1, <2>2 DEF InsertPlanned, RowStep
<1>3. CASE EnqueuePlanned \/ MarkPlanned
  BY <1>3 DEF EnqueuePlanned, MarkPlanned, MarkDispatched, storeVars, RowStep
<1>4. CASE \/ FetchReady \/ MarkReady \/ SelectScan \/ CountStates
           \/ \E t \in Task : EnqueueReady(t)
  BY <1>4 DEF FetchReady, EnqueueReady, MarkReady, SelectScan, SelectScanIf,
     CountStates, MarkDispatched, storeVars, RowStep
<1>5. CASE \/ \E r \in Reclaimer : Reclaim(r)
           \/ \E r \in Reclaimer, e \in pel : ClaimEarly(r, e)
  BY <1>5 DEF Reclaim, ClaimAbandoned, ClaimEarly, AutoClaim, ReAdd, AckMoved,
     storeVars, RowStep
<1>6. CASE \E h \in Handler : HandlerStep(h)
  BY <1>0, <1>6, HandlerMoves
<1>7. CASE Faults
  BY <1>7 DEF Faults, HandlerError, WorkerCrash, ReclaimError, LoopError,
     SubmitError, MasterCrash, Fault, storeVars, RowStep
<1>. QED  BY <1>1, <1>2, <1>3, <1>4, <1>5, <1>6, <1>7
          DEF Next, Submit, MasterLoop

(* A row that has an outcome keeps it, and what ends well is recorded.     *)
LEMMA RowsKept ==
    ASSUME StoreTypeOK, RowStep
    PROVE  /\ \A t \in Task : state[t] \in Terminal => state'[t] = state[t]
           /\ \A t \in Task : state[t] # "absent" => state'[t] # "absent"
           /\ \A t \in succeeded' \ succeeded :
                  t \in Task /\ state'[t] = "succeeded"
           /\ \A t \in Task : state'[t] = "aborted" =>
                  \/ state[t] = "aborted"
                  \/ \E u \in Task : Cascades(u) /\ StepOf[t] \in
                                                   Dependents(StepOf[u])
<1>. USE DEF StoreTypeOK, Terminal, Claimable
<1>1. CASE state' = state /\ succeeded' = succeeded
  BY <1>1
<1>2. CASE \E t \in Task : Claims(t)
  BY <1>2 DEF Claims
<1>3. CASE \E t \in Task : Decides(t)
  BY <1>3 DEF Decides
<1>4. CASE \E t \in Task : Cascades(t)
  BY <1>4 DEF Cascades, AbortDependents
<1>5. CASE \E t \in Task : InsertTask(t)
  BY <1>5 DEF InsertTask
<1>. QED  BY <1>1, <1>2, <1>3, <1>4, <1>5 DEF RowStep

(* More rows make the cascade reach further, never less far.               *)
LEMMA DependentsGrow ==
    ASSUME Inserted \subseteq Inserted', NEW s
    PROVE  Dependents(s) \subseteq Dependents(s)'
BY DEF Dependents

(* A step of a handler leaves the other handlers and their messages alone. *)
LEMMA OthersStay ==
    ASSUME TypeInv, NEW h \in Handler, HandlerStep(h),
           NEW g \in Handler, g # h
    PROVE  /\ pc'[g] = pc[g]
           /\ pc[g] # "idle" => Msg(g)' = Msg(g) /\ Msg(g).task \in Task
<1>1. pc'[g] = pc[g] /\ entry'[g] = entry[g]
  <2>1. CASE Read(h)
    BY <2>1 DEF Read, TypeInv, TypeOK, ProcTypeOK
  <2>2. CASE ~Read(h)
    BY <2>2, HandlerFrame DEF Goto, TypeInv, TypeOK, ProcTypeOK
  <2>. QED  BY <2>1, <2>2
<1>2. \A e \in DOMAIN log : log'[e] = log[e]
  <2>1. CASE Resend(h)
    <3>1. /\ Msg(h).task \in Task /\ Msg(h).attempt + 1 \in Nat \ {0}
          /\ QueueTypeOK
      BY <2>1, HandlerMessage DEF Resend, TypeInv, TypeOK
    <3>. QED  BY <2>1, <3>1, EnqueueEffect DEF Resend
  <2>2. CASE ~Resend(h)
    <3>1. log' = log
      BY <2>2, HandlerFrame DEF Read, Consume, AckDone, Ack, queueVars
    <3>. QED  BY <3>1
  <2>. QED  BY <2>1, <2>2
<1>. QED  BY <1>1, <1>2, HandlerMessage DEF Msg

(* While handlers keep apart, a handler's row stays as it left it: nobody  *)
(* else decides it, and nobody claims a row that has its outcome.          *)
LEMMA HandlerRowsNext ==
    ASSUME Apart, LifeInv, Next
    PROVE  HandlerRows'
<1>0. TypeInv /\ HandlerRows /\ StoreTypeOK /\ QueueTypeOK
  BY DEF LifeInv, OrderInv, GateInv, DurableInv, TypeInv, TypeOK
<1>a. 1 \in Nat \ {0}
  OBVIOUS
<1>1. CASE \E h \in Handler : HandlerStep(h)
  <2>1. PICK h \in Handler : HandlerStep(h)
    BY <1>1
  <2>2. /\ RowStep
        /\ AtWork(h)' => state'[Msg(h)'.task] = "running"
        /\ pc'[h] = "abort" => state'[Msg(h)'.task] \in {"failed", "dead"}
        /\ \A t \in Task : state[t] = "running" /\ state'[t] # "running" =>
               AtWork(h) /\ t = Msg(h).task
    BY <1>0, <2>1, HandlerMoves
  <2>3. ASSUME NEW g \in Handler, g # h
        PROVE  /\ AtWork(g)' => state'[Msg(g)'.task] = "running"
               /\ pc'[g] = "abort" => state'[Msg(g)'.task] \in {"failed", "dead"}
    <3>1. /\ pc'[g] = pc[g]
          /\ pc[g] # "idle" => Msg(g)' = Msg(g) /\ Msg(g).task \in Task
      BY <1>0, <2>1, <2>3, OthersStay
    <3>2. CASE AtWork(g)
      <4>1. state[Msg(g).task] = "running" /\ Msg(g).task \in Task
        BY <1>0, <3>1, <3>2 DEF HandlerRows, AtWork
      <4>2. state'[Msg(g).task] = "running"
        BY <2>2, <2>3, <3>2, <4>1 DEF Apart
      <4>. QED  BY <3>1, <3>2, <4>2 DEF AtWork
    <3>3. CASE pc[g] = "abort"
      <4>1. /\ state[Msg(g).task] \in {"failed", "dead"}
            /\ Msg(g).task \in Task
        BY <1>0, <3>1, <3>3 DEF HandlerRows
      <4>2. state'[Msg(g).task] = state[Msg(g).task]
        BY <1>0, <2>2, <4>1, RowsKept DEF Terminal
      <4>. QED  BY <3>1, <3>3, <4>1, <4>2 DEF AtWork
    <3>. QED  BY <3>1, <3>2, <3>3 DEF AtWork
  <2>. QED  BY <2>2, <2>3 DEF HandlerRows
<1>2. CASE ~ \E h \in Handler : HandlerStep(h)
  <2>1. /\ \A t \in Task : state[t] \in {"running", "failed", "dead"} =>
               state'[t] = state[t]
        /\ \A h \in Handler : \/ pc'[h] = "idle"
                              \/ pc'[h] = pc[h] /\ entry'[h] = entry[h]
        /\ \A e \in DOMAIN log : log'[e] = log[e]
    <3>1. CASE InsertPlanned
      <4>1. Planned \in Task
        BY <1>0, <3>1, PlannedType DEF InsertPlanned
      <4>. QED  BY <1>0, <3>1, <4>1
                DEF InsertPlanned, InsertTask, queueVars, StoreTypeOK
    <3>2. CASE \/ InsertScan \/ StartScan \/ MarkPlanned \/ FetchReady
               \/ MarkReady \/ SelectScan \/ CountStates \/ CloseScan
      BY <3>2 DEF InsertScan, StartScan, MarkPlanned, FetchReady, MarkReady,
         SelectScan, SelectScanIf, CountStates, CloseScan, MarkDispatched,
         storeVars, queueVars
    <3>3. CASE EnqueuePlanned
      <4>1. Planned \in Task
        BY <1>0, <3>3, PlannedType DEF EnqueuePlanned, TypeInv, Refs
      <4>2. \A e \in DOMAIN log : log'[e] = log[e]
        BY <1>0, <1>a, <3>3, <4>1, EnqueueEffect DEF EnqueuePlanned
      <4>. QED  BY <3>3, <4>2 DEF EnqueuePlanned, storeVars
    <3>4. ASSUME NEW t \in Task, EnqueueReady(t)
          PROVE  /\ state' = state /\ pc' = pc /\ entry' = entry
                 /\ \A e \in DOMAIN log : log'[e] = log[e]
      BY <1>0, <1>a, <3>4, EnqueueEffect DEF EnqueueReady, storeVars
    <3>5. ASSUME NEW r \in Reclaimer, ReAdd(r)
          PROVE  /\ state' = state /\ pc' = pc /\ entry' = entry
                 /\ \A e \in DOMAIN log : log'[e] = log[e]
      <4>1. PICK e \in 1..delivered : e = moving[r].entry
        BY <1>0, <3>5 DEF ReAdd, TypeInv, TypeOK, QueueTypeOK, Refs
      <4>2. log[e].task \in Task /\ log[e].attempt + 1 \in Nat \ {0}
        BY <1>0, <4>1, MessageType
      <4>3. \A f \in DOMAIN log : log'[f] = log[f]
        BY <1>0, <3>5, <4>1, <4>2, EnqueueEffect DEF ReAdd
      <4>. QED  BY <3>5, <4>3 DEF ReAdd, storeVars
    <3>6. CASE \/ \E r \in Reclaimer, e \in pel :
                     ClaimAbandoned(r, e) \/ ClaimEarly(r, e)
               \/ \E r \in Reclaimer : AckMoved(r)
      BY <3>6 DEF ClaimAbandoned, ClaimEarly, AutoClaim, AckMoved, Ack,
         storeVars, queueVars
    <3>7. CASE Faults
      BY <1>0, <3>7 DEF Faults, HandlerError, WorkerCrash, ReclaimError,
         LoopError, SubmitError, MasterCrash, Fault, storeVars, queueVars,
         TypeInv, TypeOK, ProcTypeOK
    <3>. QED  BY <1>2, <3>1, <3>2, <3>3, <3>4, <3>5, <3>6, <3>7
              DEF Next, Submit, MasterLoop, Reclaim
  <2>2. ASSUME NEW h \in Handler, pc'[h] # "idle"
        PROVE  /\ Msg(h)' = Msg(h) /\ pc'[h] = pc[h]
               /\ Msg(h).task \in Task
    BY <1>0, <2>1, <2>2, HandlerMessage DEF Msg
  <2>. QED  BY <1>0, <2>1, <2>2 DEF HandlerRows, AtWork
<1>. QED  BY <1>1, <1>2

(* The scan's status, and the finalizer's locals, stay true of the rows:   *)
(* rows that were all settled when it looked are settled when it writes.   *)
LEMMA ScanRowsNext ==
    ASSUME PlanIsWhole, LifeInv, Next
    PROVE  ScanRows'
<1>0. TypeInv /\ StoreTypeOK /\ ScanRows /\ Recorded /\ ProcTypeOK
  BY DEF LifeInv, OrderInv, GateInv, DurableInv, TypeInv, TypeOK
<1>1. RowStep
  BY RowSteps
<1>2. Inserted \subseteq Inserted'
  BY <1>0, TablesGrow
<1>3. AllSettled => AllSettled' /\ Verdict' = Verdict
  <2>. SUFFICES ASSUME AllSettled PROVE AllSettled' /\ Verdict' = Verdict
    OBVIOUS
  <2>1. \A t \in Task : state'[t] = state[t] /\ state[t] \in Terminal
    BY <1>0, <1>1, RowsKept DEF AllSettled
  <2>. QED  BY <2>1 DEF AllSettled, Verdict
<1>4. CASE InsertScan
  BY <1>0, <1>4 DEF InsertScan, ScanRows, ProcTypeOK
<1>5. CASE StartScan
  <2>1. Task \subseteq Inserted
    <3>1. \A j \in 1..Len(Plan) : Plan[j] \in Inserted
      <4>1. /\ req.i > Len(Plan) /\ req.i \in 1..Len(Plan) + 1
            /\ Len(Plan) \in Nat
        BY <1>0, <1>5, PipelineAssumption DEF StartScan, ProcTypeOK
      <4>. QED  BY <4>1 DEF LifeInv, OrderInv
    <3>. QED  BY <3>1 DEF PlanIsWhole
  <2>2. scan = "pending" /\ scan' = "running" /\ loop' = loop /\ req'.at = "done"
    BY <1>0, <1>5 DEF StartScan, ScanRows, ProcTypeOK
  <2>. QED  BY <1>0, <1>2, <2>1, <2>2 DEF ScanRows
<1>6. CASE CloseScan
  <2>1. /\ scan = "running" /\ AllSettled /\ loop.verdict = Verdict
        /\ scan' = loop.verdict /\ loop'.at = "idle" /\ req' = req
    BY <1>0, <1>6 DEF CloseScan, ScanRows, LoopIdle
  <2>2. Verdict \in {"completed", "failed"}
    BY DEF Verdict
  <2>. QED  BY <1>0, <1>2, <1>3, <2>1, <2>2 DEF ScanRows
<1>7. ASSUME scan' = scan, req' = req \/ req'.at \in {"done", "lost"}
                           \/ (req.at \in {"insert", "enqueue", "mark"}
                               /\ req'.at \in {"insert", "enqueue", "mark"}),
             loop' = loop \/ loop'.at \in {"idle", "enqueue"}
             \/ SelectScan \/ CountStates
      PROVE  ScanRows'
  <2>1. loop'.at \in {"count", "close"} => scan = "running" /\ AllSettled
    <3>1. CASE SelectScan
      <4>1. scan = "running" /\ \A t \in Task : state[t] \notin Claimable
        BY <3>1 DEF SelectScan, SelectScanIf
      <4>2. \A t \in Task : state[t] \in Terminal
        BY <1>0, <4>1 DEF ScanRows, Inserted, StoreTypeOK
      <4>. QED  BY <4>1, <4>2 DEF AllSettled
    <3>2. CASE CountStates
      BY <1>0, <3>2 DEF CountStates, ScanRows
    <3>. QED  BY <1>0, <1>7, <3>1, <3>2 DEF ScanRows
  <2>2. loop'.at = "close" => loop'.verdict = Verdict
    <3>1. CASE SelectScan
      BY <1>0, <3>1 DEF SelectScan, SelectScanIf, ProcTypeOK
    <3>2. CASE CountStates
      <4>1. AllSettled
        BY <1>0, <3>2 DEF CountStates, ScanRows
      <4>2. PICK seen : seen = {state[t] : t \in Task} \cap Terminal
        OBVIOUS
      <4>3. "succeeded" \in seen <=> \E t \in Task : state[t] = "succeeded"
        BY <4>2 DEF Terminal
      <4>. QED  BY <1>0, <3>2, <4>2, <4>3
                DEF CountStates, Verdict, LoopIdle, ProcTypeOK
    <3>. QED  BY <1>0, <1>7, <3>1, <3>2 DEF ScanRows
  <2>. QED  BY <1>0, <1>2, <1>3, <1>7, <2>1, <2>2 DEF ScanRows
<1>8. CASE \/ InsertPlanned \/ EnqueuePlanned \/ MarkPlanned
           \/ FetchReady \/ MarkReady \/ SelectScan \/ CountStates
           \/ \E t \in Task : EnqueueReady(t)
  <2>1. CASE InsertPlanned \/ EnqueuePlanned \/ MarkPlanned
    <3>1. /\ scan' = scan /\ loop' = loop
          /\ req.at \in {"insert", "enqueue", "mark"}
          /\ req'.at \in {"insert", "enqueue", "mark"}
      BY <1>0, <2>1 DEF InsertPlanned, EnqueuePlanned, MarkPlanned, ProcTypeOK
    <3>. QED  BY <1>7, <3>1
  <2>2. CASE FetchReady \/ MarkReady \/ \E t \in Task : EnqueueReady(t)
    <3>1. scan' = scan /\ req' = req
      BY <2>2 DEF FetchReady, MarkReady, EnqueueReady
    <3>2. loop'.at \in {"idle", "enqueue"}
      <4>1. CASE FetchReady
        BY <4>1 DEF FetchReady, LoopIdle
      <4>2. CASE MarkReady
        BY <4>2 DEF MarkReady, LoopIdle
      <4>3. ASSUME NEW t \in Task, EnqueueReady(t)
            PROVE  loop'.at = "enqueue"
        BY <1>0, <4>3 DEF EnqueueReady, ProcTypeOK
      <4>. QED  BY <2>2, <4>1, <4>2, <4>3
    <3>. QED  BY <1>7, <3>1, <3>2
  <2>3. CASE SelectScan \/ CountStates
    BY <1>7, <2>3 DEF SelectScan, SelectScanIf, CountStates
  <2>. QED  BY <1>8, <2>1, <2>2, <2>3
<1>9. CASE \E h \in Handler : HandlerStep(h)
  <2>1. PICK h \in Handler : HandlerStep(h)
    BY <1>9
  <2>2. scan' = scan /\ req' = req /\ loop' = loop
    BY <1>0, <2>1, HandlerFrame DEF Read, HandlerStep, Goto
  <2>. QED  BY <1>7, <2>2
<1>10. CASE \/ \E r \in Reclaimer : Reclaim(r)
            \/ \E r \in Reclaimer, e \in pel : ClaimEarly(r, e)
  BY <1>7, <1>10 DEF Reclaim, ClaimAbandoned, ClaimEarly, AutoClaim, ReAdd,
     AckMoved
<1>11. CASE Faults
  BY <1>0, <1>7, <1>11 DEF Faults, HandlerError, WorkerCrash, ReclaimError,
     LoopError, SubmitError, MasterCrash, Fault, LoopIdle, ProcTypeOK
<1>. QED  BY <1>4, <1>5, <1>6, <1>8, <1>9, <1>10, <1>11
          DEF Next, Submit, MasterLoop

(* An aborted row's cause is final, and stays in its reach.                *)
LEMMA AbortedHasCauseNext ==
    ASSUME LifeInv, Next
    PROVE  AbortedHasCause'
<1>0. TypeInv /\ StoreTypeOK /\ Recorded /\ AbortedHasCause
  BY DEF LifeInv, OrderInv, GateInv, DurableInv, TypeInv, TypeOK
<1>1. RowStep /\ Inserted \subseteq Inserted'
  BY <1>0, RowSteps, TablesGrow
<1>. SUFFICES ASSUME NEW t \in Task, state'[t] = "aborted"
              PROVE  \E d \in Task : /\ state'[d] \in {"failed", "dead"}
                                     /\ StepOf[t] \in Dependents(StepOf[d])'
  BY DEF AbortedHasCause
<1>2. PICK d \in Task : /\ state[d] \in {"failed", "dead"}
                        /\ StepOf[t] \in Dependents(StepOf[d])
  <2>1. CASE state[t] = "aborted"
    BY <1>0, <2>1 DEF AbortedHasCause
  <2>2. CASE \E u \in Task : Cascades(u) /\ StepOf[t] \in Dependents(StepOf[u])
    BY <2>2 DEF Cascades
  <2>. QED  BY <1>0, <1>1, <2>1, <2>2, RowsKept
<1>3. state'[d] \in {"failed", "dead"}
  BY <1>0, <1>1, <1>2, RowsKept DEF Terminal
<1>4. StepOf[t] \in Dependents(StepOf[d])'
  BY <1>1, <1>2, DependentsGrow
<1>. QED  BY <1>3, <1>4

(* The invariant holds initially and is inductive.                         *)
LEMMA LifeInit == Init => LifeInv
<1>. SUFFICES ASSUME Init PROVE LifeInv
  OBVIOUS
<1>1. OrderInv
  BY OrderInit
<1>2. HandlerRows /\ ScanRows /\ AbortedHasCause
  BY DEF Init, StoreInit, LoopIdle, HandlerRows, AtWork, ScanRows, AbortedHasCause
<1>. QED  BY <1>1, <1>2 DEF Init, StoreInit, LifeInv

(* With a whole plan in dependency order it is kept by every step taken    *)
(* while handlers keep apart.                                              *)
LEMMA LifeNext ==
    ASSUME Apart, PlanInOrder, PlanIsWhole, LifeInv, [Next]_vars
    PROVE  LifeInv'
<1>1. OrderInv' /\ StoreTypeOK
  BY OrderNext DEF LifeInv, OrderInv, GateInv, DurableInv, TypeInv, TypeOK
<1>2. CASE Next
  <2>1. HandlerRows' /\ ScanRows' /\ AbortedHasCause'
    BY <1>2, HandlerRowsNext, ScanRowsNext, AbortedHasCauseNext
  <2>2. \A t \in succeeded' : state'[t] = "succeeded"
    <3>1. RowStep
      BY <1>2, RowSteps
    <3>. QED  BY <1>1, <3>1, RowsKept DEF LifeInv, Terminal, StoreTypeOK
  <2>. QED  BY <1>1, <2>1, <2>2 DEF LifeInv
<1>3. CASE UNCHANGED vars
  BY <1>1, <1>3 DEF vars, queueVars, storeVars, procVars, LifeInv, HandlerRows, AtWork,
     ScanRows, AllSettled, Verdict, AbortedHasCause, Dependents, Inserted, Msg
<1>. QED  BY <1>2, <1>3

-----------------------------------------------------------------------------
(* Theorems                                                                *)

(* A closed scan has no open task, and its status says whether any task    *)
(* succeeded, whatever crashed between the finalizer's query, its counts   *)
(* and its update.                                                         *)
THEOREM ClosedScansAreSettled ==
    ASSUME PlanInOrder, PlanIsWhole
    PROVE  Spec /\ []Apart => []ClosedIsSettled
<1>1. LifeInv => ClosedIsSettled
  BY DEF LifeInv, ScanRows, AllSettled, Verdict, ClosedIsSettled
<1>2. LifeInv /\ Apart /\ [Next]_vars => LifeInv'
  BY LifeNext
<1>. QED  BY LifeInit, <1>1, <1>2, PTL DEF Spec

(* Every aborted task has a failed, refused or dead one upstream.          *)
THEOREM AbortsHaveCauses ==
    ASSUME PlanInOrder, PlanIsWhole
    PROVE  Spec /\ []Apart => []AbortedHasCause
<1>1. LifeInv => AbortedHasCause
  BY DEF LifeInv
<1>2. LifeInv /\ Apart /\ [Next]_vars => LifeInv'
  BY LifeNext
<1>. QED  BY LifeInit, <1>1, <1>2, PTL DEF Spec

(* The outcome of a task is final, however often its message is delivered. *)
THEOREM OutcomesAreFinal ==
    ASSUME PlanInOrder, PlanIsWhole
    PROVE  Spec /\ []Apart => OutcomeIsFinal
<1>1. ASSUME LifeInv, [Next]_vars
      PROVE  [\A t \in Task : state[t] \in Terminal => state'[t] = state[t]]_vars
  <2>1. StoreTypeOK
    BY <1>1 DEF LifeInv, OrderInv, GateInv, DurableInv, TypeInv, TypeOK
  <2>2. CASE Next
    BY <1>1, <2>1, <2>2, RowSteps, RowsKept
  <2>. QED  BY <1>1, <2>2
<1>2. LifeInv /\ Apart /\ [Next]_vars => LifeInv'
  BY LifeNext
<1>. QED  BY LifeInit, <1>1, <1>2, PTL DEF Spec, OutcomeIsFinal

(* Each step of the pipeline is one of the lifecycle's or leaves rows and  *)
(* status alone.                                                           *)
LEMMA LifecycleStep ==
    ASSUME PlanIsWhole, LifeInv, [Next]_vars
    PROVE  [Lifecycle!Next]_(Lifecycle!vars)
<1>0. StoreTypeOK /\ ProcTypeOK
  BY DEF LifeInv, OrderInv, GateInv, DurableInv, TypeInv, TypeOK
<1>. USE DEF Lifecycle!Next, Lifecycle!vars, Lifecycle!Move
<1>1. CASE state' = state /\ scan' = scan
  BY <1>1
<1>2. CASE Next /\ scan' = scan
  <2>1. RowStep
    BY <1>2, RowSteps
  <2>2. ASSUME NEW t \in Task, Claims(t) PROVE [Lifecycle!Next]_(Lifecycle!vars)
    <3>1. CASE state[t] = "running"
      <4>1. state' = state
        BY <1>0, <2>2, <3>1 DEF Claims, StoreTypeOK
      <4>. QED  BY <1>1, <1>2, <4>1
    <3>2. CASE state[t] = "queued"
      <4>1. \A d \in TasksOf(DependsOn[StepOf[t]]) : state[d] = "succeeded"
        BY <2>2 DEF Claims, LifeInv, OrderInv, DependenciesFirst
      <4>2. Lifecycle!Run(t)
        BY <1>2, <2>2, <3>2, <4>1 DEF Lifecycle!Run, Claims
      <4>. QED  BY <4>2
    <3>. QED  BY <2>2, <3>1, <3>2 DEF Claims, Claimable
  <2>3. ASSUME NEW t \in Task, Decides(t) PROVE Lifecycle!Next
    <3>1. Lifecycle!Retry(t) \/ Lifecycle!Decide(t)
      BY <1>2, <2>3 DEF Decides, Lifecycle!Retry, Lifecycle!Decide
    <3>. QED  BY <3>1
  <2>4. ASSUME NEW t \in Task, Cascades(t) PROVE Lifecycle!Next
    <3>1. PICK ts \in SUBSET Task :
              ts = {u \in Task : /\ state[u] = "queued"
                                /\ StepOf[u] \in Dependents(StepOf[t])}
      OBVIOUS
    <3>2. state' = [u \in Task |-> IF u \in ts THEN "aborted" ELSE state[u]]
      BY <2>4, <3>1 DEF Cascades, AbortDependents
    <3>3. Lifecycle!Abort(ts)
      BY <1>2, <2>4, <3>1, <3>2 DEF Lifecycle!Abort, Cascades
    <3>. QED  BY <3>3
  <2>5. ASSUME NEW t \in Task, scan = "pending", InsertTask(t)
        PROVE  [Lifecycle!Next]_(Lifecycle!vars)
    <3>1. CASE state[t] = "absent"
      <4>1. Lifecycle!Insert(t)
        BY <1>0, <1>2, <2>5, <3>1 DEF Lifecycle!Insert, InsertTask, StoreTypeOK
      <4>. QED  BY <4>1
    <3>2. CASE state[t] # "absent"
      <4>1. state' = state
        BY <1>0, <2>5, <3>2 DEF InsertTask, StoreTypeOK
      <4>. QED  BY <1>1, <1>2, <4>1
    <3>. QED  BY <3>1, <3>2
  <2>. QED  BY <1>1, <1>2, <2>1, <2>2, <2>3, <2>4, <2>5 DEF RowStep
<1>3. CASE InsertScan
  <2>1. Lifecycle!Submit
    BY <1>3 DEF InsertScan, storeVars, LifeInv, ScanRows, Lifecycle!Submit
  <2>. QED  BY <2>1
<1>4. CASE StartScan
  <2>1. scan = "pending" /\ scan' = "running" /\ state' = state
    BY <1>4 DEF StartScan, storeVars, LifeInv, ScanRows
  <2>2. ScanRows'
    BY <1>4, ScanRowsNext DEF Next, Submit
  <2>3. \A t \in Task : state[t] # "absent"
    BY <2>1, <2>2 DEF ScanRows, Inserted
  <2>4. Lifecycle!Start
    BY <2>1, <2>3 DEF Lifecycle!Start
  <2>. QED  BY <2>4
<1>5. CASE CloseScan
  <2>1. /\ scan = "running" /\ AllSettled /\ scan' = Verdict /\ state' = state
    BY <1>5 DEF CloseScan, storeVars, LifeInv, ScanRows
  <2>2. Lifecycle!Close
    BY <2>1 DEF Lifecycle!Close, Lifecycle!Settled, AllSettled, Terminal, Verdict
  <2>. QED  BY <2>2
<1>6. CASE UNCHANGED vars
  BY <1>1, <1>6 DEF vars, storeVars
<1>. QED  BY <1>2, <1>3, <1>4, <1>5, <1>6, RowSteps

(* The pipeline refines the lifecycle: rows move only along it, a task     *)
(* runs only after all it depends on succeeded, and the scan closes only   *)
(* on settled rows.                                                        *)
THEOREM PipelineImplementsLifecycle ==
    ASSUME PlanInOrder, PlanIsWhole
    PROVE  Spec /\ []Apart => ImplementsLifecycle
<1>1. Init => Lifecycle!Init
  BY DEF Init, StoreInit, Lifecycle!Init
<1>2. LifeInv /\ Apart /\ [Next]_vars => LifeInv'
  BY LifeNext
<1>3. LifeInv /\ [Next]_vars => [Lifecycle!Next]_(Lifecycle!vars)
  BY LifecycleStep
<1>. QED  BY LifeInit, <1>1, <1>2, <1>3, PTL
          DEF Spec, ImplementsLifecycle, Lifecycle!Spec

-----------------------------------------------------------------------------
(* What keeps handlers apart.  A second handler needs a second entry of    *)
(* the task that still leads to a claim, and there are four ways to get    *)
(* one: a crash or an error between an addition to the stream and what was *)
(* to follow it, an entry reclaimed under a handler's hands, a key planned *)
(* twice, and a tick of the dispatcher between the submission's INSERT of  *)
(* a first task and its mark_dispatched.  Without them there is none,      *)
(* whatever fails, is retried or is reclaimed.                             *)

PlanIsASet == \A i, j \in 1..Len(Plan) : Plan[i] = Plan[j] => i = j

TickMeetsSubmit ==
    /\ req.at \in {"enqueue", "mark"}
    /\ Planned \in loop.todo \cup loop.sent

Undisturbed == early = 0 /\ crashes = 0 /\ ~TickMeetsSubmit

OneLive ==
    \A e, f \in DOMAIN log :
        log[e].task = log[f].task /\ Live(e) /\ Live(f) => e = f

(* What is still to be planned has no row, what is still to be added has   *)
(* no message, and what has one is marked or about to be.                  *)
Fresh ==
    /\ req.at \in {"submit", "insert", "enqueue", "mark"} =>
           \A i \in (req.i + 1)..Len(Plan) : Plan[i] \notin Inserted
    /\ req.at \in {"submit", "insert"} /\ req.i <= Len(Plan) =>
           Planned \notin Inserted
    /\ req.at = "enqueue" => Planned \notin Sent
    /\ loop.todo \cap Sent = {}
    /\ loop.at # "enqueue" => loop.sent = {}
    /\ \A t \in Sent : \/ t \in dispatched \/ t \in loop.sent
                       \/ req.at = "mark" /\ t = Planned

SoloInv == DurableInv /\ OneLive /\ Fresh

(* Without faults and early reclaims an entry that no longer leads to a    *)
(* claim stays in the hands that finish with it, until it is acknowledged. *)
LEMMA NothingRevives ==
    ASSUME TypeInv, Exclusive, Next, early = 0, early' = 0,
           crashes' = crashes, NEW e \in DOMAIN log, Live(e)'
    PROVE  Live(e)
<1>0. /\ delivered \in Nat /\ pel \subseteq 1..delivered /\ crashes \in Nat
      /\ e \in Nat
      /\ moving \in [Reclaimer -> [entry : Nat, added : BOOLEAN]]
      /\ entry \in [Handler -> Nat] /\ pc \in [Handler -> HandlerPc]
  BY DEF TypeInv, TypeOK, QueueTypeOK, ProcTypeOK
<1>a. /\ Outstanding(e)'
      /\ \A h \in Handler : entry'[h] = e => pc'[h] \notin {"abort", "ack"}
      /\ \A r \in Reclaimer : moving'[r].entry = e => ~moving'[r].added
  BY DEF Live
<1>b. /\ Outstanding(e)
      /\ \A h \in Handler : entry[h] = e => pc[h] \notin {"abort", "ack"}
      /\ \A r \in Reclaimer : moving[r].entry = e => ~moving[r].added
      => Live(e)
  BY DEF Live
<1>c. delivered' = delivered /\ pel' \subseteq pel => Outstanding(e)
  BY <1>a DEF Outstanding
<1>d. UNCHANGED <<pc, entry>> => \A h \in Handler : entry[h] = e => pc[h] \notin {"abort", "ack"}
  BY <1>a
<1>e. moving' = moving => \A r \in Reclaimer : moving[r].entry = e => ~moving[r].added
  BY <1>a
<1>1. CASE Submit
  BY <1>1, <1>b, <1>c, <1>d, <1>e DEF Submit, InsertScan, InsertPlanned,
     EnqueuePlanned, MarkPlanned, StartScan, queueVars, Enqueue
<1>2. CASE MasterLoop
  BY <1>2, <1>b, <1>c, <1>d, <1>e DEF MasterLoop, FetchReady, EnqueueReady, MarkReady,
     SelectScan, SelectScanIf, CountStates, CloseScan, queueVars, Enqueue
<1>3. ASSUME NEW r \in Reclaimer, NEW f \in pel, ClaimAbandoned(r, f)
      PROVE  Live(e)
  <2>1. /\ moving[r] = NoMove
        /\ moving' = [moving EXCEPT ![r] = [entry |-> f, added |-> FALSE]]
        /\ delivered' = delivered /\ pel' = pel
        /\ UNCHANGED <<pc, entry>>
    BY <1>3 DEF ClaimAbandoned, AutoClaim, queueVars
  <2>2. \A q \in Reclaimer : moving[q].entry = e => ~moving[q].added
    <3>1. moving[r].entry = e => ~moving[r].added
      BY <2>1 DEF NoMove
    <3>2. \A q \in Reclaimer : q # r => moving'[q] = moving[q]
      BY <1>0, <2>1
    <3>. QED  BY <1>a, <3>1, <3>2
  <2>. QED  BY <1>b, <1>c, <1>d, <2>1, <2>2
<1>4. ASSUME NEW r \in Reclaimer, ReAdd(r) PROVE Live(e)
  <2>1. /\ ~moving[r].added
        /\ moving' = [moving EXCEPT ![r].added = TRUE]
        /\ delivered' = delivered /\ pel' = pel
        /\ UNCHANGED <<pc, entry>>
    BY <1>4 DEF ReAdd, Enqueue
  <2>2. \A q \in Reclaimer : moving[q].entry = e => ~moving[q].added
    <3>1. \A q \in Reclaimer : q # r => moving'[q] = moving[q]
      BY <1>0, <2>1
    <3>. QED  BY <1>a, <2>1, <3>1
  <2>. QED  BY <1>b, <1>c, <1>d, <2>1, <2>2
<1>5. ASSUME NEW r \in Reclaimer, AckMoved(r) PROVE Live(e)
  <2>1. /\ moving' = [moving EXCEPT ![r] = NoMove]
        /\ delivered' = delivered /\ pel' = pel \ {moving[r].entry}
        /\ UNCHANGED <<pc, entry>>
        /\ moving[r].entry \in 0..delivered
    BY <1>5 DEF AckMoved, Ack, TypeInv, Refs
  <2>2. moving[r].entry # e
    BY <1>0, <1>a, <2>1 DEF Outstanding
  <2>3. \A q \in Reclaimer : q # r => moving'[q] = moving[q]
    BY <1>0, <2>1
  <2>. QED  BY <1>a, <1>b, <1>c, <1>d, <2>1, <2>2, <2>3
<1>6. ASSUME NEW h \in Handler, HandlerStep(h) PROVE Live(e)
  <2>1. \A g \in Handler :
            g # h /\ entry[g] = e => pc[g] \notin {"abort", "ack"}
    <3>1. \A g \in Handler : g # h => pc'[g] = pc[g] /\ entry'[g] = entry[g]
      <4>1. CASE Read(h)
        BY <1>0, <4>1 DEF Read
      <4>2. CASE ~Read(h)
        BY <1>0, <1>6, <4>2, HandlerFrame DEF Goto
      <4>. QED  BY <4>1, <4>2
    <3>. QED  BY <1>a, <3>1
  <2>2. CASE Read(h)
    <3>1. Outstanding(e)
      BY <1>0, <1>a, <2>2 DEF Read, Consume, Outstanding
    <3>. QED  BY <1>b, <1>e, <2>1, <2>2, <3>1 DEF Read
  <2>3. CASE AckDone(h)
    <3>1. /\ delivered' = delivered /\ pel' = pel \ {entry[h]}
          /\ moving' = moving /\ entry[h] \in 1..delivered
      BY <2>3 DEF AckDone, Ack, Goto, TypeInv, Refs
    <3>2. entry[h] # e
      BY <1>0, <1>a, <3>1 DEF Outstanding
    <3>. QED  BY <1>b, <1>c, <1>e, <2>1, <3>1, <3>2
  <2>4. CASE ~Read(h) /\ ~AckDone(h)
    <3>1. delivered' = delivered /\ pel' = pel /\ moving' = moving
      BY <1>6, <2>4, HandlerFrame DEF Resend, Enqueue, queueVars
    <3>2. entry[h] = e => pc[h] \notin {"abort", "ack"}
      <4>1. CASE Abort(h)
        BY <1>0, <1>a, <4>1 DEF Abort, Goto, HandlerPc
      <4>2. CASE ~Abort(h)
        BY <1>6, <2>4, <4>2 DEF HandlerStep, Claim, ClaimNone, DenyScope,
           RefuseTool, RaiseNoInput, RejectParams, BuildContext, RunOk, Succeed,
           Retry, RetryAt, DeadLetter, RunFails, Resend
      <4>. QED  BY <4>1, <4>2
    <3>. QED  BY <1>b, <1>c, <1>e, <2>1, <3>1, <3>2
  <2>. QED  BY <2>2, <2>3, <2>4
<1>7. CASE Faults
  BY <1>0, <1>7 DEF Faults, HandlerError, WorkerCrash, ReclaimError, LoopError,
     SubmitError, MasterCrash, Fault
<1>8. CASE \E r \in Reclaimer, f \in pel : ClaimEarly(r, f)
  BY <1>8 DEF ClaimEarly
<1>. QED  BY <1>1, <1>2, <1>3, <1>4, <1>5, <1>6, <1>7, <1>8 DEF Next, Reclaim

(* A message is added for a task that has none, or in the place of a live  *)
(* entry that is thereby used up.                                          *)
LEMMA Additions ==
    ASSUME SoloInv, Undisturbed, Exclusive, Next
    PROVE  \/ DOMAIN log' = DOMAIN log /\ \A e \in DOMAIN log : log'[e] = log[e]
           \/ \E t \in Task, n \in Nat \ {0} :
                 /\ Enqueue(t, n)
                 /\ \/ t \notin Sent
                    \/ \E e \in DOMAIN log :
                          log[e].task = t /\ Live(e) /\ ~Live(e)'
<1>0. /\ TypeInv /\ Fresh /\ 1 \in Nat \ {0}
      /\ moving \in [Reclaimer -> [entry : Nat, added : BOOLEAN]]
      /\ entry \in [Handler -> Nat] /\ pc \in [Handler -> HandlerPc]
  BY DEF SoloInv, DurableInv, TypeInv, TypeOK, ProcTypeOK
<1>1. CASE EnqueuePlanned
  <2>1. Planned \in Task /\ Planned \notin Sent /\ Enqueue(Planned, 1)
    BY <1>0, <1>1, PlannedType DEF EnqueuePlanned, TypeInv, Refs, Fresh
  <2>. QED  BY <1>0, <2>1
<1>2. ASSUME NEW t \in Task, EnqueueReady(t)
      PROVE  t \notin Sent /\ Enqueue(t, 1)
  BY <1>0, <1>2 DEF EnqueueReady, Fresh
<1>3. ASSUME NEW r \in Reclaimer, ReAdd(r)
      PROVE  \E t \in Task, n \in Nat \ {0} :
                 /\ Enqueue(t, n)
                 /\ \E e \in DOMAIN log :
                       log[e].task = t /\ Live(e) /\ ~Live(e)'
  <2>1. PICK e : e = moving[r].entry
    OBVIOUS
  <2>2. /\ e \in 1..delivered /\ e \in pel /\ ~moving[r].added /\ e # 0
        /\ Enqueue(log[e].task, log[e].attempt + 1)
        /\ moving'[r].added /\ moving'[r].entry = e
    BY <1>0, <1>3, <2>1 DEF ReAdd, Exclusive, TypeInv, Refs
  <2>3. /\ log[e].task \in Task /\ log[e].attempt + 1 \in Nat \ {0}
        /\ e \in DOMAIN log
    BY <1>0, <2>2, MessageType
  <2>4. Live(e)
    <3>1. \A h \in Handler : entry[h] # e
      BY <2>1, <2>2 DEF Exclusive
    <3>2. \A q \in Reclaimer : moving[q].entry = e => q = r
      BY <2>1, <2>2 DEF Exclusive
    <3>. QED  BY <2>2, <2>3, <3>1, <3>2 DEF Live, Outstanding
  <2>5. ~Live(e)'
    BY <2>2 DEF Live
  <2>. QED  BY <2>2, <2>3, <2>4, <2>5
<1>4. ASSUME NEW h \in Handler, Resend(h)
      PROVE  \E t \in Task, n \in Nat \ {0} :
                 /\ Enqueue(t, n)
                 /\ \E e \in DOMAIN log :
                       log[e].task = t /\ Live(e) /\ ~Live(e)'
  <2>1. PICK e : e = entry[h]
    OBVIOUS
  <2>2. /\ e \in 1..delivered /\ e \in DOMAIN log /\ log[e].task \in Task
        /\ log[e].attempt + 1 \in Nat \ {0}
        /\ pc[h] = "backoff"
    BY <1>0, <1>4, <2>1, HandlerMessage DEF Resend, Msg
  <2>3. /\ e \in pel /\ e # 0
        /\ Enqueue(log[e].task, log[e].attempt + 1)
        /\ pc'[h] = "ack" /\ entry'[h] = e
    BY <1>0, <1>4, <2>1, <2>2 DEF Resend, Goto, Msg, Exclusive
  <2>4. Live(e)
    <3>1. \A g \in Handler : entry[g] = e => g = h
      BY <2>1, <2>3 DEF Exclusive
    <3>2. \A q \in Reclaimer : moving[q].entry # e
      BY <2>1, <2>3 DEF Exclusive
    <3>. QED  BY <2>2, <2>3, <3>1, <3>2 DEF Live, Outstanding
  <2>5. ~Live(e)'
    BY <2>3 DEF Live
  <2>. QED  BY <2>2, <2>3, <2>4, <2>5
<1>5. CASE \/ InsertScan \/ InsertPlanned \/ MarkPlanned \/ StartScan
           \/ FetchReady \/ MarkReady \/ SelectScan \/ CountStates \/ CloseScan
           \/ Faults
  BY <1>5 DEF InsertScan, InsertPlanned, MarkPlanned, StartScan, FetchReady,
     MarkReady, SelectScan, SelectScanIf, CountStates, CloseScan, Faults,
     HandlerError, WorkerCrash, ReclaimError, LoopError, SubmitError,
     MasterCrash, Fault, queueVars
<1>6. CASE \E r \in Reclaimer, e \in pel : ClaimAbandoned(r, e) \/ ClaimEarly(r, e)
  BY <1>6 DEF ClaimAbandoned, ClaimEarly, AutoClaim, queueVars
<1>7. CASE \E r \in Reclaimer : AckMoved(r)
  BY <1>7 DEF AckMoved, Ack
<1>8. ASSUME NEW h \in Handler, HandlerStep(h), ~Resend(h)
      PROVE  log' = log
  BY <1>0, <1>8, HandlerFrame DEF Read, Consume, AckDone, Ack, queueVars
<1>. QED  BY <1>0, <1>1, <1>2, <1>3, <1>4, <1>5, <1>6, <1>7, <1>8
          DEF Next, Submit, MasterLoop, Reclaim

(* So at most one live entry per task there is.                            *)
LEMMA OneLiveNext ==
    ASSUME SoloInv, Undisturbed, Undisturbed', Next
    PROVE  OneLive'
<1>0. /\ TypeInv /\ QueueTypeOK /\ Exclusive /\ OneLive
      /\ early = 0 /\ early' = 0 /\ crashes' = crashes
  BY DEF SoloInv, DurableInv, Undisturbed, TypeInv, TypeOK
<1>1. \A e \in DOMAIN log : Live(e)' => Live(e)
  BY <1>0, NothingRevives
<1>2. CASE DOMAIN log' = DOMAIN log /\ \A e \in DOMAIN log : log'[e] = log[e]
  BY <1>0, <1>1, <1>2 DEF OneLive
<1>3. ASSUME NEW t \in Task, NEW n \in Nat \ {0}, Enqueue(t, n),
             \/ t \notin Sent
             \/ \E e \in DOMAIN log : log[e].task = t /\ Live(e) /\ ~Live(e)'
      PROVE  OneLive'
  <2>1. PICK new : new = Len(log) + 1
    OBVIOUS
  <2>2. /\ DOMAIN log' = DOMAIN log \cup {new}
        /\ \A e \in DOMAIN log : log'[e] = log[e]
        /\ log'[new] = [task |-> t, attempt |-> n]
    BY <1>0, <1>3, <2>1, EnqueueEffect
  <2>a. log'[new].task = t
    BY <2>2
  <2>3. \A e \in DOMAIN log : log[e].task = t => ~Live(e)'
    <3>1. CASE t \notin Sent
      BY <3>1 DEF Sent
    <3>2. CASE \E e \in DOMAIN log : log[e].task = t /\ Live(e) /\ ~Live(e)'
      BY <1>0, <1>1, <3>2 DEF OneLive
    <3>. QED  BY <1>3, <3>1, <3>2
  <2>. QED  BY <1>0, <1>1, <2>2, <2>a, <2>3 DEF OneLive
<1>. QED  BY <1>0, <1>2, <1>3, Additions

(* What is planned, fetched and marked stays in step with the stream.      *)
LEMMA FreshNext ==
    ASSUME PlanIsASet, SoloInv, Undisturbed, Undisturbed', Next
    PROVE  Fresh'
<1>0. /\ TypeInv /\ Recorded /\ Fresh /\ StoreTypeOK /\ ProcTypeOK
      /\ early = 0 /\ early' = 0 /\ crashes = 0 /\ crashes' = 0
      /\ ~TickMeetsSubmit /\ ~TickMeetsSubmit' /\ 1 \in Nat \ {0}
  BY DEF SoloInv, DurableInv, Undisturbed, TypeInv, TypeOK
<1>a. /\ Len(Plan) \in Nat /\ req.i \in Nat
      /\ req \in [at : {"submit", "insert", "enqueue", "mark", "done", "lost"},
                  i : 1..Len(Plan) + 1]
      /\ loop \in [at : {"idle", "enqueue", "count", "close"},
                   todo : SUBSET Task, sent : SUBSET Task,
                   verdict : {"none", "completed", "failed"}]
  BY <1>0, PipelineAssumption DEF ProcTypeOK
<1>b. state' = state => Inserted' = Inserted
  BY DEF Inserted
<1>1. CASE InsertScan \/ StartScan
  <2>1. /\ state' = state /\ Sent' = Sent /\ dispatched' = dispatched
        /\ loop' = loop /\ req'.i = req.i /\ req.at # "mark"
        /\ \/ req.at = "submit" /\ req'.at = "insert"
           \/ req.at = "insert" /\ req'.at = "done"
    BY <1>0, <1>1, <1>a, SentEffect DEF InsertScan, StartScan, storeVars, queueVars
  <2>. QED  BY <1>0, <1>b, <2>1 DEF Fresh, Planned
<1>2. CASE InsertPlanned
  <2>1. /\ req.at = "insert" /\ req.i \in 1..Len(Plan) /\ Planned \in Task
        /\ Inserted' = Inserted \cup {Planned}
        /\ Sent' = Sent /\ loop' = loop /\ dispatched' = dispatched
        /\ \/ req'.at = "enqueue" /\ req'.i = req.i
           \/ req'.at = "insert" /\ req'.i = req.i + 1
    <3>1. Planned \in Task
      BY <1>0, <1>2, PlannedType DEF InsertPlanned
    <3>2. /\ req.at = "insert" /\ req.i \in 1..Len(Plan)
          /\ log' = log /\ loop' = loop /\ InsertTask(Planned)
          /\ \/ req' = [req EXCEPT !.at = "enqueue"]
             \/ req' = [req EXCEPT !.i = @ + 1]
      BY <1>2, <1>a DEF InsertPlanned, queueVars
    <3>3. Inserted' = Inserted \cup {Planned} /\ Sent' = Sent
      BY <1>0, <3>1, <3>2, RowsStay, SentEffect
    <3>. QED  BY <1>a, <3>1, <3>2, <3>3 DEF InsertTask
  <2>2. \A i \in (req.i + 1)..Len(Plan) : Plan[i] \notin Inserted'
    BY <1>0, <1>a, <2>1 DEF Fresh, PlanIsASet, Planned
  <2>3. Planned \notin Sent
    BY <1>0, <2>1 DEF Fresh, Recorded
  <2>4. CASE req'.at = "enqueue" /\ req'.i = req.i
    <3>1. Planned' = Planned
      BY <2>4 DEF Planned
    <3>. QED  BY <1>0, <2>1, <2>2, <2>3, <2>4, <3>1 DEF Fresh
  <2>5. CASE req'.at = "insert" /\ req'.i = req.i + 1
    <3>1. \A i \in (req'.i + 1)..Len(Plan) : Plan[i] \notin Inserted'
      BY <1>a, <2>2, <2>5
    <3>2. req'.i <= Len(Plan) => Planned' \notin Inserted'
      BY <1>a, <2>2, <2>5 DEF Planned
    <3>. QED  BY <1>0, <2>1, <2>5, <3>1, <3>2 DEF Fresh
  <2>. QED  BY <2>1, <2>4, <2>5
<1>3. CASE EnqueuePlanned
  <2>1. /\ req.at = "enqueue" /\ req'.at = "mark" /\ req'.i = req.i
        /\ Sent' = Sent \cup {Planned} /\ state' = state
        /\ loop' = loop /\ dispatched' = dispatched /\ Planned' = Planned
    <3>1. Planned \in Task
      BY <1>0, <1>3, PlannedType DEF EnqueuePlanned, TypeInv, Refs
    <3>. QED  BY <1>0, <1>3, <1>a, <3>1, SentEffect
              DEF EnqueuePlanned, storeVars, Planned
  <2>2. Planned \notin loop.todo
    BY <1>0, <2>1 DEF TickMeetsSubmit
  <2>. QED  BY <1>0, <1>b, <2>1, <2>2 DEF Fresh
<1>4. CASE MarkPlanned
  <2>1. /\ req.at = "mark" /\ req' = [at |-> "insert", i |-> req.i + 1]
        /\ Sent' = Sent /\ state' = state /\ loop' = loop
        /\ dispatched' = dispatched \cup {Planned}
    BY <1>0, <1>4, SentEffect DEF MarkPlanned, MarkDispatched, queueVars
  <2>2. /\ \A i \in (req'.i + 1)..Len(Plan) : Plan[i] \notin Inserted'
        /\ req'.i <= Len(Plan) => Planned' \notin Inserted'
    <3>1. /\ \A i \in (req.i + 1)..Len(Plan) : Plan[i] \notin Inserted'
          /\ req'.i = req.i + 1
      BY <1>0, <1>b, <2>1 DEF Fresh
    <3>. QED  BY <1>a, <3>1 DEF Planned
  <2>. QED  BY <1>0, <2>1, <2>2 DEF Fresh
<1>5. CASE FetchReady
  <2>1. /\ Sent' = Sent /\ state' = state /\ req' = req
        /\ dispatched' = dispatched /\ loop.at = "idle"
        /\ loop'.at = "enqueue" /\ loop'.sent = {}
        /\ loop'.todo = {t \in Task : Ready(t)}
        /\ Planned' = Planned
    BY <1>0, <1>5, SentEffect DEF FetchReady, LoopIdle, storeVars, queueVars, Planned
  <2>2. \A t \in loop'.todo : t \notin Sent
    BY <1>0, <2>1 DEF Fresh, Ready, TickMeetsSubmit
  <2>. QED  BY <1>0, <1>b, <2>1, <2>2 DEF Fresh
<1>6. ASSUME NEW t \in Task, EnqueueReady(t) PROVE Fresh'
  <2>1. /\ Sent' = Sent \cup {t} /\ state' = state /\ req' = req
        /\ dispatched' = dispatched /\ loop.at = "enqueue" /\ t \in loop.todo
        /\ loop'.at = "enqueue" /\ loop'.todo = loop.todo \ {t}
        /\ loop'.sent = loop.sent \cup {t}
        /\ Planned' = Planned
    BY <1>0, <1>6, <1>a, SentEffect DEF EnqueueReady, storeVars, Planned
  <2>2. req.at = "enqueue" => t # Planned
    BY <1>0, <2>1 DEF TickMeetsSubmit
  <2>. QED  BY <1>0, <1>b, <2>1, <2>2 DEF Fresh
<1>7. CASE MarkReady
  <2>1. /\ Sent' = Sent /\ state' = state /\ req' = req
        /\ dispatched' = dispatched \cup loop.sent
        /\ loop'.at = "idle" /\ loop'.todo = {} /\ loop'.sent = {}
        /\ Planned' = Planned
    BY <1>0, <1>7, SentEffect DEF MarkReady, MarkDispatched, LoopIdle, queueVars,
       Planned
  <2>. QED  BY <1>0, <1>b, <2>1 DEF Fresh
<1>8. CASE SelectScan \/ CountStates \/ CloseScan
  <2>1. /\ Sent' = Sent /\ state' = state /\ req' = req
        /\ dispatched' = dispatched /\ loop.at # "enqueue"
        /\ loop'.at # "enqueue" /\ Planned' = Planned
        /\ loop'.todo \in {{}, loop.todo} /\ loop'.sent \in {{}, loop.sent}
    <3>1. Sent' = Sent /\ state' = state /\ req' = req /\ dispatched' = dispatched
      BY <1>0, <1>8, SentEffect DEF SelectScan, SelectScanIf, CountStates,
         CloseScan, storeVars, queueVars
    <3>2. CASE SelectScan
      BY <1>a, <3>1, <3>2 DEF SelectScan, SelectScanIf, Planned
    <3>3. CASE CountStates
      BY <1>a, <3>1, <3>3 DEF CountStates, LoopIdle, Planned
    <3>4. CASE CloseScan
      BY <3>1, <3>4 DEF CloseScan, LoopIdle, Planned
    <3>. QED  BY <1>8, <3>2, <3>3, <3>4
  <2>. QED  BY <1>0, <1>b, <2>1 DEF Fresh
<1>9. CASE \/ \E r \in Reclaimer : Reclaim(r)
           \/ \E h \in Handler : HandlerStep(h)
  <2>1. Sent' = Sent
    BY <1>0, <1>9, ResendsOnly
  <2>2. req' = req /\ loop' = loop /\ dispatched' = dispatched
    <3>1. CASE \E r \in Reclaimer : Reclaim(r)
      BY <3>1 DEF Reclaim, ClaimAbandoned, AutoClaim, ReAdd, AckMoved, storeVars
    <3>2. ASSUME NEW h \in Handler, HandlerStep(h)
          PROVE  req' = req /\ loop' = loop /\ dispatched' = dispatched
      BY <1>0, <3>2, HandlerFrame DEF Read, storeVars
    <3>. QED  BY <1>9, <3>1, <3>2
  <2>3. Inserted' = Inserted
    <3>1. ~InsertPlanned
      BY <1>a, <2>2 DEF InsertPlanned
    <3>. QED  BY <1>0, <3>1, TablesGrow
  <2>. QED  BY <1>0, <2>1, <2>2, <2>3 DEF Fresh, Planned
<1>10. CASE \E r \in Reclaimer, e \in pel : ClaimEarly(r, e)
  BY <1>0, <1>10 DEF ClaimEarly
<1>11. CASE Faults
  BY <1>0, <1>11 DEF Faults, HandlerError, WorkerCrash, ReclaimError, LoopError,
     SubmitError, MasterCrash, Fault
<1>. QED  BY <1>1, <1>2, <1>3, <1>4, <1>5, <1>6, <1>7, <1>8, <1>9, <1>10, <1>11
          DEF Next, Submit, MasterLoop

(* The invariant holds in the beginning and while nothing disturbs.        *)
LEMMA SoloInit == Init => SoloInv
<1>. SUFFICES ASSUME Init PROVE SoloInv
  OBVIOUS
<1>1. DurableInv /\ Sent = {} /\ DOMAIN log = {}
  BY DurableInit DEF Init, QueueInit, Sent
<1>. QED  BY <1>1 DEF Init, StoreInit, LoopIdle, SoloInv, OneLive, Fresh,
          Inserted, Planned

(* Every step between undisturbed states keeps it.                         *)
LEMMA SoloNext ==
    ASSUME PlanIsASet, SoloInv, Undisturbed, Undisturbed', [Next]_vars
    PROVE  SoloInv'
<1>1. DurableInv'
  BY DurableNext DEF SoloInv
<1>2. CASE Next
  BY <1>1, <1>2, OneLiveNext, FreshNext DEF SoloInv
<1>3. CASE UNCHANGED vars
  <2>1. OneLive'
    BY <1>3 DEF vars, queueVars, procVars, SoloInv, OneLive, Live, Outstanding
  <2>2. Fresh'
    BY <1>3 DEF vars, queueVars, storeVars, procVars, SoloInv, Fresh, Planned,
       Inserted, Sent
  <2>. QED  BY <1>1, <2>1, <2>2 DEF SoloInv
<1>. QED  BY <1>2, <1>3

(* Only a crash or an error, an early reclaim, a key planned twice, or a   *)
(* tick that meets the submission puts two handlers to work on one task,   *)
(* however many workers there are and whatever is retried or reclaimed.    *)
THEOREM HandlersKeepApart ==
    ASSUME PlanIsASet
    PROVE  Spec /\ []Undisturbed => []Apart
<1>1. SoloInv /\ Undisturbed => Apart
  <2>. SUFFICES ASSUME SoloInv, Undisturbed, NEW g \in Handler, NEW h \in Handler,
                       AtWork(g), AtWork(h), Msg(g).task = Msg(h).task
                PROVE  g = h
    BY DEF Apart
  <2>1. TypeInv /\ Exclusive /\ OneLive
    BY DEF SoloInv, DurableInv, Undisturbed
  <2>2. ASSUME NEW k \in Handler, AtWork(k)
        PROVE  entry[k] # 0 /\ entry[k] \in DOMAIN log /\ Live(entry[k])
    <3>1. entry[k] \in 1..delivered /\ entry[k] \in DOMAIN log
      BY <2>1, <2>2, HandlerMessage DEF AtWork
    <3>2. /\ entry[k] # 0 /\ entry[k] \in pel
          /\ \A j \in Handler : entry[j] = entry[k] => j = k
          /\ \A r \in Reclaimer : moving[r].entry # entry[k]
      BY <2>1, <3>1 DEF Exclusive, TypeInv, TypeOK, QueueTypeOK
    <3>. QED  BY <2>2, <3>1, <3>2 DEF Live, Outstanding, AtWork
  <2>3. entry[g] = entry[h]
    BY <2>1, <2>2 DEF OneLive, Msg
  <2>. QED  BY <2>1, <2>2, <2>3 DEF Exclusive
<1>2. SoloInv /\ Undisturbed /\ Undisturbed' /\ [Next]_vars => SoloInv'
  BY SoloNext
<1>. QED  BY SoloInit, <1>1, <1>2, PTL DEF Spec

(* So an undisturbed scan of a plan without repetition, in dependency      *)
(* order, goes through its lifecycle with any number of workers.           *)
THEOREM UndisturbedScansFollowLifecycle ==
    ASSUME PlanInOrder, PlanIsWhole, PlanIsASet
    PROVE  Spec /\ []Undisturbed =>
               ImplementsLifecycle /\ []ClosedIsSettled /\ OutcomeIsFinal
<1>. QED  BY HandlersKeepApart, PipelineImplementsLifecycle,
             ClosedScansAreSettled, OutcomesAreFinal, PTL

(* And one handler keeps apart from itself: its scans do whatever crashes  *)
(* and is reclaimed, early or late.                                        *)
SoleHandler == \A g, h \in Handler : g = h

THEOREM SoleHandlerFollowsLifecycle ==
    ASSUME SoleHandler, PlanInOrder, PlanIsWhole
    PROVE  Spec => ImplementsLifecycle /\ []ClosedIsSettled /\ OutcomeIsFinal
<1>1. Apart
  BY DEF SoleHandler, Apart
<1>. QED  BY <1>1, PipelineImplementsLifecycle, ClosedScansAreSettled,
             OutcomesAreFinal, PTL

=============================================================================
