-------------------------- MODULE ScanPipelineProofs --------------------------
(***************************************************************************)
(* ScanPipeline for every plan, every number of workers, handlers and      *)
(* faults: its types, that no task handed to the stream is lost, and that  *)
(* the dispatcher respects dependencies and gates.                         *)
(***************************************************************************)
EXTENDS ScanPipeline, TLAPS

-----------------------------------------------------------------------------
(* Types, and what the processes' locals refer to.                         *)

Refs ==
    /\ req.at \in {"enqueue", "mark"} => req.i <= Len(Plan)
    /\ \A h \in Handler : IF pc[h] = "idle" THEN entry[h] = 0
                          ELSE entry[h] \in 1..delivered
    /\ \A r \in Reclaimer : /\ moving[r].entry \in 0..delivered
                            /\ moving[r].added => moving[r].entry # 0

TypeInv == TypeOK /\ Refs

(* A handler's and a reclaimer's entry is a message about a task.          *)
LEMMA MessageType ==
    ASSUME TypeInv, NEW e \in 1..delivered
    PROVE  /\ e \in DOMAIN log
           /\ log[e].task \in Task
           /\ log[e].attempt \in Nat \ {0}
<1>1. log \in Seq(Message) /\ delivered \in 0..Len(log)
  BY DEF TypeInv, TypeOK, QueueTypeOK
<1>2. e \in 1..Len(log)
  BY <1>1
<1>3. log[e] \in Message /\ e \in DOMAIN log
  BY <1>1, <1>2
<1>. QED  BY <1>3 DEF Message

(* The entry a busy handler was given is one of the stream's, so the       *)
(* message read from it is one.                                            *)
LEMMA HandlerMessage ==
    ASSUME TypeInv, NEW h \in Handler, pc[h] # "idle"
    PROVE  /\ entry[h] \in 1..delivered
           /\ entry[h] \in DOMAIN log
           /\ Msg(h).task \in Task
           /\ Msg(h).attempt \in Nat \ {0}
BY MessageType DEF TypeInv, Refs, Msg

(* While the submission has a plan entry to insert, that entry is a task.  *)
LEMMA PlannedType ==
    ASSUME TypeInv, req.at \in {"insert", "enqueue", "mark"}, req.i <= Len(Plan)
    PROVE  Planned \in Task
BY PipelineAssumption DEF TypeInv, TypeOK, ProcTypeOK, Planned

(* XADD keeps the older entries and adds one at the end.                   *)
LEMMA EnqueueEffect ==
    ASSUME QueueTypeOK, NEW t \in Task, NEW n \in Nat \ {0}, Enqueue(t, n)
    PROVE  /\ QueueTypeOK'
           /\ Len(log') = Len(log) + 1
           /\ delivered' = delivered /\ pel' = pel
           /\ DOMAIN log' = DOMAIN log \cup {Len(log) + 1}
           /\ \A e \in DOMAIN log : log'[e] = log[e]
           /\ log'[Len(log) + 1] = [task |-> t, attempt |-> n]
<1>1. /\ log \in Seq(Message) /\ Len(log) \in Nat
      /\ [task |-> t, attempt |-> n] \in Message
      /\ log' = Append(log, [task |-> t, attempt |-> n])
  BY DEF QueueTypeOK, Message, Enqueue
<1>2. log' \in Seq(Message) /\ Len(log') = Len(log) + 1
  BY <1>1
<1>3. DOMAIN log = 1..Len(log) /\ DOMAIN log' = 1..(Len(log) + 1)
  BY <1>1, <1>2
<1>4. /\ \A e \in DOMAIN log : log'[e] = log[e]
      /\ log'[Len(log) + 1] = [task |-> t, attempt |-> n]
  BY <1>1, <1>3
<1>5. QueueTypeOK' /\ delivered' = delivered /\ pel' = pel
  BY <1>2 DEF QueueTypeOK, Enqueue
<1>. QED  BY <1>1, <1>2, <1>3, <1>4, <1>5

(* Every statement on the tables keeps their types.                        *)
LEMMA StoreType ==
    ASSUME StoreTypeOK, NEW t \in Task
    PROVE  /\ InsertTask(t) => StoreTypeOK'
           /\ ClaimTask(t) => StoreTypeOK'
           /\ RequeueTask(t) => StoreTypeOK'
           /\ \A s \in Terminal : Finalize(t, s) => StoreTypeOK'
           /\ \A ts \in SUBSET Task : MarkDispatched(ts) => StoreTypeOK'
           /\ \A types \in SUBSET FindingType :
                 RecordFindings(types) => StoreTypeOK'
           /\ \A s : AbortDependents(s) => StoreTypeOK'
           /\ UNCHANGED storeVars => StoreTypeOK'
<1>. USE DEF StoreTypeOK, Terminal, Claimable
<1>1. InsertTask(t) => StoreTypeOK'
  BY DEF InsertTask
<1>2. ClaimTask(t) => StoreTypeOK'
  BY DEF ClaimTask
<1>3. RequeueTask(t) => StoreTypeOK'
  BY DEF RequeueTask
<1>4. \A s \in Terminal : Finalize(t, s) => StoreTypeOK'
  BY DEF Finalize
<1>5. \A ts \in SUBSET Task : MarkDispatched(ts) => StoreTypeOK'
  BY DEF MarkDispatched
<1>6. \A types \in SUBSET FindingType : RecordFindings(types) => StoreTypeOK'
  BY DEF RecordFindings
<1>7. \A s : AbortDependents(s) => StoreTypeOK'
  BY DEF AbortDependents
<1>8. UNCHANGED storeVars => StoreTypeOK'
  BY DEF storeVars
<1>. QED  BY <1>1, <1>2, <1>3, <1>4, <1>5, <1>6, <1>7, <1>8

(* A handler that moves on without reading the stream.                     *)
LEMMA GotoType ==
    ASSUME TypeInv, NEW h \in Handler, NEW at \in HandlerPc, pc[h] # "idle",
           Goto(h, at), delivered' = delivered,
           failures' \in Nat, crashes' = crashes, early' = early
    PROVE  ProcTypeOK' /\ Refs'
BY DEF TypeInv, TypeOK, ProcTypeOK, QueueTypeOK, Refs, Goto, HandlerPc

(* Every await of _handle leaves the variables in their types.             *)
LEMMA HandlerStepType ==
    ASSUME TypeInv, NEW h \in Handler, HandlerStep(h)
    PROVE  TypeInv'
<1>1. CASE Read(h)
  <2>1. QueueTypeOK' /\ delivered' = delivered + 1
    BY <1>1 DEF Read, Consume, TypeInv, TypeOK, QueueTypeOK
  <2>2. StoreTypeOK'
    BY <1>1 DEF Read, storeVars, TypeInv, TypeOK, StoreTypeOK
  <2>3. ProcTypeOK' /\ Refs'
    BY <1>1, <2>1 DEF Read, TypeInv, TypeOK, ProcTypeOK, Refs, HandlerPc,
                      faultVars, QueueTypeOK
  <2>. QED  BY <2>1, <2>2, <2>3 DEF TypeInv, TypeOK
<1>2. CASE ~Read(h)
  <2>1. pc[h] # "idle"
    BY <1>2 DEF HandlerStep, Claim, ClaimNone, DenyScope, RefuseTool,
                RaiseNoInput, RejectParams, BuildContext, RunOk, Succeed, Retry,
                RetryAt, DeadLetter, RunFails, Resend, Abort, AckDone
  <2>2. Msg(h).task \in Task /\ Msg(h).attempt + 1 \in Nat \ {0}
    BY <2>1, HandlerMessage
  <2>3. /\ QueueTypeOK /\ StoreTypeOK
        /\ failures \in Nat
        /\ StepAt(h) \in Step
    BY <2>2, TasksAssumption DEF TypeInv, TypeOK, ProcTypeOK, StepAt
  <2>4. StoreTypeOK'
    <3>1. CASE Claim(h)
      BY <3>1, <2>2, <2>3, StoreType DEF Claim
    <3>2. CASE DenyScope(h) \/ RefuseTool(h) \/ RejectParams(h) \/ Succeed(h)
               \/ DeadLetter(h)
      BY <3>2, <2>2, <2>3, StoreType DEF DenyScope, RefuseTool, RejectParams,
            Succeed, DeadLetter, Terminal
    <3>3. CASE RunOk(h)
      <4>1. PICK types \in SUBSET Yields[StepAt(h)] : RecordFindings(types)
        BY <3>3 DEF RunOk
      <4>2. types \in SUBSET FindingType
        BY <2>3, PipelineAssumption
      <4>. QED  BY <4>1, <4>2, <2>2, <2>3, StoreType
    <3>4. CASE Retry(h)
      BY <3>4, <2>2, <2>3, StoreType DEF Retry, RetryAt
    <3>5. CASE Abort(h)
      BY <3>5, <2>2, <2>3, StoreType DEF Abort
    <3>6. CASE ClaimNone(h) \/ RaiseNoInput(h) \/ BuildContext(h) \/ Resend(h)
               \/ AckDone(h)
      BY <3>6, <2>2, <2>3, StoreType DEF ClaimNone, RaiseNoInput, BuildContext,
            Resend, AckDone
    <3>. QED  BY <1>2, <3>1, <3>2, <3>3, <3>4, <3>5, <3>6 DEF HandlerStep
  <2>5. QueueTypeOK' /\ delivered' = delivered
    <3>1. CASE Resend(h)
      BY <3>1, <2>2, <2>3, EnqueueEffect DEF Resend
    <3>2. CASE AckDone(h)
      BY <3>2, <2>3 DEF AckDone, Ack, QueueTypeOK
    <3>3. CASE UNCHANGED queueVars
      BY <3>3, <2>3 DEF queueVars, QueueTypeOK
    <3>. QED
      BY <1>2, <3>1, <3>2, <3>3 DEF HandlerStep, Claim, ClaimNone, DenyScope,
            RefuseTool, RaiseNoInput, RejectParams, BuildContext, RunOk, Succeed,
            Retry, RetryAt, DeadLetter, RunFails, Abort
  <2>6. failures' \in Nat /\ crashes' = crashes /\ early' = early
    BY <1>2, <2>3 DEF HandlerStep, faultVars, Claim, ClaimNone, DenyScope,
          RefuseTool, RaiseNoInput, RejectParams, BuildContext, RunOk, Succeed,
          Retry, RetryAt, DeadLetter, RunFails, Resend, Abort, AckDone
  <2>7. \E at \in HandlerPc : Goto(h, at)
    BY <1>2 DEF HandlerStep, HandlerPc, Claim, ClaimNone, DenyScope,
          RefuseTool, RaiseNoInput, RejectParams, BuildContext, RunOk, Succeed,
          Retry, RetryAt, DeadLetter, Resend, Abort, AckDone
  <2>8. ProcTypeOK' /\ Refs'
    BY <2>1, <2>5, <2>6, <2>7, GotoType
  <2>. QED  BY <2>4, <2>5, <2>8 DEF TypeInv, TypeOK
<1>. QED  BY <1>1, <1>2

(* Every await of submit_scan does.                                        *)
LEMMA SubmitType ==
    ASSUME TypeInv, Submit
    PROVE  TypeInv'
<1>1. QueueTypeOK /\ StoreTypeOK /\ Len(Plan) \in Nat /\ 1 \in Nat \ {0}
  BY PipelineAssumption DEF TypeInv, TypeOK
<1>2. CASE InsertScan \/ StartScan
  <2>1. QueueTypeOK' /\ StoreTypeOK'
    BY <1>1, <1>2 DEF InsertScan, StartScan, queueVars, storeVars, QueueTypeOK,
                      StoreTypeOK
  <2>2. ProcTypeOK' /\ Refs'
    BY <1>1, <1>2 DEF InsertScan, StartScan, TypeInv, TypeOK, ProcTypeOK, Refs,
                      queueVars, faultVars
  <2>. QED  BY <2>1, <2>2 DEF TypeInv, TypeOK
<1>3. CASE InsertPlanned
  <2>1. Planned \in Task
    BY <1>3, PlannedType DEF InsertPlanned
  <2>2. QueueTypeOK' /\ StoreTypeOK'
    BY <1>1, <1>3, <2>1, StoreType DEF InsertPlanned, queueVars, QueueTypeOK
  <2>3. ProcTypeOK' /\ Refs'
    BY <1>1, <1>3 DEF InsertPlanned, TypeInv, TypeOK, ProcTypeOK, Refs,
                      queueVars, faultVars
  <2>. QED  BY <2>2, <2>3 DEF TypeInv, TypeOK
<1>4. CASE EnqueuePlanned
  <2>1. Planned \in Task
    BY <1>4, PlannedType DEF EnqueuePlanned, TypeInv, Refs
  <2>2. QueueTypeOK' /\ StoreTypeOK' /\ delivered' = delivered
    BY <1>1, <1>4, <2>1, EnqueueEffect, StoreType DEF EnqueuePlanned
  <2>3. ProcTypeOK' /\ Refs'
    BY <1>1, <1>4, <2>2 DEF EnqueuePlanned, TypeInv, TypeOK, ProcTypeOK, Refs,
                      faultVars
  <2>. QED  BY <2>2, <2>3 DEF TypeInv, TypeOK
<1>5. CASE MarkPlanned
  <2>1. Planned \in Task /\ req.i <= Len(Plan)
    BY <1>5, PlannedType DEF MarkPlanned, TypeInv, Refs
  <2>2. QueueTypeOK' /\ StoreTypeOK'
    BY <1>1, <1>5, <2>1, StoreType DEF MarkPlanned, queueVars, QueueTypeOK
  <2>3. ProcTypeOK' /\ Refs'
    BY <1>1, <1>5, <2>1 DEF MarkPlanned, TypeInv, TypeOK, ProcTypeOK, Refs,
                      queueVars, faultVars
  <2>. QED  BY <2>2, <2>3 DEF TypeInv, TypeOK
<1>. QED  BY <1>2, <1>3, <1>4, <1>5 DEF Submit

(* Every statement of dispatch and finalization does.                      *)
LEMMA MasterLoopType ==
    ASSUME TypeInv, MasterLoop
    PROVE  TypeInv'
<1>1. QueueTypeOK /\ StoreTypeOK /\ 1 \in Nat \ {0}
  BY DEF TypeInv, TypeOK
<1>2. CASE FetchReady \/ SelectScan \/ CountStates \/ CloseScan
  <2>1. QueueTypeOK' /\ StoreTypeOK'
    BY <1>1, <1>2 DEF FetchReady, SelectScan, SelectScanIf, CountStates,
          CloseScan, queueVars, storeVars, QueueTypeOK, StoreTypeOK
  <2>2. ProcTypeOK' /\ Refs'
    <3>1. CASE FetchReady
      BY <3>1 DEF FetchReady, LoopIdle, TypeInv, TypeOK, ProcTypeOK, Refs,
                  queueVars, faultVars
    <3>2. CASE SelectScan
      BY <3>2 DEF SelectScan, SelectScanIf, LoopIdle, TypeInv, TypeOK,
                  ProcTypeOK, Refs, queueVars, faultVars
    <3>3. CASE CountStates
      BY <3>3 DEF CountStates, LoopIdle, TypeInv, TypeOK, ProcTypeOK, Refs,
                  queueVars, faultVars
    <3>4. CASE CloseScan
      BY <3>4 DEF CloseScan, LoopIdle, TypeInv, TypeOK, ProcTypeOK, Refs,
                  queueVars, faultVars
    <3>. QED  BY <1>2, <3>1, <3>2, <3>3, <3>4
  <2>. QED  BY <2>1, <2>2 DEF TypeInv, TypeOK
<1>3. ASSUME NEW t \in Task, EnqueueReady(t)
      PROVE  TypeInv'
  <2>1. QueueTypeOK' /\ StoreTypeOK' /\ delivered' = delivered
    BY <1>1, <1>3, EnqueueEffect, StoreType DEF EnqueueReady
  <2>2. ProcTypeOK' /\ Refs'
    BY <1>3, <2>1 DEF EnqueueReady, TypeInv, TypeOK, ProcTypeOK, Refs, faultVars
  <2>. QED  BY <2>1, <2>2 DEF TypeInv, TypeOK
<1>4. CASE MarkReady
  <2>1. QueueTypeOK' /\ StoreTypeOK'
    BY <1>1, <1>4 DEF MarkReady, MarkDispatched, TypeInv, TypeOK, ProcTypeOK,
                      queueVars, QueueTypeOK, StoreTypeOK
  <2>2. ProcTypeOK' /\ Refs'
    BY <1>4 DEF MarkReady, LoopIdle, TypeInv, TypeOK, ProcTypeOK, Refs,
                queueVars, faultVars
  <2>. QED  BY <2>1, <2>2 DEF TypeInv, TypeOK
<1>. QED  BY <1>2, <1>3, <1>4 DEF MasterLoop

(* Every step of reclaim_stale does.                                       *)
LEMMA ReclaimType ==
    ASSUME TypeInv, NEW r \in Reclaimer,
           Reclaim(r) \/ \E e \in pel : ClaimEarly(r, e)
    PROVE  TypeInv'
<1>1. QueueTypeOK /\ StoreTypeOK
  BY DEF TypeInv, TypeOK
<1>2. ASSUME NEW e \in pel, ClaimAbandoned(r, e) \/ ClaimEarly(r, e)
      PROVE  TypeInv'
  <2>1. QueueTypeOK' /\ StoreTypeOK' /\ e \in 1..delivered
    BY <1>1, <1>2 DEF ClaimAbandoned, ClaimEarly, AutoClaim, queueVars, storeVars,
          QueueTypeOK, StoreTypeOK
  <2>2. /\ moving' = [moving EXCEPT ![r] = [entry |-> e, added |-> FALSE]]
        /\ UNCHANGED <<scan, req, loop, pc, entry, failures, crashes, delivered>>
        /\ early' = early \/ early' = early + 1
    BY <1>2 DEF ClaimAbandoned, ClaimEarly, AutoClaim, queueVars
  <2>3. ProcTypeOK' /\ Refs'
    BY <2>1, <2>2 DEF TypeInv, TypeOK, ProcTypeOK, Refs
  <2>. QED  BY <2>1, <2>3 DEF TypeInv, TypeOK
<1>3. CASE ReAdd(r)
  <2> DEFINE e == moving[r].entry
  <2>1. e \in 1..delivered
    BY <1>3 DEF ReAdd, TypeInv, TypeOK, QueueTypeOK, Refs
  <2>2. log[e].task \in Task /\ log[e].attempt + 1 \in Nat \ {0}
    BY <2>1, MessageType
  <2>3. QueueTypeOK' /\ StoreTypeOK' /\ delivered' = delivered
    BY <1>1, <1>3, <2>2, EnqueueEffect, StoreType DEF ReAdd
  <2>4. ProcTypeOK' /\ Refs'
    BY <1>3, <2>1, <2>3 DEF ReAdd, TypeInv, TypeOK, ProcTypeOK, Refs, faultVars
  <2>. QED  BY <2>3, <2>4 DEF TypeInv, TypeOK
<1>4. CASE AckMoved(r)
  <2>1. QueueTypeOK' /\ StoreTypeOK' /\ delivered' = delivered
    BY <1>1, <1>4 DEF AckMoved, Ack, storeVars, QueueTypeOK, StoreTypeOK
  <2>2. ProcTypeOK' /\ Refs'
    BY <1>1, <1>4, <2>1 DEF AckMoved, NoMove, TypeInv, TypeOK, ProcTypeOK, Refs,
          faultVars, QueueTypeOK
  <2>. QED  BY <2>1, <2>2 DEF TypeInv, TypeOK
<1>. QED  BY <1>2, <1>3, <1>4 DEF Reclaim

(* Every crash and error does: they only reset what a process remembers.   *)
LEMMA FaultsType ==
    ASSUME TypeInv, Faults
    PROVE  TypeInv'
<1>1. /\ QueueTypeOK' /\ StoreTypeOK'
      /\ delivered' = delivered /\ delivered \in Nat
  BY DEF TypeInv, TypeOK, QueueTypeOK, StoreTypeOK, Faults, Fault, HandlerError,
         WorkerCrash, ReclaimError, LoopError, SubmitError, MasterCrash,
         queueVars, storeVars
<1>2. ProcTypeOK' /\ Refs'
  <2>. USE <1>1 DEF TypeInv, TypeOK, ProcTypeOK, Refs, Fault
  <2>1. CASE \E h \in Handler : HandlerError(h)
    BY <2>1 DEF HandlerError, HandlerPc
  <2>2. CASE \E w \in Worker : WorkerCrash(w)
    BY <2>2 DEF WorkerCrash, HandlerPc, NoMove, Reclaimer
  <2>3. CASE \E r \in Reclaimer : ReclaimError(r)
    BY <2>3 DEF ReclaimError, NoMove
  <2>4. CASE LoopError
    BY <2>4 DEF LoopError, LoopIdle
  <2>5. CASE SubmitError
    BY <2>5 DEF SubmitError
  <2>6. CASE MasterCrash
    BY <2>6 DEF MasterCrash, LoopIdle, NoMove, Reclaimer
  <2>. QED  BY <2>1, <2>2, <2>3, <2>4, <2>5, <2>6 DEF Faults
<1>. QED  BY <1>1, <1>2 DEF TypeInv, TypeOK

(* The empty tables and stream have their types.                           *)
LEMMA TypeInit == Init => TypeInv
<1>. SUFFICES ASSUME Init PROVE TypeInv
  OBVIOUS
<1>1. QueueTypeOK /\ StoreTypeOK
  BY DEF Init, QueueInit, StoreInit, QueueTypeOK, StoreTypeOK
<1>2. Len(Plan) \in Nat
  BY PipelineAssumption
<1>3. ProcTypeOK /\ Refs
  BY <1>2 DEF Init, QueueInit, ProcTypeOK, Refs, LoopIdle, NoMove, HandlerPc
<1>. QED  BY <1>1, <1>3 DEF TypeInv, TypeOK

(* The type invariant is inductive.                                        *)
LEMMA TypeNext == TypeInv /\ [Next]_vars => TypeInv'
<1>. SUFFICES ASSUME TypeInv, [Next]_vars PROVE TypeInv'
  OBVIOUS
<1>1. CASE Next
  BY <1>1, SubmitType, MasterLoopType, ReclaimType, HandlerStepType, FaultsType
     DEF Next
<1>2. CASE UNCHANGED vars
  BY <1>2 DEF vars, queueVars, storeVars, procVars, faultVars, TypeInv, TypeOK,
         QueueTypeOK, StoreTypeOK, ProcTypeOK, Refs
<1>. QED  BY <1>1, <1>2

(* Every variable keeps its type, and every entry a process holds is a     *)
(* delivered one, for every plan, worker set and bound.                    *)
THEOREM TypeCorrect == Spec => []TypeOK
<1>1. TypeInv => TypeOK
  BY DEF TypeInv
<1>. QED  BY <1>1, TypeInit, TypeNext, PTL DEF Spec

-----------------------------------------------------------------------------
(* Durability.  NoTaskLost is not inductive: an acknowledgement is harmless *)
(* only because nobody else relies on the entry it removes.  The invariant *)
(* therefore says who holds which entry, and that a row exists before its  *)
(* first message and is marked after it.                                   *)

(* Nobody shares an entry, and an entry somebody works on is pending.      *)
Exclusive ==
    /\ \A h \in Handler : entry[h] # 0 => entry[h] \in pel
    /\ \A r \in Reclaimer : moving[r].entry # 0 => moving[r].entry \in pel
    /\ \A g, h \in Handler : entry[g] # 0 /\ entry[g] = entry[h] => g = h
    /\ \A q, r \in Reclaimer :
          moving[q].entry # 0 /\ moving[q].entry = moving[r].entry => q = r
    /\ \A h \in Handler, r \in Reclaimer :
          entry[h] # 0 => entry[h] # moving[r].entry

Recorded ==
    /\ Sent \subseteq Inserted
    /\ req.at \in {"enqueue", "mark"} => Planned \in Inserted
    /\ loop.todo \subseteq Inserted
    /\ DispatchedIsSent
    /\ req.at = "mark" => Planned \in Sent
    /\ loop.sent \subseteq Sent

DurableInv ==
    /\ TypeInv
    /\ Recorded
    /\ early = 0 => Exclusive
    /\ NoTaskLost

(* A step that adds a message for t may use up entries of t, and no other. *)
LEMMA EnqueueKeepsTasks ==
    ASSUME DurableInv, early = 0, NEW t \in Task, NEW n \in Nat \ {0},
           Enqueue(t, n), state' = state,
           \A h \in Handler :
               /\ entry'[h] = entry[h]
               /\ pc'[h] # pc[h] => log[entry[h]].task = t,
           \A r \in Reclaimer :
               /\ moving'[r].entry = moving[r].entry
               /\ moving'[r].added # moving[r].added =>
                      log[moving[r].entry].task = t
    PROVE  NoTaskLost'
<1>0. PICK new : new = Len(log) + 1
  OBVIOUS
<1>1. /\ TypeInv /\ QueueTypeOK /\ Len(log) \in Nat
      /\ delivered \in 0..Len(log) /\ NoTaskLost
  BY DEF DurableInv, TypeInv, TypeOK, QueueTypeOK
<1>2. /\ delivered' = delivered /\ pel' = pel
      /\ DOMAIN log' = DOMAIN log \cup {new}
      /\ \A e \in DOMAIN log : log'[e] = log[e]
      /\ log'[new] = [task |-> t, attempt |-> n]
  BY <1>0, <1>1, EnqueueEffect
<1>3. /\ \A h \in Handler : entry[h] \in 0..delivered
      /\ \A r \in Reclaimer : moving[r].entry \in 0..delivered
  BY <1>1 DEF TypeInv, Refs
<1>. SUFFICES ASSUME NEW u \in Sent', state'[u] \in Claimable
              PROVE  \E e \in DOMAIN log' : log'[e].task = u /\ Live(e)'
  BY DEF NoTaskLost
<1>4. CASE u = t
  <2>1. new \in DOMAIN log' /\ log'[new].task = u
    BY <1>2, <1>4
  <2>2. Live(new)'
    BY <1>0, <1>1, <1>2, <1>3, <2>1 DEF Live, Outstanding
  <2>. QED  BY <2>1, <2>2
<1>5. CASE u # t
  <2>1. u \in Sent
    BY <1>2, <1>5 DEF Sent
  <2>2. PICK e \in DOMAIN log : log[e].task = u /\ Live(e)
    BY <1>1, <2>1 DEF NoTaskLost
  <2>3. Outstanding(e)'
    BY <1>2, <2>2 DEF Live, Outstanding
  <2>4. \A h \in Handler : entry'[h] = e => pc'[h] \notin {"abort", "ack"}
    BY <1>5, <2>2 DEF Live
  <2>5. \A r \in Reclaimer : moving'[r].entry = e => ~moving'[r].added
    BY <1>5, <2>2 DEF Live
  <2>6. Live(e)' /\ log'[e].task = u
    BY <1>2, <2>2, <2>3, <2>4, <2>5 DEF Live
  <2>7. e \in DOMAIN log'
    BY <1>2, <2>2
  <2>. QED  BY <2>6, <2>7
<1>. QED  BY <1>4, <1>5

(* A step that adds no message, opens no row, and spares the live entries  *)
(* of the rows that stay open.                                             *)
LEMMA SpareKeepsTasks ==
    ASSUME NoTaskLost, early' = 0 => early = 0, log' = log,
           \A t \in Sent : state'[t] \in Claimable => state[t] \in Claimable,
           \A e \in DOMAIN log :
               Live(e) /\ state'[log[e].task] \in Claimable => Live(e)'
    PROVE  NoTaskLost'
<1>. SUFFICES ASSUME early' = 0, NEW t \in Sent', state'[t] \in Claimable
              PROVE  \E e \in DOMAIN log' : log'[e].task = t /\ Live(e)'
  BY DEF NoTaskLost
<1>1. t \in Sent /\ state[t] \in Claimable
  BY DEF Sent
<1>2. PICK e \in DOMAIN log : log[e].task = t /\ Live(e)
  BY <1>1 DEF NoTaskLost
<1>. QED  BY <1>2

(* An XADD adds its task to the sent ones; what leaves the stream alone    *)
(* leaves them alone.                                                      *)
LEMMA SentEffect ==
    ASSUME TypeInv
    PROVE  /\ log' = log => Sent' = Sent
           /\ \A t \in Task, n \in Nat \ {0} :
                 Enqueue(t, n) => Sent' = Sent \cup {t}
<1>1. log' = log => Sent' = Sent
  BY DEF Sent
<1>2. ASSUME NEW t \in Task, NEW n \in Nat \ {0}, Enqueue(t, n)
      PROVE  Sent' = Sent \cup {t}
  <2>1. PICK new : new = Len(log) + 1
    OBVIOUS
  <2>2. QueueTypeOK
    BY DEF TypeInv, TypeOK
  <2>3. /\ DOMAIN log' = DOMAIN log \cup {new}
        /\ \A e \in DOMAIN log : log'[e] = log[e]
        /\ log'[new] = [task |-> t, attempt |-> n]
    BY <1>2, <2>1, <2>2, EnqueueEffect
  <2>4. log'[new].task = t
    BY <2>3
  <2>. QED  BY <2>3, <2>4 DEF Sent
<1>. QED  BY <1>1, <1>2

(* No statement removes a row.                                             *)
LEMMA RowsStay ==
    ASSUME TypeInv
    PROVE  /\ \A t \in Task : InsertTask(t) => Inserted' = Inserted \cup {t}
           /\ \A t \in Task : ClaimTask(t) => Inserted \subseteq Inserted'
           /\ \A t \in Task : RequeueTask(t) => Inserted \subseteq Inserted'
           /\ \A t \in Task : \A s \in Terminal :
                 Finalize(t, s) => Inserted \subseteq Inserted'
           /\ \A s : AbortDependents(s) => Inserted \subseteq Inserted'
           /\ state' = state => Inserted' = Inserted
<1>. USE DEF TypeInv, TypeOK, StoreTypeOK, Inserted, Terminal
<1>1. \A t \in Task : InsertTask(t) => Inserted' = Inserted \cup {t}
  BY DEF InsertTask
<1>2. \A t \in Task : ClaimTask(t) => Inserted \subseteq Inserted'
  BY DEF ClaimTask
<1>3. \A t \in Task : RequeueTask(t) => Inserted \subseteq Inserted'
  BY DEF RequeueTask
<1>4. \A t \in Task : \A s \in Terminal :
          Finalize(t, s) => Inserted \subseteq Inserted'
  BY DEF Finalize
<1>5. \A s : AbortDependents(s) => Inserted \subseteq Inserted'
  BY DEF AbortDependents
<1>6. state' = state => Inserted' = Inserted
  OBVIOUS
<1>. QED  BY <1>1, <1>2, <1>3, <1>4, <1>5, <1>6

(* What every step of a handler past its read leaves alone, and the task   *)
(* it may add a message for.                                               *)
LEMMA HandlerFrame ==
    ASSUME TypeInv, NEW h \in Handler, HandlerStep(h), ~Read(h)
    PROVE  /\ pc[h] # "idle"
           /\ UNCHANGED <<req, loop, moving, dispatched, early>>
           /\ \E at \in HandlerPc : Goto(h, at)
           /\ Inserted \subseteq Inserted'
           /\ UNCHANGED queueVars \/ Resend(h) \/ AckDone(h)
<1>1. /\ pc[h] # "idle"
      /\ \E at \in HandlerPc : Goto(h, at)
  BY DEF HandlerStep, HandlerPc, Claim, ClaimNone, DenyScope, RefuseTool,
         RaiseNoInput, RejectParams, BuildContext, RunOk, Succeed, Retry, RetryAt,
         DeadLetter, RunFails, Resend, Abort, AckDone
<1>2. Msg(h).task \in Task
  BY <1>1, HandlerMessage
<1>3. Inserted \subseteq Inserted'
  <2>1. CASE Claim(h) \/ Retry(h) \/ Abort(h)
    BY <1>2, <2>1, RowsStay DEF Claim, Retry, RetryAt, Abort
  <2>2. CASE DenyScope(h) \/ RefuseTool(h) \/ RejectParams(h) \/ Succeed(h)
             \/ DeadLetter(h)
    BY <1>2, <2>2, RowsStay DEF DenyScope, RefuseTool, RejectParams, Succeed,
          DeadLetter, Terminal
  <2>3. CASE ClaimNone(h) \/ RaiseNoInput(h) \/ BuildContext(h) \/ RunOk(h)
             \/ Resend(h) \/ AckDone(h)
    BY <2>3, RowsStay DEF ClaimNone, RaiseNoInput, BuildContext, RunOk, Resend,
          AckDone, RecordFindings, storeVars
  <2>. QED  BY <2>1, <2>2, <2>3 DEF HandlerStep
<1>4. UNCHANGED <<req, loop, moving>>
  BY <1>1 DEF Goto
<1>5. UNCHANGED <<dispatched, early>>
  BY DEF HandlerStep, Claim, ClaimNone, DenyScope, RefuseTool, RaiseNoInput,
         RejectParams, BuildContext, RunOk, Succeed, Retry, RetryAt, DeadLetter,
         RunFails, Resend, Abort, AckDone, faultVars, storeVars, ClaimTask,
         Finalize, RequeueTask, RecordFindings, AbortDependents
<1>6. UNCHANGED queueVars \/ Resend(h) \/ AckDone(h)
  BY DEF HandlerStep, Claim, ClaimNone, DenyScope, RefuseTool, RaiseNoInput,
         RejectParams, BuildContext, RunOk, Succeed, Retry, RetryAt, DeadLetter,
         RunFails, Abort
<1>. QED  BY <1>1, <1>3, <1>4, <1>5, <1>6

(* Every step keeps who holds which entry and row consistent.              *)
LEMMA RecordedNext ==
    ASSUME TypeInv, Recorded, Next
    PROVE  Recorded'
<1>0. 1 \in Nat \ {0}
  OBVIOUS
<1>1. CASE InsertScan \/ StartScan
  BY <1>1, SentEffect, RowsStay DEF InsertScan, StartScan, Recorded,
        DispatchedIsSent, queueVars, storeVars, TypeInv, TypeOK, ProcTypeOK
<1>2. CASE InsertPlanned
  <2>1. Planned \in Task
    BY <1>2, PlannedType DEF InsertPlanned
  <2>2. Sent' = Sent /\ Inserted' = Inserted \cup {Planned}
    BY <1>2, <2>1, SentEffect, RowsStay DEF InsertPlanned, queueVars
  <2>. QED  BY <1>2, <2>2 DEF InsertPlanned, InsertTask, Recorded,
               DispatchedIsSent, Planned, TypeInv, TypeOK, ProcTypeOK
<1>3. CASE EnqueuePlanned
  <2>1. Planned \in Task
    BY <1>3, PlannedType DEF EnqueuePlanned, TypeInv, Refs
  <2>2. Sent' = Sent \cup {Planned} /\ Inserted' = Inserted
    BY <1>0, <1>3, <2>1, SentEffect, RowsStay DEF EnqueuePlanned, storeVars
  <2>. QED  BY <1>3, <2>2 DEF EnqueuePlanned, Recorded, DispatchedIsSent,
               Planned, storeVars, TypeInv, TypeOK, ProcTypeOK
<1>4. CASE MarkPlanned
  <2>2. Sent' = Sent /\ Inserted' = Inserted
    BY <1>4, SentEffect, RowsStay DEF MarkPlanned, MarkDispatched, queueVars
  <2>. QED  BY <1>4, <2>2 DEF MarkPlanned, MarkDispatched, Recorded,
               DispatchedIsSent, Planned, TypeInv, TypeOK, ProcTypeOK
<1>5. CASE FetchReady
  <2>1. Sent' = Sent /\ Inserted' = Inserted /\ dispatched' = dispatched
    BY <1>5, SentEffect, RowsStay DEF FetchReady, queueVars, storeVars
  <2>2. loop'.todo \subseteq Inserted /\ loop'.sent = {} /\ req' = req
    BY <1>5 DEF FetchReady, LoopIdle, Ready, Inserted
  <2>. QED  BY <2>1, <2>2 DEF Recorded, DispatchedIsSent, Planned
<1>6. ASSUME NEW t \in Task, EnqueueReady(t)
      PROVE  Recorded'
  <2>1. Sent' = Sent \cup {t} /\ Inserted' = Inserted
    BY <1>0, <1>6, SentEffect, RowsStay DEF EnqueueReady, storeVars
  <2>. QED  BY <1>6, <2>1 DEF EnqueueReady, Recorded, DispatchedIsSent, Planned,
               storeVars, TypeInv, TypeOK, ProcTypeOK
<1>7. CASE MarkReady
  <2>1. Sent' = Sent /\ Inserted' = Inserted
    BY <1>7, SentEffect, RowsStay DEF MarkReady, MarkDispatched, queueVars
  <2>. QED  BY <1>7, <2>1 DEF MarkReady, MarkDispatched, LoopIdle, Recorded,
               DispatchedIsSent, Planned
<1>8. CASE SelectScan \/ CountStates \/ CloseScan
  <2>1. Sent' = Sent /\ Inserted' = Inserted
    BY <1>8, SentEffect, RowsStay DEF SelectScan, SelectScanIf, CountStates,
          CloseScan, queueVars, storeVars
  <2>2. UNCHANGED <<req, dispatched>>
    BY <1>8 DEF SelectScan, SelectScanIf, CountStates, CloseScan, storeVars
  <2>3. loop'.todo \subseteq loop.todo /\ loop'.sent \subseteq loop.sent
    <3>1. CASE SelectScan
      BY <3>1 DEF SelectScan, SelectScanIf, TypeInv, TypeOK, ProcTypeOK
    <3>2. CASE CountStates
      BY <3>2 DEF CountStates, LoopIdle, TypeInv, TypeOK, ProcTypeOK
    <3>3. CASE CloseScan
      BY <3>3 DEF CloseScan, LoopIdle
    <3>. QED  BY <1>8, <3>1, <3>2, <3>3
  <2>. QED  BY <2>1, <2>2, <2>3 DEF Recorded, DispatchedIsSent, Planned
<1>9. ASSUME NEW r \in Reclaimer, NEW e \in pel,
             ClaimAbandoned(r, e) \/ ClaimEarly(r, e)
      PROVE  Recorded'
  <2>1. Sent' = Sent /\ Inserted' = Inserted /\ UNCHANGED <<req, loop, dispatched>>
    BY <1>9, SentEffect, RowsStay DEF ClaimAbandoned, ClaimEarly, AutoClaim,
          queueVars, storeVars
  <2>. QED  BY <2>1 DEF Recorded, DispatchedIsSent, Planned
<1>10. ASSUME NEW r \in Reclaimer, ReAdd(r)
       PROVE  Recorded'
  <2> DEFINE e == moving[r].entry
  <2>1. e \in 1..delivered
    BY <1>10 DEF ReAdd, TypeInv, TypeOK, QueueTypeOK, Refs
  <2>2. /\ log[e].task \in Task /\ log[e].attempt + 1 \in Nat \ {0}
        /\ log[e].task \in Sent
    BY <2>1, MessageType DEF Sent
  <2>3. Sent' = Sent \cup {log[e].task} /\ Inserted' = Inserted
    BY <1>10, <2>2, SentEffect, RowsStay DEF ReAdd, storeVars
  <2>4. UNCHANGED <<req, loop, dispatched>>
    BY <1>10 DEF ReAdd, storeVars
  <2>. QED  BY <2>2, <2>3, <2>4 DEF Recorded, DispatchedIsSent, Planned
<1>11. ASSUME NEW r \in Reclaimer, AckMoved(r)
       PROVE  Recorded'
  <2>1. Sent' = Sent /\ Inserted' = Inserted /\ UNCHANGED <<req, loop, dispatched>>
    BY <1>11, SentEffect, RowsStay DEF AckMoved, Ack, storeVars
  <2>. QED  BY <2>1 DEF Recorded, DispatchedIsSent, Planned
<1>12. ASSUME NEW h \in Handler, Read(h)
       PROVE  Recorded'
  <2>1. Sent' = Sent /\ Inserted' = Inserted /\ UNCHANGED <<req, loop, dispatched>>
    BY <1>12, SentEffect, RowsStay DEF Read, Consume, storeVars
  <2>. QED  BY <2>1 DEF Recorded, DispatchedIsSent, Planned
<1>13. ASSUME NEW h \in Handler, HandlerStep(h), ~Read(h)
       PROVE  Recorded'
  <2>1. /\ pc[h] # "idle" /\ Inserted \subseteq Inserted'
        /\ UNCHANGED <<req, loop, dispatched>>
        /\ UNCHANGED queueVars \/ Resend(h) \/ AckDone(h)
    BY <1>13, HandlerFrame
  <2>2. /\ Msg(h).task \in Task /\ Msg(h).attempt + 1 \in Nat \ {0}
        /\ Msg(h).task \in Sent
    BY <2>1, HandlerMessage DEF Sent, Msg
  <2>3. Sent' = Sent
    <3>1. CASE Resend(h)
      BY <2>2, <3>1, SentEffect DEF Resend
    <3>2. CASE UNCHANGED queueVars \/ AckDone(h)
      BY <3>2, SentEffect DEF AckDone, Ack, queueVars
    <3>. QED  BY <2>1, <3>1, <3>2
  <2>. QED  BY <2>1, <2>3 DEF Recorded, DispatchedIsSent, Planned
<1>14. CASE Faults
  <2>1. Sent' = Sent /\ Inserted' = Inserted /\ dispatched' = dispatched
    BY <1>14, SentEffect, RowsStay DEF Faults, HandlerError, WorkerCrash,
          ReclaimError, LoopError, SubmitError, MasterCrash, Fault, queueVars,
          storeVars
  <2>2. /\ loop'.todo \subseteq loop.todo /\ loop'.sent \subseteq loop.sent
        /\ req'.at \in {"enqueue", "mark"} => req' = req
    BY <1>14 DEF Faults, HandlerError, WorkerCrash, ReclaimError, LoopError,
          SubmitError, MasterCrash, LoopIdle, TypeInv, TypeOK, ProcTypeOK
  <2>. QED  BY <2>1, <2>2 DEF Recorded, DispatchedIsSent, Planned
<1>. QED  BY <1>1, <1>2, <1>3, <1>4, <1>5, <1>6, <1>7, <1>8, <1>9, <1>10, <1>11,
             <1>12, <1>13, <1>14
          DEF Next, Submit, MasterLoop, Reclaim

-----------------------------------------------------------------------------
(* Nothing but an early reclaim moves early, so early = 0 has always held. *)
LEMMA EarlyGrows ==
    ASSUME TypeInv, Next, early' = 0
    PROVE  early = 0
<1>1. CASE \E r \in Reclaimer, e \in pel : ClaimEarly(r, e)
  BY <1>1 DEF ClaimEarly, TypeInv, TypeOK, ProcTypeOK
<1>2. CASE Submit
  BY <1>2 DEF Submit, InsertScan, InsertPlanned, EnqueuePlanned, MarkPlanned,
              StartScan, faultVars
<1>3. CASE MasterLoop
  BY <1>3 DEF MasterLoop, FetchReady, EnqueueReady, MarkReady, SelectScan,
              SelectScanIf, CountStates, CloseScan, faultVars
<1>4. CASE \E r \in Reclaimer : Reclaim(r)
  BY <1>4 DEF Reclaim, ClaimAbandoned, ReAdd, AckMoved, faultVars
<1>5. ASSUME NEW h \in Handler, HandlerStep(h) PROVE early = 0
  <2>1. CASE Read(h)
    BY <2>1 DEF Read, faultVars
  <2>2. CASE ~Read(h)
    BY <1>5, <2>2, HandlerFrame
  <2>. QED  BY <2>1, <2>2
<1>6. CASE Faults
  BY <1>6 DEF Faults, HandlerError, WorkerCrash, ReclaimError, LoopError,
              SubmitError, MasterCrash, Fault
<1>. QED  BY <1>1, <1>2, <1>3, <1>4, <1>5, <1>6 DEF Next

(* Letting go of entries keeps the others exclusive.                       *)
LEMMA LettingGo ==
    ASSUME Exclusive, pel' = pel,
           \A h \in Handler : entry'[h] \in {0, entry[h]},
           \A r \in Reclaimer : moving'[r].entry \in {0, moving[r].entry}
    PROVE  Exclusive'
BY DEF Exclusive

(* Without an early reclaim no step puts one pending entry in two hands.   *)
LEMMA ExclusiveNext ==
    ASSUME TypeInv, early = 0 => Exclusive, Next, early' = 0
    PROVE  Exclusive'
<1>1. early = 0 /\ Exclusive
  BY EarlyGrows
<1>2. CASE Submit
  BY <1>1, <1>2, LettingGo DEF Submit, InsertScan, InsertPlanned,
     EnqueuePlanned, MarkPlanned, StartScan, queueVars, Enqueue
<1>3. CASE MasterLoop
  BY <1>1, <1>3, LettingGo DEF MasterLoop, FetchReady, EnqueueReady, MarkReady,
     SelectScan, SelectScanIf, CountStates, CloseScan, queueVars, Enqueue
<1>4. ASSUME NEW r \in Reclaimer, NEW e \in pel, ClaimEarly(r, e)
      PROVE  FALSE
  BY <1>1, <1>4 DEF ClaimEarly
<1>5. ASSUME NEW r \in Reclaimer, NEW e \in pel, ClaimAbandoned(r, e)
      PROVE  Exclusive'
  <2>1. /\ pel' = pel /\ entry' = entry
        /\ moving' = [moving EXCEPT ![r] = [entry |-> e, added |-> FALSE]]
        /\ \A h \in Handler : entry[h] # e
        /\ \A q \in Reclaimer : moving[q].entry # e
    BY <1>5 DEF ClaimAbandoned, AutoClaim, InHands, queueVars
  <2>2. /\ moving'[r].entry = e
        /\ \A q \in Reclaimer : q # r => moving'[q] = moving[q]
    BY <2>1 DEF TypeInv, TypeOK, ProcTypeOK
  <2>. QED  BY <1>1, <2>1, <2>2 DEF Exclusive
<1>6. ASSUME NEW r \in Reclaimer, ReAdd(r) PROVE Exclusive'
  <2>1. \A q \in Reclaimer : moving'[q].entry = moving[q].entry
    BY <1>6 DEF ReAdd, TypeInv, TypeOK, ProcTypeOK
  <2>. QED  BY <1>1, <1>6, <2>1, LettingGo DEF ReAdd, Enqueue
<1>7. ASSUME NEW r \in Reclaimer, AckMoved(r) PROVE Exclusive'
  <2>1. /\ pel' = pel \ {moving[r].entry} /\ entry' = entry
        /\ moving[r].entry # 0
        /\ moving' = [moving EXCEPT ![r] = NoMove]
    BY <1>7 DEF AckMoved, Ack, TypeInv, Refs
  <2>2. /\ moving'[r].entry = 0
        /\ \A q \in Reclaimer : q # r => moving'[q] = moving[q]
    BY <2>1 DEF NoMove, TypeInv, TypeOK, ProcTypeOK
  <2>. QED  BY <1>1, <2>1, <2>2 DEF Exclusive
<1>8. ASSUME NEW h \in Handler, Read(h) PROVE Exclusive'
  <2>1. PICK new : new = delivered + 1
    OBVIOUS
  <2>2. /\ pel' = pel \cup {new} /\ moving' = moving
        /\ entry' = [entry EXCEPT ![h] = new]
    BY <1>8, <2>1 DEF Read, Consume
  <2>3. /\ new # 0
        /\ \A g \in Handler : entry[g] # new
        /\ \A r \in Reclaimer : moving[r].entry # new
    BY <2>1 DEF TypeInv, TypeOK, QueueTypeOK, Refs
  <2>4. /\ entry'[h] = new
        /\ \A g \in Handler : g # h => entry'[g] = entry[g]
    BY <2>2 DEF TypeInv, TypeOK, ProcTypeOK
  <2>. QED  BY <1>1, <2>2, <2>3, <2>4 DEF Exclusive
<1>9. ASSUME NEW h \in Handler, AckDone(h) PROVE Exclusive'
  <2>1. /\ pel' = pel \ {entry[h]} /\ moving' = moving
        /\ entry' = [entry EXCEPT ![h] = 0]
    BY <1>9 DEF AckDone, Ack, Goto
  <2>2. entry[h] # 0
    BY <1>9 DEF AckDone, TypeInv, Refs
  <2>3. /\ entry'[h] = 0
        /\ \A g \in Handler : g # h => entry'[g] = entry[g]
    BY <2>1 DEF TypeInv, TypeOK, ProcTypeOK
  <2>. QED  BY <1>1, <2>1, <2>2, <2>3 DEF Exclusive
<1>10. ASSUME NEW h \in Handler, HandlerStep(h), ~Read(h), ~AckDone(h)
       PROVE  Exclusive'
  <2>1. moving' = moving /\ pel' = pel /\ \E at \in HandlerPc : Goto(h, at)
    BY <1>10, HandlerFrame DEF Resend, Enqueue, queueVars
  <2>2. \A g \in Handler : entry'[g] \in {0, entry[g]}
    BY <2>1 DEF Goto, TypeInv, TypeOK, ProcTypeOK
  <2>. QED  BY <1>1, <2>1, <2>2, LettingGo
<1>11. CASE Faults
  <2>1. pel' = pel
    BY <1>11 DEF Faults, HandlerError, WorkerCrash, ReclaimError, LoopError,
                 SubmitError, MasterCrash, Fault, queueVars
  <2>2. \A h \in Handler : entry'[h] \in {0, entry[h]}
    BY <1>11 DEF Faults, HandlerError, WorkerCrash, ReclaimError, LoopError,
                 SubmitError, MasterCrash, TypeInv, TypeOK, ProcTypeOK
  <2>3. \A r \in Reclaimer : moving'[r].entry \in {0, moving[r].entry}
    BY <1>11 DEF Faults, HandlerError, WorkerCrash, ReclaimError, LoopError,
                 SubmitError, MasterCrash, NoMove, Reclaimer, TypeInv, TypeOK,
                 ProcTypeOK
  <2>. QED  BY <1>1, <2>1, <2>2, <2>3, LettingGo
<1>. QED  BY <1>2, <1>3, <1>4, <1>5, <1>6, <1>7, <1>8, <1>9, <1>10, <1>11
          DEF Next, Reclaim

(* What was sent are tasks.                                                *)
LEMMA SentType ==
    ASSUME QueueTypeOK
    PROVE  Sent \subseteq Task
<1>. SUFFICES ASSUME NEW e \in DOMAIN log PROVE log[e].task \in Task
  BY DEF Sent
<1>1. log \in Seq(Message) /\ DOMAIN log = 1..Len(log)
  BY DEF QueueTypeOK
<1>2. log[e] \in Message
  BY <1>1
<1>. QED  BY <1>2 DEF Message

(* The steps of a handler.  h's own entry stops being live only when its   *)
(* task has an outcome or its next attempt has been added.                 *)
LEMMA HandlerKeepsTasks ==
    ASSUME DurableInv, early = 0 => Exclusive, early = 0, NEW h \in Handler,
           HandlerStep(h)
    PROVE  NoTaskLost'
<1>1. /\ TypeInv /\ QueueTypeOK /\ StoreTypeOK /\ NoTaskLost /\ Exclusive
      /\ delivered \in Nat /\ pc \in [Handler -> HandlerPc]
      /\ entry \in [Handler -> Nat]
  BY DEF DurableInv, TypeInv, TypeOK, QueueTypeOK, ProcTypeOK
<1>2. CASE Read(h)
  <2>1. PICK new : new = delivered + 1
    OBVIOUS
  <2>2. /\ delivered' = new /\ pel' = pel \cup {new} /\ log' = log
        /\ state' = state /\ moving' = moving /\ early' = early
        /\ entry' = [entry EXCEPT ![h] = new]
        /\ pc' = [pc EXCEPT ![h] = "waiting"]
    BY <1>2, <2>1 DEF Read, Consume, storeVars, faultVars
  <2>3. ASSUME NEW e \in DOMAIN log, Live(e) PROVE Live(e)'
    <3>1. e \in Nat
      BY <1>1 DEF QueueTypeOK
    <3>2. Outstanding(e)'
      BY <1>1, <2>1, <2>2, <2>3, <3>1 DEF Live, Outstanding
    <3>3. \A g \in Handler : entry'[g] = e => pc'[g] \notin {"abort", "ack"}
      BY <1>1, <2>2, <2>3 DEF Live
    <3>. QED  BY <2>2, <2>3, <3>2, <3>3 DEF Live
  <2>. QED  BY <1>1, <2>2, <2>3, SpareKeepsTasks
<1>3. CASE ~Read(h)
  <2>1. /\ pc[h] # "idle" /\ UNCHANGED <<moving, early>>
        /\ \E at \in HandlerPc : Goto(h, at)
    BY <1>1, <1>3, HandlerFrame
  <2>2. PICK t \in Task : t = Msg(h).task /\ t = log[entry[h]].task
    BY <1>1, <2>1, HandlerMessage DEF Msg
  <2>3. Msg(h).attempt + 1 \in Nat \ {0} /\ entry[h] \in DOMAIN log
        /\ entry[h] # 0
    BY <1>1, <2>1, HandlerMessage
  <2>4. /\ \A g \in Handler : g # h => pc'[g] = pc[g] /\ entry'[g] = entry[g]
        /\ entry'[h] \in {0, entry[h]}
    BY <1>1, <2>1 DEF Goto
  <2>5. CASE Resend(h)
    <3>1. Enqueue(t, Msg(h).attempt + 1) /\ state' = state /\ entry' = entry
      BY <2>2, <2>5 DEF Resend, Goto, storeVars
    <3>2. \A g \in Handler : /\ entry'[g] = entry[g]
                             /\ pc'[g] # pc[g] => log[entry[g]].task = t
      BY <2>2, <2>4, <3>1
    <3>3. \A r \in Reclaimer :
              /\ moving'[r].entry = moving[r].entry
              /\ moving'[r].added # moving[r].added =>
                     log[moving[r].entry].task = t
      BY <2>1
    <3>. QED  BY <2>3, <3>1, <3>2, <3>3, EnqueueKeepsTasks
  <2>6. CASE Retry(h)
    <3>1. /\ UNCHANGED <<log, delivered, pel>>
          /\ state' = [state EXCEPT ![t] = "queued"]
          /\ entry' = entry /\ pc' = [pc EXCEPT ![h] = "backoff"]
      BY <2>2, <2>6 DEF Retry, RetryAt, RunFails, RequeueTask, Goto, queueVars
    <3>2. ASSUME NEW e \in DOMAIN log, Live(e) \/ e = entry[h]
          PROVE  Live(e)'
      <4>1. Outstanding(e)'
        BY <1>1, <2>3, <3>1, <3>2 DEF Live, Outstanding, Exclusive
      <4>2. \A g \in Handler : entry'[g] = e => pc'[g] \notin {"abort", "ack"}
        BY <1>1, <2>3, <3>1, <3>2 DEF Live, Exclusive
      <4>3. \A r \in Reclaimer : moving'[r].entry = e => ~moving'[r].added
        BY <1>1, <2>1, <2>3, <3>2 DEF Live, Exclusive
      <4>. QED  BY <4>1, <4>2, <4>3 DEF Live
    <3>3. ASSUME NEW u \in Sent', state'[u] \in Claimable
          PROVE  \E e \in DOMAIN log' : log'[e].task = u /\ Live(e)'
      <4>1. CASE u = t
        BY <2>2, <2>3, <3>1, <3>2, <4>1
      <4>2. CASE u # t
        <5>1. u \in Sent /\ state[u] \in Claimable
          BY <1>1, <3>1, <3>3, <4>2 DEF Sent, StoreTypeOK
        <5>2. PICK e \in DOMAIN log : log[e].task = u /\ Live(e)
          BY <1>1, <5>1 DEF NoTaskLost
        <5>. QED  BY <3>1, <3>2, <5>2
      <4>. QED  BY <4>1, <4>2
    <3>. QED  BY <3>3 DEF NoTaskLost
  <2>7. CASE AckDone(h)
    <3>1. /\ UNCHANGED <<log, delivered, state>> /\ pel' = pel \ {entry[h]}
          /\ entry' = [entry EXCEPT ![h] = 0] /\ pc[h] = "ack"
      BY <2>7 DEF AckDone, Ack, Goto, storeVars
    <3>2. ASSUME NEW e \in DOMAIN log, Live(e) PROVE Live(e)'
      <4>1. e # entry[h]
        BY <3>1, <3>2 DEF Live
      <4>2. Outstanding(e)'
        BY <3>1, <3>2, <4>1 DEF Live, Outstanding
      <4>3. \A g \in Handler : entry'[g] = e => pc'[g] \notin {"abort", "ack"}
        BY <2>4, <3>2, <4>1, <1>1, <3>1 DEF Live, QueueTypeOK
      <4>. QED  BY <2>1, <3>2, <4>2, <4>3 DEF Live
    <3>. QED  BY <1>1, <2>1, <3>1, <3>2, SpareKeepsTasks
  <2>8. CASE \/ DenyScope(h) \/ RefuseTool(h) \/ RejectParams(h) \/ Succeed(h)
             \/ DeadLetter(h) \/ ClaimNone(h) \/ Abort(h)
    <3>1. /\ UNCHANGED <<log, delivered, pel>> /\ entry' = entry
          /\ pc' = [pc EXCEPT ![h] = "ack"] \/ pc' = [pc EXCEPT ![h] = "abort"]
      BY <2>8 DEF DenyScope, RefuseTool, RejectParams, Succeed, DeadLetter,
                  RunFails, ClaimNone, Abort, Goto, queueVars
    <3>2. /\ \A u \in Task : state'[u] \in Claimable => state[u] \in Claimable
          /\ state'[t] \notin Claimable \/ pc[h] = "abort"
      <4>1. CASE Abort(h)
        BY <4>1 DEF Abort, AbortDependents, Claimable
      <4>2. CASE ClaimNone(h)
        BY <2>2, <4>2 DEF ClaimNone, storeVars
      <4>3. CASE \/ DenyScope(h) \/ RefuseTool(h) \/ RejectParams(h)
                 \/ Succeed(h) \/ DeadLetter(h)
        <5>1. \E s \in {"failed", "dead", "succeeded"} :
                  state' = [state EXCEPT ![t] = s]
          BY <2>2, <4>3 DEF DenyScope, RefuseTool, RejectParams, Succeed,
                            DeadLetter, Finalize
        <5>. QED  BY <1>1, <5>1 DEF StoreTypeOK, Claimable
      <4>. QED  BY <2>8, <4>1, <4>2, <4>3
    <3>3. ASSUME NEW e \in DOMAIN log, Live(e), state'[log[e].task] \in Claimable
          PROVE  Live(e)'
      <4>1. e # entry[h]
        BY <2>2, <3>2, <3>3 DEF Live
      <4>. QED  BY <2>1, <2>4, <3>1, <3>3, <4>1 DEF Live, Outstanding
    <3>4. Sent \subseteq Task
      BY <1>1, SentType
    <3>. QED  BY <1>1, <2>1, <3>1, <3>2, <3>3, <3>4, SpareKeepsTasks
  <2>9. CASE Claim(h) \/ RaiseNoInput(h) \/ BuildContext(h) \/ RunOk(h)
    <3>1. /\ UNCHANGED <<log, delivered, pel>>
          /\ pc'[h] \notin {"abort", "ack"}
      BY <1>1, <2>9 DEF Claim, RaiseNoInput, BuildContext, RunOk, Goto, queueVars
    <3>2. \A u \in Task : state'[u] \in Claimable => state[u] \in Claimable
      BY <1>1, <2>2, <2>9 DEF Claim, ClaimTask, RaiseNoInput, BuildContext, RunOk,
            RecordFindings, storeVars, StoreTypeOK
    <3>3. ASSUME NEW e \in DOMAIN log, Live(e) PROVE Live(e)'
      <4>1. Outstanding(e)'
        BY <3>1, <3>3 DEF Live, Outstanding
      <4>2. \A g \in Handler : entry'[g] = e => pc'[g] \notin {"abort", "ack"}
        BY <2>4, <3>1, <3>3 DEF Live
      <4>. QED  BY <2>1, <3>3, <4>1, <4>2 DEF Live
    <3>4. Sent \subseteq Task
      BY <1>1, SentType
    <3>. QED  BY <1>1, <2>1, <3>1, <3>2, <3>3, <3>4, SpareKeepsTasks
  <2>. QED  BY <1>3, <2>5, <2>6, <2>7, <2>8, <2>9 DEF HandlerStep
<1>. QED  BY <1>2, <1>3

(* Everybody else's steps.                                                 *)
LEMMA OthersKeepTasks ==
    ASSUME DurableInv, early = 0, early' = 0,
           Submit \/ MasterLoop \/ (\E r \in Reclaimer : Reclaim(r)) \/ Faults
    PROVE  NoTaskLost'
<1>1. /\ TypeInv /\ QueueTypeOK /\ StoreTypeOK /\ ProcTypeOK /\ NoTaskLost
      /\ Recorded /\ Sent \subseteq Task /\ 1 \in Nat \ {0}
      /\ DOMAIN log \subseteq Nat \ {0}
  BY SentType DEF DurableInv, TypeInv, TypeOK, QueueTypeOK
<1>2. ASSUME UNCHANGED <<log, delivered, pel, pc, entry, moving>>,
             \A t \in Sent : state'[t] \in Claimable => state[t] \in Claimable
      PROVE  NoTaskLost'
  <2>1. \A e \in DOMAIN log : Live(e) => Live(e)'
    BY <1>2 DEF Live, Outstanding
  <2>. QED  BY <1>1, <1>2, <2>1, SpareKeepsTasks
<1>3. CASE \/ InsertScan \/ StartScan \/ MarkPlanned \/ FetchReady \/ MarkReady
           \/ SelectScan \/ CountStates \/ CloseScan \/ LoopError \/ SubmitError
  BY <1>2, <1>3 DEF InsertScan, StartScan, MarkPlanned, FetchReady, MarkReady,
     SelectScan, SelectScanIf, CountStates, CloseScan, LoopError, SubmitError,
     Fault, MarkDispatched, queueVars, storeVars
<1>4. CASE InsertPlanned
  <2>1. \A t \in Sent : state'[t] = state[t]
    BY <1>1, <1>4 DEF InsertPlanned, InsertTask, StoreTypeOK, Recorded, Inserted
  <2>. QED  BY <1>2, <1>4, <2>1 DEF InsertPlanned, queueVars
<1>5. CASE EnqueuePlanned
  <2>1. Planned \in Task
    BY <1>1, <1>5, PlannedType DEF EnqueuePlanned, TypeInv, Refs
  <2>2. Enqueue(Planned, 1) /\ UNCHANGED <<state, pc, entry, moving>>
    BY <1>5 DEF EnqueuePlanned, storeVars
  <2>. QED  BY <1>1, <2>1, <2>2, EnqueueKeepsTasks
<1>6. ASSUME NEW t \in Task, EnqueueReady(t) PROVE NoTaskLost'
  <2>1. Enqueue(t, 1) /\ UNCHANGED <<state, pc, entry, moving>>
    BY <1>6 DEF EnqueueReady, storeVars
  <2>. QED  BY <1>1, <2>1, EnqueueKeepsTasks
<1>7. ASSUME NEW r \in Reclaimer, NEW e \in pel, ClaimAbandoned(r, e)
      PROVE  NoTaskLost'
  <2>1. /\ UNCHANGED <<log, delivered, pel, state, pc, entry>>
        /\ moving' = [moving EXCEPT ![r] = [entry |-> e, added |-> FALSE]]
    BY <1>7 DEF ClaimAbandoned, AutoClaim, queueVars, storeVars
  <2>2. \A q \in Reclaimer : moving'[q] = moving[q] \/ ~moving'[q].added
    BY <1>1, <2>1 DEF ProcTypeOK
  <2>3. \A d \in DOMAIN log : Live(d) => Live(d)'
    BY <2>1, <2>2 DEF Live, Outstanding
  <2>. QED  BY <1>1, <2>1, <2>3, SpareKeepsTasks
<1>8. ASSUME NEW r \in Reclaimer, ReAdd(r) PROVE NoTaskLost'
  <2>1. PICK e \in 1..delivered : e = moving[r].entry
    BY <1>1, <1>8 DEF ReAdd, QueueTypeOK, TypeInv, Refs
  <2>2. log[e].task \in Task /\ log[e].attempt + 1 \in Nat \ {0}
    BY <1>1, <2>1, MessageType
  <2>3. /\ Enqueue(log[e].task, log[e].attempt + 1)
        /\ UNCHANGED <<state, pc, entry>>
        /\ moving' = [moving EXCEPT ![r].added = TRUE]
    BY <1>8, <2>1 DEF ReAdd, storeVars
  <2>4. \A q \in Reclaimer :
            /\ moving'[q].entry = moving[q].entry
            /\ moving'[q].added # moving[q].added =>
                   log[moving[q].entry].task = log[e].task
    BY <1>1, <2>1, <2>3 DEF ProcTypeOK
  <2>. QED  BY <1>1, <2>2, <2>3, <2>4, EnqueueKeepsTasks
<1>9. ASSUME NEW r \in Reclaimer, AckMoved(r) PROVE NoTaskLost'
  <2>1. /\ UNCHANGED <<log, delivered, state, pc, entry>>
        /\ pel' = pel \ {moving[r].entry} /\ moving[r].added
        /\ moving' = [moving EXCEPT ![r] = NoMove]
    BY <1>9 DEF AckMoved, Ack, storeVars
  <2>2. \A q \in Reclaimer : moving'[q] = moving[q] \/ ~moving'[q].added
    BY <1>1, <2>1 DEF ProcTypeOK, NoMove
  <2>3. \A d \in DOMAIN log : Live(d) => Live(d)'
    BY <2>1, <2>2 DEF Live, Outstanding
  <2>. QED  BY <1>1, <2>1, <2>3, SpareKeepsTasks
<1>10. CASE \/ \E h \in Handler : HandlerError(h)
            \/ \E w \in Worker : WorkerCrash(w)
            \/ \E r \in Reclaimer : ReclaimError(r)
            \/ MasterCrash
  <2>1. UNCHANGED <<log, delivered, pel, state>>
    BY <1>10 DEF HandlerError, WorkerCrash, ReclaimError, MasterCrash, Fault,
                 queueVars, storeVars
  <2>2. \A h \in Handler : \/ pc'[h] = pc[h] /\ entry'[h] = entry[h]
                           \/ pc'[h] = "idle"
    BY <1>1, <1>10 DEF HandlerError, WorkerCrash, ReclaimError, MasterCrash,
                       ProcTypeOK
  <2>3. \A r \in Reclaimer : moving'[r] = moving[r] \/ ~moving'[r].added
    BY <1>1, <1>10 DEF HandlerError, WorkerCrash, ReclaimError, MasterCrash,
                       NoMove, Reclaimer, ProcTypeOK
  <2>4. \A d \in DOMAIN log : Live(d) => Live(d)'
    BY <2>1, <2>2, <2>3 DEF Live, Outstanding
  <2>. QED  BY <1>1, <2>1, <2>4, SpareKeepsTasks
<1>. QED  BY <1>3, <1>4, <1>5, <1>6, <1>7, <1>8, <1>9, <1>10
          DEF Submit, MasterLoop, Reclaim, Faults

(* The durable invariant holds before the submission.                      *)
LEMMA DurableInit == Init => DurableInv
<1>. SUFFICES ASSUME Init PROVE DurableInv
  OBVIOUS
<1>1. TypeInv
  BY TypeInit
<1>2. Sent = {}
  BY DEF Init, QueueInit, Sent
<1>3. Recorded
  BY <1>2 DEF Init, StoreInit, LoopIdle, Recorded, DispatchedIsSent
<1>4. Exclusive
  BY DEF Init, NoMove, Exclusive
<1>5. NoTaskLost
  BY <1>2 DEF NoTaskLost
<1>. QED  BY <1>1, <1>3, <1>4, <1>5 DEF DurableInv

(* The durable invariant is inductive.                                     *)
LEMMA DurableNext == DurableInv /\ [Next]_vars => DurableInv'
<1>. SUFFICES ASSUME DurableInv, [Next]_vars PROVE DurableInv'
  OBVIOUS
<1>1. TypeInv /\ Recorded /\ (early = 0 => Exclusive) /\ NoTaskLost
  BY DEF DurableInv
<1>2. TypeInv'
  BY <1>1, TypeNext
<1>3. CASE Next
  <2>1. Recorded'
    BY <1>1, <1>3, RecordedNext
  <2>2. early' = 0 => Exclusive'
    BY <1>1, <1>3, ExclusiveNext
  <2>3. NoTaskLost'
    <3>1. CASE early' # 0
      BY <3>1 DEF NoTaskLost
    <3>2. CASE early' = 0
      <4>1. early = 0
        BY <1>1, <1>3, <3>2, EarlyGrows
      <4>2. CASE \E h \in Handler : HandlerStep(h)
        BY <1>1, <4>1, <4>2, HandlerKeepsTasks
      <4>3. CASE Submit \/ MasterLoop \/ (\E r \in Reclaimer : Reclaim(r)) \/ Faults
        BY <3>2, <4>1, <4>3, OthersKeepTasks
      <4>. QED  BY <1>3, <3>2, <4>1, <4>2, <4>3 DEF Next, ClaimEarly
    <3>. QED  BY <3>1, <3>2
  <2>. QED  BY <1>2, <2>1, <2>2, <2>3 DEF DurableInv
<1>4. CASE UNCHANGED vars
  BY <1>1, <1>2, <1>4 DEF vars, queueVars, storeVars, procVars, faultVars,
     DurableInv, Recorded, Exclusive, NoTaskLost, DispatchedIsSent, Sent,
     Inserted, Planned, Live, Outstanding
<1>. QED  BY <1>3, <1>4

(* No task handed to the stream is lost: while it has no outcome, a live    *)
(* entry for it exists, whatever crashes and whatever is redelivered, as   *)
(* long as no entry is reclaimed from under a handler at work.             *)
THEOREM TasksAreDurable == Spec => []NoTaskLost
<1>1. DurableInv => NoTaskLost
  BY DEF DurableInv
<1>. QED  BY <1>1, DurableInit, DurableNext, PTL DEF Spec

(* A row marked dispatched has a message: the dispatcher never skips a     *)
(* task that nothing was sent for.                                         *)
THEOREM DispatchIsSound == Spec => []DispatchedIsSent
<1>1. DurableInv => DispatchedIsSent
  BY DEF DurableInv, Recorded
<1>. QED  BY <1>1, DurableInit, DurableNext, PTL DEF Spec

-----------------------------------------------------------------------------
(* Order.  What is sent was in a fetched batch or was planned without      *)
(* dependencies; what a batch was fetched for stays true, since nothing    *)
(* takes back a success or a finding.                                      *)

(* Reclaims and handlers add messages of tasks that have one already, and   *)
(* faults add none.                                                        *)
LEMMA ResendsOnly ==
    ASSUME TypeInv,
           \/ \E r \in Reclaimer : Reclaim(r)
           \/ \E r \in Reclaimer, e \in pel : ClaimEarly(r, e)
           \/ \E h \in Handler : HandlerStep(h)
           \/ Faults
    PROVE  Sent' = Sent
<1>1. ASSUME NEW r \in Reclaimer, NEW e \in pel,
             ClaimAbandoned(r, e) \/ ClaimEarly(r, e)
      PROVE  Sent' = Sent
  BY <1>1, SentEffect DEF ClaimAbandoned, ClaimEarly, AutoClaim, queueVars
<1>2. ASSUME NEW r \in Reclaimer, ReAdd(r) PROVE Sent' = Sent
  <2>1. PICK e \in 1..delivered : e = moving[r].entry
    BY <1>2 DEF ReAdd, TypeInv, TypeOK, QueueTypeOK, Refs
  <2>2. /\ log[e].task \in Task /\ log[e].attempt + 1 \in Nat \ {0}
        /\ log[e].task \in Sent
    BY <2>1, MessageType DEF Sent
  <2>. QED  BY <1>2, <2>1, <2>2, SentEffect DEF ReAdd
<1>3. ASSUME NEW r \in Reclaimer, AckMoved(r) PROVE Sent' = Sent
  BY <1>3, SentEffect DEF AckMoved, Ack
<1>4. ASSUME NEW h \in Handler, Read(h) PROVE Sent' = Sent
  BY <1>4, SentEffect DEF Read, Consume
<1>5. ASSUME NEW h \in Handler, HandlerStep(h), ~Read(h) PROVE Sent' = Sent
  <2>1. pc[h] # "idle" /\ (UNCHANGED queueVars \/ Resend(h) \/ AckDone(h))
    BY <1>5, HandlerFrame
  <2>2. /\ Msg(h).task \in Task /\ Msg(h).attempt + 1 \in Nat \ {0}
        /\ Msg(h).task \in Sent
    BY <2>1, HandlerMessage DEF Sent, Msg
  <2>3. CASE Resend(h)
    BY <2>2, <2>3, SentEffect DEF Resend
  <2>4. CASE UNCHANGED queueVars \/ AckDone(h)
    BY <2>4, SentEffect DEF AckDone, Ack, queueVars
  <2>. QED  BY <2>1, <2>3, <2>4
<1>6. CASE Faults
  BY <1>6, SentEffect DEF Faults, HandlerError, WorkerCrash, ReclaimError,
        LoopError, SubmitError, MasterCrash, Fault, queueVars
<1>. QED  BY <1>1, <1>2, <1>3, <1>4, <1>5, <1>6 DEF Reclaim

(* A task sent by this step was fetched by the dispatcher or is the one    *)
(* the submission is at.                                                   *)
LEMMA NewlySent ==
    ASSUME TypeInv, Next
    PROVE  \A t \in Sent' : \/ t \in Sent
                            \/ t \in loop.todo
                            \/ req.at = "enqueue" /\ t = Planned
<1>0. 1 \in Nat \ {0}
  OBVIOUS
<1>1. CASE InsertScan \/ StartScan \/ InsertPlanned \/ MarkPlanned
  BY <1>1, SentEffect DEF InsertScan, StartScan, InsertPlanned, MarkPlanned,
                          queueVars
<1>2. CASE EnqueuePlanned
  <2>1. Planned \in Task
    BY <1>2, PlannedType DEF EnqueuePlanned, TypeInv, Refs
  <2>. QED  BY <1>0, <1>2, <2>1, SentEffect DEF EnqueuePlanned
<1>3. CASE FetchReady \/ MarkReady \/ SelectScan \/ CountStates \/ CloseScan
  BY <1>3, SentEffect DEF FetchReady, MarkReady, SelectScan, SelectScanIf,
                          CountStates, CloseScan, queueVars
<1>4. ASSUME NEW t \in Task, EnqueueReady(t)
      PROVE  Sent' = Sent \cup {t} /\ t \in loop.todo
  BY <1>0, <1>4, SentEffect DEF EnqueueReady
<1>. QED  BY <1>1, <1>2, <1>3, <1>4, ResendsOnly DEF Next, Submit, MasterLoop

(* What the tables keep for ever, and what they say of a success.          *)
LEMMA TablesGrow ==
    ASSUME TypeInv, Recorded, Next
    PROVE  /\ succeeded \subseteq succeeded'
           /\ findings \subseteq findings'
           /\ Inserted \subseteq Inserted'
           /\ \A t \in Task : state'[t] = "succeeded" =>
                  state[t] = "succeeded" \/ t \in succeeded'
           /\ \A t \in Inserted' : \/ t \in Inserted
                                   \/ InsertPlanned /\ t = Planned
<1>0. StoreTypeOK /\ (state' = state => Inserted' = Inserted)
  BY DEF TypeInv, TypeOK, Inserted
<1>1. CASE InsertScan \/ StartScan \/ EnqueuePlanned \/ MarkPlanned
  BY <1>0, <1>1 DEF InsertScan, StartScan, EnqueuePlanned, MarkPlanned,
               MarkDispatched, storeVars
<1>2. CASE InsertPlanned
  <2>1. Planned \in Task
    BY <1>2, PlannedType DEF InsertPlanned
  <2>2. Inserted' = Inserted \cup {Planned}
    BY <1>2, <2>1, RowsStay DEF InsertPlanned
  <2>. QED  BY <1>0, <1>2, <2>1, <2>2 DEF InsertPlanned, InsertTask, StoreTypeOK
<1>3. CASE MasterLoop
  BY <1>0, <1>3 DEF MasterLoop, FetchReady, EnqueueReady, MarkReady, SelectScan,
     SelectScanIf, CountStates, CloseScan, MarkDispatched, storeVars
<1>4. CASE \/ \E r \in Reclaimer : Reclaim(r)
           \/ \E r \in Reclaimer, e \in pel : ClaimEarly(r, e)
  BY <1>0, <1>4 DEF Reclaim, ClaimAbandoned, ClaimEarly, AutoClaim, ReAdd,
     AckMoved, storeVars
<1>5. ASSUME NEW h \in Handler, Read(h)
      PROVE  UNCHANGED storeVars
  BY <1>5 DEF Read
<1>6. ASSUME NEW h \in Handler, HandlerStep(h), ~Read(h)
      PROVE  /\ succeeded \subseteq succeeded'
             /\ findings \subseteq findings'
             /\ Inserted' = Inserted
             /\ \A t \in Task : state'[t] = "succeeded" =>
                    state[t] = "succeeded" \/ t \in succeeded'
  <2>1. pc[h] # "idle" /\ Inserted \subseteq Inserted'
    BY <1>6, HandlerFrame
  <2>2. PICK u \in Task : u = Msg(h).task /\ u \in DOMAIN state
    BY <1>0, <2>1, HandlerMessage DEF StoreTypeOK
  <2>3. CASE Abort(h)
    BY <1>0, <2>1, <2>3 DEF Abort, AbortDependents, Inserted
  <2>4. CASE RunOk(h)
    BY <1>0, <2>4 DEF RunOk, RecordFindings
  <2>5. CASE ClaimNone(h) \/ RaiseNoInput(h) \/ BuildContext(h) \/ Resend(h)
             \/ AckDone(h)
    BY <1>0, <2>5 DEF ClaimNone, RaiseNoInput, BuildContext, Resend, AckDone,
       storeVars
  <2>6. CASE \/ Claim(h) \/ Retry(h) \/ DenyScope(h) \/ RefuseTool(h)
             \/ RejectParams(h) \/ Succeed(h) \/ DeadLetter(h)
    <3>1. u \in Inserted
      BY <2>1, <2>2, HandlerMessage DEF Recorded, Sent, Msg
    <3>2. PICK s \in Claimable \cup Terminal :
              /\ state' = [state EXCEPT ![u] = s]
              /\ s = "succeeded" => u \in succeeded'
              /\ succeeded \subseteq succeeded' /\ findings' = findings
      BY <2>2, <2>6 DEF Claim, Retry, RetryAt, DenyScope, RefuseTool,
         RejectParams, Succeed, DeadLetter, ClaimTask, RequeueTask, Finalize,
         Claimable, Terminal
    <3>3. s # "absent"
      BY DEF Claimable, Terminal
    <3>. QED  BY <2>2, <3>1, <3>2, <3>3 DEF Inserted
  <2>. QED  BY <1>6, <2>3, <2>4, <2>5, <2>6 DEF HandlerStep
<1>7. CASE Faults
  BY <1>0, <1>7 DEF Faults, HandlerError, WorkerCrash, ReclaimError, LoopError,
     SubmitError, MasterCrash, Fault, storeVars
<1>. QED
  <2>1. UNCHANGED storeVars => /\ succeeded' = succeeded /\ findings' = findings
                               /\ Inserted' = Inserted /\ state' = state
    BY <1>0 DEF storeVars
  <2>. QED  BY <1>1, <1>2, <1>3, <1>4, <1>5, <1>6, <1>7, <2>1 DEF Next, Submit

(* A batch holds ready tasks, and only a task without dependencies is sent *)
(* by the submission.                                                      *)
LEMMA BatchIsReady ==
    ASSUME TypeInv, Next
    PROVE  /\ \A t \in loop'.todo : t \in loop.todo \/ (t \in Task /\ Ready(t))
           /\ req'.at = "enqueue" => \/ req.at = "enqueue" /\ Planned' = Planned
                                     \/ DependsOn[StepOf[Planned']] = {}
<1>. USE DEF TypeInv, TypeOK, ProcTypeOK
<1>1. CASE Submit
  <2>1. loop' = loop
    BY <1>1 DEF Submit, InsertScan, InsertPlanned, EnqueuePlanned, MarkPlanned,
       StartScan
  <2>2. CASE InsertPlanned
    BY <2>1, <2>2 DEF InsertPlanned, Planned
  <2>3. CASE InsertScan \/ EnqueuePlanned \/ MarkPlanned \/ StartScan
    <3>1. req'.at # "enqueue"
      BY <2>3 DEF InsertScan, EnqueuePlanned, MarkPlanned, StartScan
    <3>. QED  BY <2>1, <3>1
  <2>. QED  BY <1>1, <2>2, <2>3 DEF Submit
<1>2. CASE FetchReady
  BY <1>2 DEF FetchReady, LoopIdle, Planned
<1>3. CASE \E t \in Task : EnqueueReady(t)
  BY <1>3 DEF EnqueueReady, Planned
<1>4. CASE MarkReady \/ CloseScan
  BY <1>4 DEF MarkReady, CloseScan, LoopIdle, Planned
<1>5. CASE SelectScan
  BY <1>5 DEF SelectScan, SelectScanIf, Planned
<1>6. CASE CountStates
  BY <1>6 DEF CountStates, LoopIdle, Planned
<1>7. CASE \/ \E r \in Reclaimer : Reclaim(r)
           \/ \E r \in Reclaimer, e \in pel : ClaimEarly(r, e)
  BY <1>7 DEF Reclaim, ClaimAbandoned, ClaimEarly, AutoClaim, ReAdd, AckMoved,
     Planned
<1>8. ASSUME NEW h \in Handler, HandlerStep(h) PROVE UNCHANGED <<req, loop>>
  <2>1. CASE Read(h)
    BY <2>1 DEF Read
  <2>2. CASE ~Read(h)
    BY <1>8, <2>2, HandlerFrame
  <2>. QED  BY <2>1, <2>2
<1>9. CASE Faults
  BY <1>9 DEF Faults, HandlerError, WorkerCrash, ReclaimError, LoopError,
     SubmitError, MasterCrash, LoopIdle, Planned
<1>. QED  BY <1>1, <1>2, <1>3, <1>4, <1>5, <1>6, <1>7, <1>8, <1>9
          DEF Next, MasterLoop, Planned

GateInv ==
    /\ DurableInv
    /\ \A t \in loop.todo : WhenFinding[StepOf[t]] \subseteq findings
    /\ req.at = "enqueue" => DependsOn[StepOf[Planned]] = {}
    /\ GateBeforeDispatch

(* The gate invariant is inductive.                                        *)
LEMMA GateNext == GateInv /\ [Next]_vars => GateInv'
<1>. SUFFICES ASSUME GateInv, [Next]_vars PROVE GateInv'
  OBVIOUS
<1>1. DurableInv' /\ TypeInv /\ Recorded
  BY DurableNext DEF GateInv, DurableInv
<1>2. CASE Next
  <2>1. findings \subseteq findings'
    BY <1>1, <1>2, TablesGrow
  <2>2. \A t \in loop'.todo : WhenFinding[StepOf[t]] \subseteq findings'
    BY <1>1, <1>2, <2>1, BatchIsReady DEF GateInv, Ready
  <2>3. req'.at = "enqueue" => DependsOn[StepOf[Planned']] = {}
    BY <1>1, <1>2, BatchIsReady DEF GateInv
  <2>4. GateBeforeDispatch'
    BY <1>1, <1>2, <2>1, NewlySent DEF GateInv, GateBeforeDispatch
  <2>. QED  BY <1>1, <2>2, <2>3, <2>4 DEF GateInv
<1>3. CASE UNCHANGED vars
  BY <1>1, <1>3 DEF vars, queueVars, storeVars, procVars, GateInv,
     GateBeforeDispatch, Sent, Planned
<1>. QED  BY <1>2, <1>3

(* A routing-gated task behind other steps is never sent before the scan   *)
(* has a finding of its type, whatever the order of the plan.              *)
THEOREM GateIsRespected == Spec => []GateBeforeDispatch
<1>1. Init => GateInv
  <2>. SUFFICES ASSUME Init PROVE GateInv
    OBVIOUS
  <2>1. DurableInv /\ Sent = {}
    BY DurableInit DEF Init, QueueInit, Sent
  <2>. QED  BY <2>1 DEF Init, LoopIdle, GateInv, GateBeforeDispatch
<1>2. GateInv => GateBeforeDispatch
  BY DEF GateInv
<1>. QED  BY <1>1, <1>2, GateNext, PTL DEF Spec

(* What plan_tasks' list satisfies when every step is declared after the   *)
(* steps it depends on.                                                    *)
PlanInOrder ==
    \A i \in 1..Len(Plan) : \A d \in TasksOf(DependsOn[StepOf[Plan[i]]]) :
        \E j \in 1..(i - 1) : Plan[j] = d

DepsOf(t) == TasksOf(DependsOn[StepOf[t]])

(* Rows are inserted along the plan, so the rows a ready task's query      *)
(* looks for are there.                                                    *)
OrderInv ==
    /\ GateInv
    /\ \A j \in 1..(req.i - 1) : Plan[j] \in Inserted
    /\ \A t \in Inserted : DepsOf(t) \subseteq Inserted
    /\ \A t \in Task : state[t] = "succeeded" => t \in succeeded
    /\ \A t \in loop.todo : DepsOf(t) \subseteq succeeded
    /\ DependenciesFirst

(* The submission passes a position of the plan once its row is there.     *)
LEMMA PlanPosition ==
    ASSUME TypeInv, Next
    PROVE  \A j \in 1..(req'.i - 1) :
               \/ j \in 1..(req.i - 1)
               \/ j = req.i /\ (InsertPlanned \/ req.at = "mark")
<1>1. CASE Submit
  <2>1. req.i \in Nat /\ req'.i \in {req.i, req.i + 1}
    BY <1>1, PipelineAssumption DEF Submit, InsertScan, InsertPlanned,
       EnqueuePlanned, MarkPlanned, StartScan, TypeInv, TypeOK, ProcTypeOK
  <2>2. InsertPlanned \/ req.at = "mark" \/ req'.i = req.i
    BY <1>1 DEF Submit, InsertScan, EnqueuePlanned, MarkPlanned, StartScan,
       TypeInv, TypeOK, ProcTypeOK
  <2>. QED  BY <2>1, <2>2
<1>2. CASE ~Submit
  <2>1. req'.i = req.i
    <3>1. CASE MasterLoop
      BY <3>1 DEF MasterLoop, FetchReady, EnqueueReady, MarkReady, SelectScan,
         SelectScanIf, CountStates, CloseScan
    <3>2. CASE \/ \E r \in Reclaimer : Reclaim(r)
               \/ \E r \in Reclaimer, e \in pel : ClaimEarly(r, e)
      BY <3>2 DEF Reclaim, ClaimAbandoned, ClaimEarly, AutoClaim, ReAdd, AckMoved
    <3>3. ASSUME NEW h \in Handler, HandlerStep(h) PROVE req' = req
      BY <3>3, HandlerFrame DEF Read
    <3>4. CASE Faults
      BY <3>4 DEF Faults, HandlerError, WorkerCrash, ReclaimError, LoopError,
         SubmitError, MasterCrash, TypeInv, TypeOK, ProcTypeOK
    <3>. QED  BY <1>2, <3>1, <3>2, <3>3, <3>4 DEF Next
  <2>. QED  BY <2>1
<1>. QED  BY <1>1, <1>2

(* With a plan in dependency order the order invariant is inductive.       *)
LEMMA OrderNext == PlanInOrder /\ OrderInv /\ [Next]_vars => OrderInv'
<1>. SUFFICES ASSUME PlanInOrder, OrderInv, [Next]_vars PROVE OrderInv'
  OBVIOUS
<1>1. /\ GateInv' /\ GateInv /\ DurableInv /\ TypeInv /\ Recorded
      /\ Sent \subseteq Task /\ Inserted \subseteq Task
  BY GateNext, SentType
     DEF OrderInv, GateInv, DurableInv, TypeInv, TypeOK, Inserted
<1>2. CASE Next
  <2>1. /\ succeeded \subseteq succeeded' /\ Inserted \subseteq Inserted'
        /\ \A t \in Task : state'[t] = "succeeded" =>
               state[t] = "succeeded" \/ t \in succeeded'
        /\ \A t \in Inserted' : t \in Inserted \/ (InsertPlanned /\ t = Planned)
    BY <1>1, <1>2, TablesGrow
  <2>2. \A j \in 1..(req'.i - 1) : Plan[j] \in Inserted'
    <3>1. InsertPlanned => Planned \in Inserted'
      <4>1. SUFFICES ASSUME InsertPlanned PROVE Planned \in Inserted'
        OBVIOUS
      <4>2. Planned \in Task
        BY <1>1, <4>1, PlannedType DEF InsertPlanned
      <4>. QED  BY <1>1, <4>1, <4>2, RowsStay DEF InsertPlanned
    <3>2. req.at = "mark" => Planned \in Inserted
      BY <1>1 DEF Recorded
    <3>3. \A j \in 1..(req'.i - 1) :
              \/ j \in 1..(req.i - 1)
              \/ j = req.i /\ (InsertPlanned \/ req.at = "mark")
      BY <1>1, <1>2, PlanPosition
    <3>. QED  BY <2>1, <3>1, <3>2, <3>3 DEF OrderInv, Planned
  <2>3. ASSUME NEW t \in Inserted' PROVE DepsOf(t) \subseteq Inserted'
    <3>1. CASE t \in Inserted
      BY <2>1, <3>1 DEF OrderInv
    <3>2. CASE InsertPlanned /\ t = Planned
      <4>1. req.i \in 1..Len(Plan)
        BY <1>1, <3>2, PipelineAssumption
           DEF InsertPlanned, TypeInv, TypeOK, ProcTypeOK
      <4>2. \A d \in DepsOf(t) : \E j \in 1..(req.i - 1) : Plan[j] = d
        BY <3>2, <4>1 DEF PlanInOrder, DepsOf, Planned
      <4>. QED  BY <2>1, <4>2 DEF OrderInv
    <3>. QED  BY <2>1, <3>1, <3>2
  <2>4. \A t \in Task : state'[t] = "succeeded" => t \in succeeded'
    BY <2>1 DEF OrderInv
  <2>5. ASSUME NEW t \in loop'.todo PROVE DepsOf(t) \subseteq succeeded'
    <3>1. CASE t \in loop.todo
      BY <2>1, <3>1 DEF OrderInv
    <3>2. CASE t \in Task /\ Ready(t)
      <4>1. t \in Inserted /\ DepsOf(t) \subseteq Task
        BY <3>2 DEF Ready, Inserted, DepsOf, TasksOf
      <4>2. \A d \in DepsOf(t) : state[d] = "succeeded"
        BY <3>2, <4>1 DEF OrderInv, Ready, DepsOf
      <4>. QED  BY <2>1, <4>1, <4>2 DEF OrderInv
    <3>. QED  BY <1>1, <1>2, <3>1, <3>2, BatchIsReady
  <2>6. DependenciesFirst'
    <3>1. SUFFICES ASSUME NEW t \in Sent' PROVE DepsOf(t) \subseteq succeeded'
      BY DEF DependenciesFirst, DepsOf
    <3>2. CASE t \in Sent
      BY <2>1, <3>2 DEF OrderInv, DependenciesFirst, DepsOf
    <3>3. CASE t \in loop.todo
      BY <2>1, <3>3 DEF OrderInv
    <3>4. CASE req.at = "enqueue" /\ t = Planned
      BY <1>1, <3>4 DEF GateInv, DepsOf, TasksOf
    <3>. QED  BY <1>1, <1>2, <3>2, <3>3, <3>4, NewlySent
  <2>. QED  BY <1>1, <2>2, <2>3, <2>4, <2>5, <2>6 DEF OrderInv
<1>3. CASE UNCHANGED vars
  BY <1>1, <1>3 DEF vars, queueVars, storeVars, procVars, OrderInv, DepsOf,
     DependenciesFirst, Sent, Inserted
<1>. QED  BY <1>2, <1>3

(* Nothing is inserted or sent in the beginning.                           *)
LEMMA OrderInit == Init => OrderInv
<1>. SUFFICES ASSUME Init PROVE OrderInv
  OBVIOUS
<1>1. GateInv /\ Sent = {} /\ Inserted = {}
  <2>1. DurableInv /\ Sent = {}
    BY DurableInit DEF Init, QueueInit, Sent
  <2>. QED  BY <2>1 DEF Init, StoreInit, LoopIdle, GateInv,
               GateBeforeDispatch, Inserted
<1>. QED  BY <1>1 DEF Init, StoreInit, LoopIdle, OrderInv, DependenciesFirst

(* With a plan in dependency order, no task is sent before all tasks of    *)
(* the steps it depends on have succeeded.                                 *)
THEOREM OrderIsRespected ==
    ASSUME PlanInOrder
    PROVE  Spec => []DependenciesFirst
<1>1. OrderInv => DependenciesFirst
  BY DEF OrderInv
<1>2. OrderInv /\ [Next]_vars => OrderInv'
  BY OrderNext
<1>. QED  BY OrderInit, <1>1, <1>2, PTL DEF Spec
=============================================================================
