----------------------------- MODULE WorkerNode -----------------------------
(***************************************************************************)
(* One worker process while it runs tools (worker/main.py).  Its handlers  *)
(* are coroutines of one event loop, and run() does not await: from the    *)
(* moment a handler has its token until its program has ended, no other    *)
(* handler, no heartbeat and no reclaim of this worker gets a turn.        *)
(*                                                                         *)
(* What the handlers do in the database and the stream before and after a  *)
(* run is in ScanPipeline and Routing.                                     *)
(***************************************************************************)
EXTENDS TokenBucket, Executor, OobDriver

CONSTANTS
    Handler,    \* slots of the semaphore (WORKER_CONCURRENCY)
    Free,       \* no handler has the event loop
    Job,        \* what a task may run: one argv, or a batch of them
    MaxTasks    \* bound: tasks taken from the stream

(* An argv is a tool, a program that is not installed, or the driver,      *)
(* whose wrapper has no batch_mode.                                        *)
ASSUME WorkerAssumption ==
    /\ Free \notin Handler
    /\ MaxTasks \in Nat
    /\ \A j \in Job :
          \/ j.batch = TRUE /\ j.argvs \in Seq({"tool", "absent"})
          \/ /\ j.batch = FALSE
             /\ \E a \in {"tool", "absent", "oob"} : j.argvs = <<a>>

VARIABLES
    taken,     \* a message waits for the semaphore
    tasks,     \* messages taken so far
    pc, job, sleep,   \* per handler
    loop,      \* the handler that runs a program
    results,   \* what run() returned for the argvs so far
    last       \* the last run that was evaluated

workerVars == <<taken, tasks, pc, job, sleep, loop, results, last>>
vars == <<workerVars, bucketVars, processVars, driverVars>>

NoJob == [batch |-> FALSE, argvs |-> <<>>]
Result == [code : Code, timed_out : BOOLEAN]

Init ==
    /\ BucketInit /\ ExecutorInit /\ DriverInit
    /\ taken = FALSE /\ tasks = 0
    /\ pc = [h \in Handler |-> "idle"]
    /\ job = [h \in Handler |-> NoJob]
    /\ sleep = [h \in Handler |-> 0]
    /\ loop = Free
    /\ results = <<>>
    /\ last = [ok |-> TRUE, timed_out |-> FALSE, handed |-> {}, read |-> {}, found |-> {}]

-----------------------------------------------------------------------------
(* The event loop                                                          *)

(* _consume_loop reads a message first and waits for the semaphore then.   *)
Consume ==
    /\ loop = Free
    /\ ~taken
    /\ tasks < MaxTasks
    /\ taken' = TRUE
    /\ tasks' = tasks + 1
    /\ UNCHANGED <<pc, job, sleep, loop, results, last>>
    /\ UNCHANGED <<bucketVars, processVars, driverVars>>

Admit(h) ==
    /\ loop = Free
    /\ taken
    /\ pc[h] = "idle"
    /\ taken' = FALSE
    /\ pc' = [pc EXCEPT ![h] = "acquire"]
    /\ \E j \in Job : job' = [job EXCEPT ![h] = j]
    /\ UNCHANGED <<tasks, sleep, loop, results, last>>
    /\ UNCHANGED <<bucketVars, processVars, driverVars>>

(* acquire finds less than a token.                                        *)
Wait(h) ==
    /\ loop = Free
    /\ pc[h] = "acquire" /\ sleep[h] = 0
    /\ TooFew
    /\ sleep' = [sleep EXCEPT ![h] = Deficit]
    /\ UNCHANGED <<taken, tasks, pc, job, loop, results, last>>
    /\ UNCHANGED <<processVars, driverVars>>

(* acquire returns, and nothing is awaited before the first argv runs: one *)
(* token for a whole batch.                                                *)
Launch(h) ==
    /\ loop = Free
    /\ pc[h] = "acquire" /\ sleep[h] = 0
    /\ Take
    /\ loop' = h
    /\ pc' = [pc EXCEPT ![h] = "run"]
    /\ results' = <<>>
    /\ UNCHANGED <<taken, tasks, job, sleep, last>>
    /\ UNCHANGED <<processVars, driverVars>>

Tick ==
    /\ Elapse
    /\ sleep' = [h \in Handler |-> IF sleep[h] = 0 THEN 0 ELSE sleep[h] - 1]
    /\ UNCHANGED <<taken, tasks, pc, job, loop, results, last>>
    /\ UNCHANGED <<processVars, driverVars>>

-----------------------------------------------------------------------------
(* run and run_batch                                                       *)

Argvs == job[loop].argvs
Argv == Argvs[Len(results) + 1]

Between == loop # Free /\ phase = "none"
Left == Len(results) < Len(Argvs)

Start ==
    /\ Between /\ Left
    /\ Argv # "absent"
    /\ Spawn
    /\ IF Argv = "oob" THEN DriverStart ELSE UNCHANGED driverVars
    /\ UNCHANGED <<workerVars, bucketVars>>

(* FileNotFoundError or PermissionError: no return code.                   *)
Absent ==
    /\ Between /\ Left
    /\ Argv = "absent"
    /\ results' = Append(results, [code |-> "absent", timed_out |-> FALSE])
    /\ UNCHANGED <<taken, tasks, pc, job, sleep, loop, last>>
    /\ UNCHANGED <<bucketVars, processVars, driverVars>>

IsDriver == phase # "none" /\ Argv = "oob"

RunProgram ==
    /\ phase # "none"
    /\ \/ ~IsDriver /\ Program /\ UNCHANGED driverVars
       \/ IsDriver /\ Leader \in alive /\ DriverStep /\ UNCHANGED processVars
       \/ /\ IsDriver
          /\ \E code \in ExitCodes : Exit(Leader, code)
          /\ UNCHANGED driverVars
    /\ UNCHANGED <<workerVars, bucketVars>>

TimeOut ==
    /\ Expire
    /\ UNCHANGED <<workerVars, bucketVars, driverVars>>

ReturnResult ==
    /\ Return
    /\ results' = Append(results, [code |-> status, timed_out |-> TimedOut])
    /\ UNCHANGED <<taken, tasks, pc, job, sleep, loop, last>>
    /\ UNCHANGED <<bucketVars, driverVars>>

(* run_batch's merged_rc and any_timed_out, then ExecResult.ok.            *)
Bad == {i \in DOMAIN results : results[i].code \notin {"ok", "absent"}}

MergedCode ==
    IF ~job[loop].batch THEN results[1].code
    ELSE IF Bad = {} THEN "ok"
    ELSE results[CHOOSE i \in Bad : \A k \in Bad : i <= k].code

AnyTimedOut == \E i \in DOMAIN results : results[i].timed_out

Ok == MergedCode = "ok" /\ ~AnyTimedOut

(* What a run leaves behind: only an ok one is parsed.                     *)
Evaluate ==
    /\ Between /\ ~Left
    /\ last' = [ok |-> Ok, timed_out |-> AnyTimedOut, handed |-> handed,
                read |-> read, found |-> IF Ok THEN printed ELSE {}]
    /\ loop' = Free
    /\ pc' = [pc EXCEPT ![loop] = "idle"]
    /\ job' = [job EXCEPT ![loop] = NoJob]
    /\ results' = <<>>
    /\ step' = "off"
    /\ Forget
    /\ UNCHANGED <<taken, tasks, sleep>>
    /\ UNCHANGED <<bucketVars, processVars>>

(* Popen raises something else: so does the handler, and _process logs it. *)
Raise ==
    /\ Between /\ Left
    /\ Argv # "absent"
    /\ loop' = Free
    /\ pc' = [pc EXCEPT ![loop] = "idle"]
    /\ job' = [job EXCEPT ![loop] = NoJob]
    /\ results' = <<>>
    /\ UNCHANGED <<taken, tasks, sleep, last>>
    /\ UNCHANGED <<bucketVars, processVars, driverVars>>

Execute == Start \/ Absent \/ TimeOut \/ ReturnResult \/ Evaluate

Turn(h) == Admit(h) \/ Wait(h) \/ Launch(h)

Next ==
    \/ Consume \/ Tick \/ Execute \/ Raise \/ RunProgram
    \/ \E h \in Handler : Turn(h)

Spec == Init /\ [][Next]_vars

(* Time passes, timers fire and the event loop gives every coroutine that  *)
(* can go on its turn.  A program need not do anything.                    *)
FairSpec ==
    /\ Spec
    /\ WF_vars(Tick)
    /\ WF_vars(Execute)
    /\ \A h \in Handler : WF_vars(Turn(h))

-----------------------------------------------------------------------------
(* Properties                                                              *)

(* Only the handler that has the loop runs anything, for as long as its    *)
(* argvs last; a sleeper never sleeps longer than a token takes to come    *)
(* in, to the next tick.                                                   *)
TypeOK ==
    /\ BucketTypeOK /\ ExecutorTypeOK /\ DriverTypeOK
    /\ taken \in BOOLEAN /\ tasks \in 0..MaxTasks
    /\ pc \in [Handler -> {"idle", "acquire", "run"}]
    /\ job \in [Handler -> Job \cup {NoJob}]
    /\ sleep \in [Handler -> Nat]
    /\ \A h \in Handler : sleep[h] * Rate < Unit + Rate
    /\ loop \in Handler \cup {Free}
    /\ \A h \in Handler : pc[h] = "run" <=> h = loop
    /\ results \in Seq(Result)
    /\ loop # Free => Len(results) <= Len(Argvs)
    /\ phase # "none" => loop # Free /\ Left

(* The bucket is the leaky bucket its docstring promises: in no span of    *)
(* time are there more launches than the rate and the burst allow,         *)
(* whatever handlers wait, wake late or come in between.                   *)
Ceiling == INSTANCE LeakyBucket WITH debt <- Capacity - Credit
RateIsKept == Ceiling!Spec

(* Every finding of the driver is a URL it probed, that was called back    *)
(* for.  What it could read of the collaborator's responses, and the       *)
(* collaborator has forgotten, is a finding, whatever comes afterwards:    *)
(* lost responses, an undecipherable one that ends the run                 *)
(* (drivers/interactsh.py:296-298), its exit code; but for the timeout.    *)
(* What a lost or undecipherable response carried is gone: handed \ read.  *)
OobIsKept ==
    /\ last.found \subseteq last.handed
    /\ last.timed_out \/ last.found = last.read

(* A message that was read has its handler return in the end, unless a     *)
(* process that left the session keeps the output of a killed program.     *)
Busy == taken \/ \E h \in Handler : pc[h] # "idle"
HandlersReturn == Busy ~> (~Busy \/ Stuck)
=============================================================================
