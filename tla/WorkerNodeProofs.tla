-------------------------- MODULE WorkerNodeProofs --------------------------
(***************************************************************************)
(* A worker keeps to its rate and loses no evidence of its driver, for     *)
(* every rate, burst, number of handlers, batch and program; over any span *)
(* of time it launches no more than the bucket allows; and the kill of a   *)
(* timed-out program leaves only what it cannot reach.                     *)
(***************************************************************************)
EXTENDS WorkerNode, FiniteSetTheorems, TLAPS

-----------------------------------------------------------------------------
(* The bucket                                                              *)

BucketStep == Take \/ TooFew \/ Elapse \/ UNCHANGED bucketVars

LEMMA CreditType ==
    ASSUME BucketTypeOK
    PROVE  /\ Credit \in 0..Capacity
           /\ age * Rate \in Nat
           /\ tokens <= Credit
<1>1. tokens \in Nat /\ age \in Nat /\ Rate \in Nat /\ Capacity \in Nat
  BY BucketAssumption DEF BucketTypeOK
<1>2. age * Rate \in Nat
  BY <1>1
<1>. QED  BY <1>1, <1>2 DEF Credit, BucketTypeOK

LEMMA BucketTypes ==
    ASSUME BucketTypeOK, BucketStep
    PROVE  BucketTypeOK'
<1>1. /\ tokens \in 0..Capacity /\ age \in 0..Capacity
      /\ Rate \in Nat \ {0} /\ Unit \in Nat \ {0} /\ Capacity \in Nat
  BY BucketAssumption DEF BucketTypeOK
<1>2. CASE Take
  BY <1>1, <1>2, CreditType DEF Take, BucketTypeOK
<1>3. CASE TooFew
  BY <1>1, <1>3, CreditType DEF TooFew, BucketTypeOK
<1>4. CASE Elapse
  <2>1. age * Rate >= age
    BY <1>1
  <2>2. tokens + age * Rate < Capacity => age + 1 <= Capacity
    BY <1>1, <2>1, CreditType
  <2>. QED  BY <1>1, <1>4, <2>2 DEF Elapse, BucketTypeOK
<1>5. CASE UNCHANGED bucketVars
  BY <1>5 DEF bucketVars, BucketTypeOK
<1>. QED  BY <1>2, <1>3, <1>4, <1>5 DEF BucketStep

(* A sleeper wakes up at the first tick after a whole token came in, at    *)
(* the latest.                                                             *)
LEMMA DeficitType ==
    ASSUME BucketTypeOK, Credit < Unit
    PROVE  Deficit \in Nat /\ Deficit * Rate < Unit + Rate
<1>. DEFINE n == Unit - Credit
            d == (n + Rate - 1) \div Rate
<1>1. /\ n \in 1..Unit /\ Rate \in Nat \ {0} /\ Unit \in Nat
  BY BucketAssumption, CreditType
<1>2. d \in Nat /\ d * Rate <= n + Rate - 1
  BY <1>1
<1>. QED  BY <1>1, <1>2 DEF Deficit

(* So it does all the more after a tick.                                   *)
LEMMA SleepShrinks ==
    ASSUME NEW s \in Nat \ {0}, s * Rate < Unit + Rate
    PROVE  s - 1 \in Nat /\ (s - 1) * Rate < Unit + Rate
<1>1. Rate \in Nat /\ Unit \in Nat
  BY BucketAssumption
<1>2. (s - 1) * Rate = s * Rate - Rate
  BY <1>1
<1>3. s * Rate \in Nat
  BY <1>1
<1>. QED  BY <1>1, <1>2, <1>3

(* Every step of the bucket is one of the leaky bucket: a launch where one *)
(* is due, or a payment.                                                   *)
LEMMA BucketIsLeaky ==
    ASSUME BucketTypeOK, BucketStep
    PROVE  [Ceiling!Next]_(Capacity - Credit)
<1>1. /\ tokens \in 0..Capacity /\ age \in Nat
      /\ Rate \in Nat \ {0} /\ Unit \in Nat \ {0} /\ Capacity \in Nat
      /\ age * Rate \in Nat
      /\ Credit \in 0..Capacity
  BY BucketAssumption, CreditType DEF BucketTypeOK
<1>2. CASE Take
  <2>1. Credit' = Credit - Unit
    BY <1>1, <1>2 DEF Take, Credit
  <2>. QED  BY <1>1, <1>2, <2>1 DEF Take, Ceiling!Next, Ceiling!Grant
<1>3. CASE TooFew
  <2>1. Credit' = Credit
    BY <1>1, <1>3 DEF TooFew, Credit
  <2>. QED  BY <2>1
<1>4. CASE Elapse
  <2>1. CASE tokens + age * Rate >= Capacity
    <3>1. Credit' = Credit
      BY <1>4, <2>1 DEF Elapse, Credit
    <3>. QED  BY <3>1
  <2>2. CASE ~(tokens + age * Rate >= Capacity)
    <3>1. tokens' = tokens /\ age' = age + 1
      BY <1>4, <2>2 DEF Elapse
    <3>2. (age + 1) * Rate = age * Rate + Rate
      BY <1>1
    <3>3. Credit' = IF Credit + Rate >= Capacity THEN Capacity ELSE Credit + Rate
      BY <1>1, <2>2, <3>1, <3>2 DEF Credit
    <3>4. Ceiling!Pay
      BY <1>1, <3>3 DEF Ceiling!Pay
    <3>. QED  BY <3>4 DEF Ceiling!Next
  <2>. QED  BY <2>1, <2>2
<1>5. CASE UNCHANGED bucketVars
  <2>1. Credit' = Credit
    BY <1>5 DEF bucketVars, Credit
  <2>. QED  BY <2>1
<1>. QED  BY <1>2, <1>3, <1>4, <1>5 DEF BucketStep

(* No action of the worker does anything else to the bucket.               *)
LEMMA BucketSteps ==
    ASSUME [Next]_vars
    PROVE  BucketStep
BY DEF Next, vars, BucketStep, Consume, Tick, Execute, Raise, RunProgram, Turn,
       Admit, Wait, Launch, Start, Absent, TimeOut, ReturnResult, Evaluate

(* The rate limiter implements the leaky bucket: no span of time has more  *)
(* launches than rate and burst allow, however the handlers interleave.    *)
THEOREM RateLimiterIsCorrect == Spec => RateIsKept
<1>1. Init => BucketTypeOK /\ Ceiling!Init
  <2>1. /\ Capacity \in Nat /\ Rate \in Nat
    BY BucketAssumption
  <2>2. Capacity + 0 * Rate = Capacity
    BY <2>1
  <2>. QED
    BY <2>1, <2>2 DEF Init, BucketInit, BucketTypeOK, Ceiling!Init, Credit
<1>2. BucketTypeOK /\ [Next]_vars => BucketTypeOK' /\ [Ceiling!Next]_(Capacity - Credit)
  BY BucketSteps, BucketTypes, BucketIsLeaky
<1>. QED  BY <1>1, <1>2, PTL DEF Spec, RateIsKept, Ceiling!Spec

-----------------------------------------------------------------------------
(* The processes                                                           *)

ExecutorStep ==
    \/ Spawn \/ Program \/ Expire \/ Return \/ UNCHANGED processVars
    \/ \E code \in {"ok", "error"} : Exit(Leader, code)

LEMMA ExecutorTypes ==
    ASSUME ExecutorTypeOK, ExecutorStep
    PROVE  ExecutorTypeOK'
<1>. USE ExecutorAssumption DEF ExecutorTypeOK, Code
<1>1. CASE Spawn
  BY <1>1 DEF Spawn
<1>2. ASSUME NEW p \in Process, NEW q \in Process, Fork(p, q)
      PROVE  ExecutorTypeOK'
  BY <1>2 DEF Fork, With
<1>3. ASSUME NEW p \in Process, Leave(p) \/ CloseOutput(p)
      PROVE  ExecutorTypeOK'
  BY <1>3 DEF Leave, CloseOutput
<1>4. ASSUME NEW p \in Process, NEW code \in {"ok", "error"}, Exit(p, code)
      PROVE  ExecutorTypeOK'
  BY <1>4 DEF Exit
<1>5. CASE Expire
  BY <1>5 DEF Expire, KillProcessGroup
<1>6. CASE Return
  BY <1>6 DEF Return
<1>7. CASE UNCHANGED processVars
  BY <1>7 DEF processVars
<1>. QED  BY <1>1, <1>2, <1>3, <1>4, <1>5, <1>6, <1>7 DEF ExecutorStep, Program

-----------------------------------------------------------------------------
(* The driver                                                              *)

(* What the driver keeps from step to step: it probes what it planned and  *)
(* prints just what it read of that.                                       *)
DriverInv ==
    /\ DriverTypeOK
    /\ printed = read
    /\ step \in {"off", "register"} => plan = {} /\ waiting = {}
    /\ step \notin {"poll", "abandoned"} => handed = {}

DriverOff ==
    /\ step' = "off"
    /\ Forget

LEMMA EmptyPlan == Cardinality({}) <= MaxUrls
BY FS_EmptySet, DriverAssumption

LEMMA DriverStays ==
    ASSUME DriverInv, DriverStart \/ DriverStep \/ DriverOff \/ UNCHANGED driverVars
    PROVE  DriverInv'
<1>. USE DEF DriverInv, DriverTypeOK
<1>0. Foreign \notin Injectable
  BY DriverAssumption
<1>1. CASE DriverStart
  BY <1>1, EmptyPlan DEF DriverStart, Forget
<1>2. CASE Register
  BY <1>2, DriverAssumption DEF Register, ProbePlan
<1>3. CASE Probe
  BY <1>3 DEF Probe
<1>4. CASE Probed
  BY <1>4 DEF Probed
<1>5. CASE Poll
  BY <1>0, <1>5 DEF Poll, HandOver, MatchInteractions
<1>6. CASE PollLost \/ PollUndecipherable
  BY <1>0, <1>6 DEF PollLost, PollUndecipherable, HandOver
<1>7. ASSUME NEW i \in Candidate \cup {Foreign}, Interact(i)
      PROVE  DriverInv'
  BY <1>7 DEF Interact
<1>8. CASE DriverOff
  BY <1>8, EmptyPlan DEF DriverOff, Forget
<1>9. CASE UNCHANGED driverVars
  BY <1>9 DEF driverVars
<1>. QED  BY <1>1, <1>2, <1>3, <1>4, <1>5, <1>6, <1>7, <1>8, <1>9 DEF DriverStep

-----------------------------------------------------------------------------
(* The worker                                                              *)

LEMMA JobTypes ==
    ASSUME NEW j \in Job \cup {NoJob}
    PROVE  /\ Len(j.argvs) \in Nat
           /\ \/ j.batch = TRUE /\ j.argvs \in Seq({"tool", "absent"})
              \/ /\ j.batch = FALSE
                 /\ \E a \in {"tool", "absent", "oob"} : j.argvs = <<a>>
              \/ j = NoJob
<1>1. CASE j = NoJob
  BY <1>1 DEF NoJob
<1>2. CASE j \in Job /\ j.batch = TRUE /\ j.argvs \in Seq({"tool", "absent"})
  BY <1>2
<1>3. CASE j \in Job /\ j.batch = FALSE
           /\ \E a \in {"tool", "absent", "oob"} : j.argvs = <<a>>
  BY <1>3
<1>. QED  BY <1>1, <1>2, <1>3, WorkerAssumption

LoopTypeOK ==
    /\ taken \in BOOLEAN /\ tasks \in 0..MaxTasks
    /\ pc \in [Handler -> {"idle", "acquire", "run"}]
    /\ job \in [Handler -> Job \cup {NoJob}]
    /\ sleep \in [Handler -> Nat]
    /\ \A h \in Handler : sleep[h] * Rate < Unit + Rate
    /\ loop \in Handler \cup {Free}
    /\ \A h \in Handler : pc[h] = "run" <=> h = loop

RunTypeOK ==
    /\ results \in Seq(Result)
    /\ loop # Free => Len(results) <= Len(Argvs)
    /\ phase # "none" => loop # Free /\ Left

TypeInv == TypeOK /\ DriverInv

LEMMA TypeParts ==
    TypeOK <=> /\ BucketTypeOK /\ ExecutorTypeOK /\ DriverTypeOK
               /\ LoopTypeOK /\ RunTypeOK
BY DEF TypeOK, LoopTypeOK, RunTypeOK

LEMMA LoopTypes ==
    ASSUME TypeOK, [Next]_vars
    PROVE  LoopTypeOK'
<1>. USE DEF LoopTypeOK
<1>0. /\ LoopTypeOK /\ BucketTypeOK
      /\ MaxTasks \in Nat /\ Free \notin Handler /\ Unit \in Nat
  BY TypeParts, WorkerAssumption, BucketAssumption
<1>1. CASE UNCHANGED workerVars
  BY <1>0, <1>1 DEF workerVars
<1>2. CASE Consume
  BY <1>0, <1>2 DEF Consume
<1>3. ASSUME NEW h \in Handler, Admit(h)
      PROVE  LoopTypeOK'
  BY <1>0, <1>3 DEF Admit
<1>4. ASSUME NEW h \in Handler, Wait(h)
      PROVE  LoopTypeOK'
  <2>1. Deficit \in Nat /\ Deficit * Rate < Unit + Rate
    BY <1>0, <1>4, DeficitType DEF Wait, TooFew
  <2>. QED  BY <1>0, <1>4, <2>1 DEF Wait
<1>5. ASSUME NEW h \in Handler, Launch(h)
      PROVE  LoopTypeOK'
  BY <1>0, <1>5 DEF Launch
<1>6. CASE Tick
  <2>1. sleep' = [h \in Handler |-> IF sleep[h] = 0 THEN 0 ELSE sleep[h] - 1]
    BY <1>6 DEF Tick
  <2>2. ASSUME NEW h \in Handler
        PROVE  sleep'[h] \in Nat /\ sleep'[h] * Rate < Unit + Rate
    <3>1. CASE sleep[h] = 0
      <4>1. sleep'[h] = sleep[h]
        BY <2>1, <3>1
      <4>. QED  BY <1>0, <4>1
    <3>2. CASE sleep[h] # 0
      <4>1. sleep'[h] = sleep[h] - 1
        BY <2>1, <3>2
      <4>2. sleep[h] \in Nat \ {0} /\ sleep[h] * Rate < Unit + Rate
        BY <1>0, <3>2
      <4>. QED  BY <4>1, <4>2, SleepShrinks
    <3>. QED  BY <3>1, <3>2
  <2>3. sleep' \in [Handler -> Nat]
    BY <2>1, <2>2
  <2>. QED  BY <1>0, <1>6, <2>2, <2>3 DEF Tick
<1>7. CASE Absent \/ ReturnResult
  BY <1>0, <1>7 DEF Absent, ReturnResult
<1>8. CASE Evaluate \/ Raise
  <2>1. /\ loop \in Handler /\ loop' = Free
        /\ pc' = [pc EXCEPT ![loop] = "idle"]
        /\ job' = [job EXCEPT ![loop] = NoJob]
        /\ UNCHANGED <<taken, tasks, sleep>>
    BY <1>0, <1>8 DEF Evaluate, Raise, Between
  <2>. QED  BY <1>0, <2>1
<1>. QED
  BY <1>1, <1>2, <1>3, <1>4, <1>5, <1>6, <1>7, <1>8
  DEF Next, vars, Execute, Turn, RunProgram, Start, TimeOut

LEMMA RunTypes ==
    ASSUME TypeOK, [Next]_vars
    PROVE  RunTypeOK'
<1>. USE DEF RunTypeOK, Left, Argvs
<1>0. /\ LoopTypeOK /\ RunTypeOK /\ ExecutorTypeOK
      /\ loop # Free => loop \in Handler /\ job[loop] \in Job \cup {NoJob}
  BY TypeParts DEF LoopTypeOK
<1>1. /\ Len(results) \in Nat
      /\ loop # Free => Len(job[loop].argvs) \in Nat
  BY <1>0, JobTypes
<1>2. CASE UNCHANGED <<results, loop, job, phase>>
  BY <1>0, <1>2
<1>3. ASSUME NEW h \in Handler, Admit(h)
      PROVE  RunTypeOK'
  BY <1>0, <1>3 DEF Admit, processVars
<1>4. ASSUME NEW h \in Handler, Launch(h)
      PROVE  RunTypeOK'
  <2>1. Len(job[h].argvs) \in Nat
    BY <1>0, JobTypes DEF LoopTypeOK
  <2>. QED  BY <1>0, <1>4, <2>1 DEF Launch, processVars
<1>5. CASE Start
  BY <1>0, <1>5 DEF Start, Between, Spawn, workerVars
<1>6. CASE Absent
  <2>1. [code |-> "absent", timed_out |-> FALSE] \in Result
    BY DEF Result, Code
  <2>. QED  BY <1>0, <1>1, <1>6, <2>1 DEF Absent, Between, processVars
<1>7. CASE TimeOut
  BY <1>0, <1>7 DEF TimeOut, Expire, workerVars
<1>8. CASE ReturnResult
  <2>1. [code |-> status, timed_out |-> TimedOut] \in Result
    BY <1>0 DEF Result, ExecutorTypeOK, TimedOut
  <2>. QED  BY <1>0, <1>1, <1>8, <2>1 DEF ReturnResult, Return
<1>9. CASE Evaluate \/ Raise
  <2>1. loop' = Free /\ results' = <<>> /\ phase' = "none"
    BY <1>9 DEF Evaluate, Raise, Between, processVars
  <2>2. <<>> \in Seq(Result)
    OBVIOUS
  <2>. QED  BY <2>1, <2>2
<1>10. CASE RunProgram
  <2>1. phase' = phase
    BY <1>10 DEF RunProgram, Program, Fork, Leave, CloseOutput, Exit, processVars
  <2>. QED  BY <1>0, <1>10, <2>1 DEF RunProgram, workerVars
<1>. QED
  BY <1>2, <1>3, <1>4, <1>5, <1>6, <1>7, <1>8, <1>9, <1>10
  DEF Next, vars, workerVars, processVars, Execute, Turn, Consume, Wait, Tick

LEMMA PartsStep ==
    ASSUME [Next]_vars
    PROVE  /\ ExecutorStep
           /\ DriverStart \/ DriverStep \/ DriverOff \/ UNCHANGED driverVars
<1>1. CASE RunProgram
  <2>1. ExitCodes \subseteq {"ok", "error"}
    BY DEF ExitCodes, PollError
  <2>. QED  BY <1>1, <2>1 DEF RunProgram, ExecutorStep
<1>2. CASE Start \/ TimeOut \/ ReturnResult
  BY <1>2 DEF Start, TimeOut, ReturnResult, ExecutorStep
<1>3. CASE Evaluate
  BY <1>3 DEF Evaluate, ExecutorStep, DriverOff
<1>4. CASE UNCHANGED <<processVars, driverVars>>
  BY <1>4 DEF ExecutorStep
<1>. QED
  BY <1>1, <1>2, <1>3, <1>4
  DEF Next, vars, Consume, Tick, Execute, Raise, Turn, Admit, Wait, Launch, Absent

LEMMA TypeInvariant == Spec => []TypeInv
<1>1. Init => TypeInv
  <2>1. Init => DriverInv /\ ExecutorTypeOK
    BY EmptyPlan, ExecutorAssumption
    DEF Init, DriverInit, DriverInv, DriverTypeOK, ExecutorInit, ExecutorTypeOK, Code
  <2>2. Init => BucketTypeOK /\ LoopTypeOK /\ RunTypeOK
    <3>1. <<>> \in Seq(Result)
      OBVIOUS
    <3>2. Init => BucketTypeOK
      BY BucketAssumption DEF Init, BucketInit, BucketTypeOK
    <3>3. Init => LoopTypeOK
      <4>1. Unit \in Nat /\ MaxTasks \in Nat /\ Free \notin Handler
        BY BucketAssumption, WorkerAssumption
      <4>2. 0 \in Nat /\ 0 * Rate < Unit + Rate /\ 0 \in 0..MaxTasks
        BY <4>1, BucketAssumption
      <4>. QED  BY <4>1, <4>2 DEF Init, LoopTypeOK
    <3>4. Init => RunTypeOK
      BY <3>1 DEF Init, RunTypeOK, ExecutorInit
    <3>. QED  BY <3>2, <3>3, <3>4
  <2>. QED  BY <2>1, <2>2, TypeParts DEF TypeInv, DriverInv
<1>2. TypeInv /\ [Next]_vars => TypeInv'
  <2>. SUFFICES ASSUME TypeInv, [Next]_vars
                PROVE  TypeInv'
    OBVIOUS
  <2>1. BucketTypeOK' /\ ExecutorTypeOK' /\ DriverInv'
    BY BucketSteps, BucketTypes, PartsStep, ExecutorTypes, DriverStays, TypeParts
    DEF TypeInv
  <2>2. LoopTypeOK' /\ RunTypeOK'
    BY LoopTypes, RunTypes DEF TypeInv
  <2>. QED  BY <2>1, <2>2 DEF TypeInv, TypeOK, LoopTypeOK, RunTypeOK, DriverInv
<1>. QED  BY <1>1, <1>2, PTL DEF Spec

(* Types, and that only the handler with the event loop runs anything.     *)
THEOREM WorkerTypeCorrect == Spec => []TypeOK
BY TypeInvariant, PTL DEF TypeInv

-----------------------------------------------------------------------------
(* The evidence of the driver                                              *)

(* The driver is the one program of its task; when it got to poll and was  *)
(* not killed, it exits with 0, also from a response it cannot decipher.   *)
Polled == step \in {"poll", "abandoned"}

EvidenceInv ==
    /\ step # "off" => /\ loop # Free
                       /\ Argvs = <<"oob">>
                       /\ job[loop].batch = FALSE
    /\ phase = "none" /\ results = <<>> => step = "off"
    /\ Polled /\ phase = "waits" /\ Leader \notin alive => status = "ok"
    /\ Polled /\ results # <<>> =>
           results[1].timed_out \/ results[1].code = "ok"
    /\ OobIsKept

(* While an argv is left to start, or runs, nothing was returned before it *)
(* if it is the driver.                                                    *)
LEMMA DriverIsFirst ==
    ASSUME TypeInv, EvidenceInv, step # "off", Left
    PROVE  results = <<>> /\ phase # "none" /\ Argv = "oob"
<1>1. Argvs = <<"oob">> /\ Len(Argvs) = 1 /\ results \in Seq(Result)
  BY DEF EvidenceInv, TypeInv, TypeOK
<1>2. results = <<>>
  BY <1>1 DEF Left
<1>. QED  BY <1>1, <1>2 DEF EvidenceInv, Argv

LEMMA EvidenceStep ==
    ASSUME TypeInv, EvidenceInv, [Next]_vars
    PROVE  EvidenceInv'
<1>. USE DEF EvidenceInv, OobIsKept, Argvs, Polled
<1>0. /\ DriverInv /\ RunTypeOK /\ LoopTypeOK
      /\ loop # Free => loop \in Handler /\ job[loop] \in Job \cup {NoJob}
  BY TypeParts DEF TypeInv, LoopTypeOK
<1>1. CASE UNCHANGED <<loop, job, phase, alive, status, results, last, driverVars>>
  BY <1>1 DEF driverVars
<1>2. ASSUME NEW h \in Handler, Admit(h)
      PROVE  EvidenceInv'
  BY <1>2 DEF Admit, processVars, driverVars
<1>3. ASSUME NEW h \in Handler, Launch(h)
      PROVE  EvidenceInv'
  BY <1>3 DEF Launch, processVars, driverVars
<1>4. CASE Start
  <2>1. step = "off"
    BY <1>4, DriverIsFirst DEF Start, Between
  <2>2. /\ loop # Free /\ Left
        /\ phase' = "waits" /\ alive' = {Leader} /\ UNCHANGED workerVars
    BY <1>4 DEF Start, Spawn, Between
  <2>3. CASE Argv = "oob"
    <3>1. \/ job[loop].batch = TRUE /\ Argvs \in Seq({"tool", "absent"})
          \/ /\ job[loop].batch = FALSE
             /\ \E a \in {"tool", "absent", "oob"} : Argvs = <<a>>
          \/ Argvs = <<>>
      <4>1. job[loop] \in Job \cup {NoJob}
        BY <1>0, <2>2
      <4>2. NoJob.argvs = <<>>
        BY DEF NoJob
      <4>. QED  BY <4>1, <4>2, JobTypes
    <3>2. Len(results) \in Nat /\ Len(results) < Len(Argvs)
      BY <1>0, <2>2 DEF RunTypeOK, Left
    <3>3. ~(Argvs \in Seq({"tool", "absent"}))
      <4>. SUFFICES ASSUME Argvs \in Seq({"tool", "absent"})
                    PROVE  FALSE
        OBVIOUS
      <4>1. Len(results) + 1 \in 1..Len(Argvs)
        BY <3>2
      <4>2. Argv \in {"tool", "absent"}
        BY <4>1 DEF Argv
      <4>. QED  BY <2>3, <4>2
    <3>4. PICK a : job[loop].batch = FALSE /\ Argvs = <<a>>
      BY <3>1, <3>2, <3>3
    <3>5. Len(results) = 0 /\ a = "oob"
      BY <2>3, <3>2, <3>4 DEF Argv
    <3>6. step' = "register"
      BY <1>4, <2>3 DEF Start, DriverStart
    <3>. QED  BY <2>2, <3>4, <3>5, <3>6 DEF workerVars
  <2>4. CASE Argv # "oob"
    <3>1. step' = step
      BY <1>4, <2>4 DEF Start, driverVars
    <3>. QED  BY <2>1, <2>2, <3>1 DEF workerVars
  <2>. QED  BY <2>3, <2>4
<1>5. CASE Absent
  <2>1. step = "off"
    BY <1>5, DriverIsFirst DEF Absent, Between
  <2>2. /\ UNCHANGED <<loop, job, phase, last, driverVars>>
        /\ results' # <<>>
    BY <1>0, <1>5 DEF Absent, processVars, RunTypeOK
  <2>. QED  BY <2>1, <2>2 DEF driverVars
<1>6. CASE RunProgram
  <2>1. /\ phase # "none" /\ phase' = phase /\ UNCHANGED workerVars
        /\ loop # Free /\ Left
    BY <1>0, <1>6
    DEF RunProgram, Program, Fork, Leave, CloseOutput, Exit, processVars, RunTypeOK
  <2>2. CASE ~IsDriver /\ Program /\ UNCHANGED driverVars
    <3>1. step = "off"
      BY <2>1, <2>2, DriverIsFirst DEF IsDriver
    <3>. QED  BY <2>1, <2>2, <3>1 DEF workerVars, driverVars
  <2>3. CASE IsDriver /\ Leader \in alive /\ DriverStep /\ UNCHANGED processVars
    <3>1. step # "off" /\ step' # "off"
      BY <2>3 DEF DriverStep, Register, Probe, Probed, Poll, PollLost,
                 PollUndecipherable, HandOver, Interact
    <3>2. results = <<>>
      BY <2>1, <3>1, DriverIsFirst
    <3>. QED  BY <2>1, <2>3, <3>1, <3>2 DEF workerVars, processVars
  <2>4. ASSUME NEW code \in ExitCodes, IsDriver, Exit(Leader, code),
               UNCHANGED driverVars
        PROVE  EvidenceInv'
    <3>1. Polled => code = "ok"
      BY <2>4 DEF ExitCodes, PollError
    <3>2. status' = code /\ step' = step
      BY <2>4 DEF Exit, driverVars
    <3>. QED  BY <2>1, <3>1, <3>2 DEF workerVars
  <2>. QED  BY <1>6, <2>2, <2>3, <2>4 DEF RunProgram
<1>7. CASE TimeOut
  BY <1>7 DEF TimeOut, Expire, workerVars, driverVars
<1>8. CASE ReturnResult
  <2>1. /\ results' = Append(results, [code |-> status, timed_out |-> TimedOut])
        /\ phase \in {"waits", "drains"} /\ Leader \notin alive /\ phase' = "none"
        /\ UNCHANGED <<loop, job, last, driverVars>>
        /\ loop # Free /\ Left
    BY <1>0, <1>8 DEF ReturnResult, Return, Ended, RunTypeOK
  <2>2. results \in Seq(Result) /\ results' # <<>>
    BY <1>0, <2>1 DEF RunTypeOK
  <2>3. ASSUME Polled
        PROVE  results'[1].timed_out \/ results'[1].code = "ok"
    <3>1. results = <<>>
      BY <2>1, <2>3, DriverIsFirst
    <3>2. results'[1] = [code |-> status, timed_out |-> TimedOut]
      BY <2>1, <3>1
    <3>3. TimedOut \/ status = "ok"
      BY <2>1, <2>3 DEF TimedOut
    <3>. QED  BY <3>2, <3>3
  <2>. QED  BY <2>1, <2>2, <2>3 DEF driverVars
<1>9. CASE Evaluate
  <2>1. /\ step' = "off"
        /\ last' = [ok |-> Ok, timed_out |-> AnyTimedOut, handed |-> handed,
                    read |-> read, found |-> IF Ok THEN printed ELSE {}]
        /\ loop # Free /\ ~Left
    BY <1>9 DEF Evaluate, Between
  <2>2. printed = read /\ read \subseteq handed
    BY <1>0 DEF DriverInv, DriverTypeOK
  <2>3. ASSUME ~Ok, ~AnyTimedOut
        PROVE  read = {}
    <3>1. CASE ~Polled
      BY <1>0, <3>1 DEF DriverInv, DriverTypeOK
    <3>2. CASE Polled
      <4>1. Argvs = <<"oob">> /\ job[loop].batch = FALSE
        BY <3>2
      <4>2. results \in Seq(Result) /\ Len(results) >= 1
        BY <1>0, <2>1, <4>1 DEF RunTypeOK, Left
      <4>3. 1 \in DOMAIN results /\ results # <<>>
        BY <4>2
      <4>4. ~results[1].timed_out
        BY <2>3, <4>3 DEF AnyTimedOut
      <4>5. results[1].code = "ok"
        BY <3>2, <4>3, <4>4
      <4>. QED  BY <2>3, <4>1, <4>5 DEF Ok, MergedCode
    <3>. QED  BY <3>1, <3>2
  <2>. QED  BY <2>1, <2>2, <2>3
<1>10. CASE Raise
  <2>1. step = "off"
    BY <1>10, DriverIsFirst DEF Raise, Between
  <2>2. step' = step /\ last' = last
    BY <1>10 DEF Raise, driverVars
  <2>. QED  BY <2>1, <2>2
<1>. QED
  BY <1>1, <1>2, <1>3, <1>4, <1>5, <1>6, <1>7, <1>8, <1>9, <1>10
  DEF Next, vars, workerVars, processVars, Execute, Turn, Consume, Wait, Tick

LEMMA EvidenceInvariant == Spec => []EvidenceInv
<1>1. Init => EvidenceInv
  BY DEF Init, EvidenceInv, OobIsKept, DriverInit, ExecutorInit
<1>2. TypeInv /\ EvidenceInv /\ [Next]_vars => EvidenceInv'
  BY EvidenceStep
<1>. QED  BY <1>1, <1>2, TypeInvariant, PTL DEF Spec

(* A finding of the driver is a URL of its own plan that was called back   *)
(* for, and whatever it read is a finding whatever follows, lost and       *)
(* undecipherable responses included, but for the timeout.                 *)
THEOREM EvidenceIsKept == Spec => []OobIsKept
BY EvidenceInvariant, PTL DEF EvidenceInv

-----------------------------------------------------------------------------
(* The rate, over any span of time.  An observer beside the worker counts  *)
(* its launches and the ticks since a moment of its own choosing.          *)

VARIABLES launched, elapsed

span == <<launched, elapsed>>

SpanBegins == launched' = 0 /\ elapsed' = 0

SpanNext ==
    \/ UNCHANGED vars /\ SpanBegins
    \/ Tick /\ elapsed' = elapsed + 1 /\ launched' = launched
    \/ /\ \E h \in Handler : Launch(h)
       /\ launched' = launched + 1 /\ elapsed' = elapsed
    \/ /\ \/ Consume \/ Execute \/ Raise \/ RunProgram
          \/ \E h \in Handler : Admit(h) \/ Wait(h)
       /\ UNCHANGED span

SpanSpec ==
    /\ Init /\ launched = 0 /\ elapsed = 0
    /\ [][SpanNext]_<<vars, span>>

RateOverSpan == launched * Unit <= Capacity + elapsed * Rate

(* What was launched is paid for by what the bucket held when the span     *)
(* began and by what came in since, less what it holds now.                *)
SpanInv ==
    /\ BucketTypeOK
    /\ launched \in Nat /\ elapsed \in Nat
    /\ launched * Unit + Credit <= Capacity + elapsed * Rate

(* Products, kept apart from the linear arithmetic they occur in.          *)
LEMMA Products ==
    ASSUME NEW a \in Nat, NEW b \in Nat
    PROVE  a * b \in Nat /\ (a + 1) * b = a * b + b /\ 0 * b = 0
OBVIOUS

LEMMA Capped ==
    ASSUME NEW a \in Nat, NEW m \in Nat
    PROVE  (IF a >= m THEN m ELSE a) \in 0..m
OBVIOUS

(* The balance of a span, when it begins, at a tick and at a launch; x and *)
(* y stand for the tokens launched and those that came in.                 *)
LEMMA Balance ==
    ASSUME NEW x \in Nat, NEW y \in Nat, NEW c \in Nat, NEW d \in Nat,
           NEW r \in Nat, NEW m \in Nat, x + c <= m + y
    PROVE  /\ d <= m => 0 + d <= m + 0
           /\ d <= c + r => x + d <= m + (y + r)
           /\ d = c - r => (x + r) + d <= m + y
OBVIOUS

LEMMA SpanStep ==
    ASSUME SpanInv, [SpanNext]_<<vars, span>>
    PROVE  SpanInv'
<1>1. /\ Rate \in Nat /\ Unit \in Nat \ {0} /\ Capacity \in Nat
      /\ tokens \in Nat /\ age \in Nat /\ launched \in Nat /\ elapsed \in Nat
      /\ Credit \in 0..Capacity /\ age * Rate \in Nat
      /\ launched * Unit + Credit <= Capacity + elapsed * Rate
  BY BucketAssumption, CreditType DEF SpanInv, BucketTypeOK
<1>2. [Next]_vars
  BY DEF SpanNext, Next, Turn, span
<1>3. BucketTypeOK' /\ Credit' \in 0..Capacity
  <2>1. BucketTypeOK'
    BY <1>2, BucketSteps, BucketTypes DEF SpanInv
  <2>2. Credit' = IF tokens' + age' * Rate >= Capacity
                  THEN Capacity ELSE tokens' + age' * Rate
    BY DEF Credit
  <2>3. tokens' \in Nat /\ age' \in Nat
    BY <1>1, <2>1 DEF BucketTypeOK
  <2>4. Rate \in Nat /\ Capacity \in Nat
    BY <1>1
  <2>5. age' * Rate \in Nat
    BY <2>3, <2>4, Products
  <2>6. tokens' + age' * Rate \in Nat
    BY <2>3, <2>5
  <2>7. Credit' \in 0..Capacity
    BY <2>2, <2>4, <2>6, Capped
  <2>. QED  BY <2>1, <2>7
<1>4. UNCHANGED bucketVars => Credit' = Credit
  BY DEF bucketVars, Credit
<1>5. CASE SpanBegins
  <2>1. launched' = 0 /\ elapsed' = 0
    BY <1>5 DEF SpanBegins
  <2>2. launched' * Unit = 0 /\ elapsed' * Rate = 0
    BY <1>1, <2>1, Products
  <2>3. launched' * Unit + Credit' <= Capacity + elapsed' * Rate
    BY <1>1, <1>3, <2>2
  <2>. QED  BY <1>3, <2>1, <2>3 DEF SpanInv
<1>6. CASE Tick /\ elapsed' = elapsed + 1 /\ launched' = launched
  <2>1. Credit' <= Credit + Rate
    <3>1. (age + 1) * Rate = age * Rate + Rate
      BY <1>1
    <3>2. CASE tokens + age * Rate >= Capacity
      <4>1. tokens' = tokens /\ age' = age
        BY <1>6, <3>2 DEF Tick, Elapse
      <4>. QED  BY <1>1, <1>4, <4>1 DEF bucketVars
    <3>3. CASE ~(tokens + age * Rate >= Capacity)
      <4>1. tokens' = tokens /\ age' = age + 1
        BY <1>6, <3>3 DEF Tick, Elapse
      <4>2. Credit = tokens + age * Rate
        BY <3>3 DEF Credit
      <4>3. Credit' = IF tokens + (age * Rate + Rate) >= Capacity
                      THEN Capacity ELSE tokens + (age * Rate + Rate)
        BY <3>1, <4>1 DEF Credit
      <4>. QED  BY <1>1, <4>2, <4>3
    <3>. QED  BY <3>2, <3>3
  <2>2. elapsed' * Rate = elapsed * Rate + Rate /\ launched' * Unit = launched * Unit
    BY <1>1, <1>6, Products
  <2>3. elapsed * Rate \in Nat /\ launched * Unit \in Nat
    BY <1>1, Products
  <2>4. launched' * Unit + Credit' <= Capacity + elapsed' * Rate
    BY <1>1, <1>3, <2>1, <2>2, <2>3, Balance
  <2>5. launched' \in Nat /\ elapsed' \in Nat
    BY <1>1, <1>6
  <2>. QED  BY <1>3, <2>4, <2>5 DEF SpanInv
<1>7. CASE /\ \E h \in Handler : Launch(h)
           /\ launched' = launched + 1 /\ elapsed' = elapsed
  <2>1. Take
    BY <1>7 DEF Launch
  <2>2. Credit' = Credit - Unit
    <3>1. tokens' = Credit - Unit /\ age' = 0 /\ Credit >= Unit
      BY <2>1 DEF Take
    <3>. QED  BY <1>1, <3>1 DEF Credit
  <2>3. launched' * Unit = launched * Unit + Unit /\ elapsed' * Rate = elapsed * Rate
    BY <1>1, <1>7, Products
  <2>4. elapsed * Rate \in Nat /\ launched * Unit \in Nat
    BY <1>1, Products
  <2>5. launched' * Unit + Credit' <= Capacity + elapsed' * Rate
    BY <1>1, <1>3, <2>2, <2>3, <2>4, Balance
  <2>6. launched' \in Nat /\ elapsed' \in Nat
    BY <1>1, <1>7
  <2>. QED  BY <1>3, <2>5, <2>6 DEF SpanInv
<1>8. CASE /\ \/ Consume \/ Execute \/ Raise \/ RunProgram
              \/ \E h \in Handler : Admit(h) \/ Wait(h)
           /\ UNCHANGED span
  <2>1. Credit' = Credit
    <3>1. CASE \E h \in Handler : Wait(h)
      <4>1. tokens' = Credit /\ age' = 0 /\ Credit < Unit
        BY <3>1 DEF Wait, TooFew
      <4>. QED  BY <1>1, <4>1 DEF Credit
    <3>2. CASE UNCHANGED bucketVars
      BY <1>4, <3>2
    <3>. QED  BY <1>8, <3>1, <3>2 DEF Consume, Execute, Raise, RunProgram, Admit,
              Start, Absent, TimeOut, ReturnResult, Evaluate
  <2>2. launched' = launched /\ elapsed' = elapsed
    BY <1>8 DEF span
  <2>. QED  BY <1>1, <1>3, <2>1, <2>2 DEF SpanInv
<1>9. CASE UNCHANGED <<vars, span>>
  <2>1. Credit' = Credit
    BY <1>4, <1>9 DEF vars
  <2>2. launched' = launched /\ elapsed' = elapsed
    BY <1>9 DEF span
  <2>. QED  BY <1>1, <1>3, <2>1, <2>2 DEF SpanInv
<1>. QED  BY <1>5, <1>6, <1>7, <1>8, <1>9 DEF SpanNext

(* In no span of n ticks, wherever it begins, does a worker launch more    *)
(* than (Capacity + n * Rate) / Unit runs (common/ratelimit.py:10-15), and  *)
(* the observer constrains nothing it does.                                *)
THEOREM RateHoldsOverEverySpan == SpanSpec => []RateOverSpan /\ Spec
<1>1. Init /\ launched = 0 /\ elapsed = 0 => SpanInv
  <2>. SUFFICES ASSUME Init, launched = 0, elapsed = 0 PROVE SpanInv
    OBVIOUS
  <2>1. /\ Capacity \in Nat /\ Rate \in Nat /\ Unit \in Nat
        /\ tokens = Capacity /\ age = 0
    BY BucketAssumption DEF Init, BucketInit
  <2>2. 0 * Rate = 0 /\ 0 * Unit = 0
    BY <2>1
  <2>. QED  BY <2>1, <2>2 DEF SpanInv, BucketTypeOK, Credit
<1>2. SpanInv /\ [SpanNext]_<<vars, span>> => SpanInv'
  BY SpanStep
<1>3. SpanInv => RateOverSpan
  <2>. SUFFICES ASSUME SpanInv PROVE RateOverSpan
    OBVIOUS
  <2>1. /\ Rate \in Nat /\ Unit \in Nat /\ Capacity \in Nat
        /\ launched * Unit + Credit <= Capacity + elapsed * Rate
        /\ Credit \in 0..Capacity /\ launched \in Nat /\ elapsed \in Nat
    BY BucketAssumption, CreditType DEF SpanInv
  <2>2. launched * Unit \in Nat /\ elapsed * Rate \in Nat
    BY <2>1
  <2>. QED  BY <2>1, <2>2 DEF RateOverSpan
<1>4. [SpanNext]_<<vars, span>> => [Next]_vars
  BY DEF SpanNext, Next, Turn, span
<1>. QED  BY <1>1, <1>2, <1>3, <1>4, PTL DEF SpanSpec, Spec

-----------------------------------------------------------------------------
(* The kill                                                                *)

(* What the kill leaves has left the session, and so have its children.    *)
KillInv ==
    /\ ExecutorTypeOK
    /\ phase = "drains" => alive \subseteq away

(* After the timeout run returns as soon as no process that left the       *)
(* session holds the output: everything else is dead, the leader included. *)
KillSuffices == phase = "drains" /\ ~Stuck => Ended

(* No fork, exit or departure of a process brings back what the kill ended.*)
LEMMA KillStep ==
    ASSUME KillInv, ExecutorStep
    PROVE  KillInv'
<1>0. ExecutorTypeOK' /\ ExecutorTypeOK
  BY ExecutorTypes DEF KillInv
<1>. USE DEF KillInv
<1>1. CASE Spawn \/ Return
  BY <1>0, <1>1 DEF Spawn, Return
<1>2. CASE Expire
  BY <1>0, <1>2 DEF Expire, KillProcessGroup
<1>3. ASSUME NEW p \in Process, NEW q \in Process, Fork(p, q) PROVE KillInv'
  BY <1>0, <1>3 DEF Fork, With
<1>4. ASSUME NEW p \in Process, Leave(p) \/ CloseOutput(p) PROVE KillInv'
  BY <1>0, <1>4 DEF Leave, CloseOutput
<1>5. ASSUME NEW p \in Process, NEW code, Exit(p, code) PROVE KillInv'
  BY <1>0, <1>5 DEF Exit
<1>6. CASE UNCHANGED processVars
  BY <1>0, <1>6 DEF processVars
<1>. QED  BY <1>1, <1>2, <1>3, <1>4, <1>5, <1>6, ExecutorAssumption
          DEF ExecutorStep, Program

(* The kill of the process group suffices (worker/executor.py:126-130), for*)
(* every tree of processes: what HandlersReturn rests on.                  *)
THEOREM KillEndsTheProgram == Spec => []KillSuffices
<1>1. Init => KillInv
  BY ExecutorAssumption DEF Init, ExecutorInit, KillInv, ExecutorTypeOK, Code
<1>2. KillInv /\ [Next]_vars => KillInv'
  BY PartsStep, KillStep
<1>3. KillInv => KillSuffices
  BY DEF KillInv, KillSuffices, Stuck, Ended, ExecutorTypeOK
<1>. QED  BY <1>1, <1>2, <1>3, PTL DEF Spec
=============================================================================
