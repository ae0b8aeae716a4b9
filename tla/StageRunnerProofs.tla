-------------------------- MODULE StageRunnerProofs --------------------------
(***************************************************************************)
(* Proofs about StageRunner, for every selection, number of permits and    *)
(* attempts, and whatever the tools print.                                 *)
(*                                                                         *)
(* The semaphore, the stages and the hand-off files are tied together:     *)
(* what has a permit belongs to the stage under way, what is below it has  *)
(* its result, and a file holds just what the tools of its home stage      *)
(* found, which none of a later stage adds to.                             *)
(***************************************************************************)
EXTENDS StageRunner, FiniteSetTheorems, WellFoundedInduction, TLAPS

-----------------------------------------------------------------------------
(* The tools                                                               *)

File == {"subdomains", "live_hosts"}

(* The stage whose tools fill a file.                                      *)
Home(f) == IF f = "subdomains" THEN 1 ELSE 2

(* What a tool may find.                                                   *)
Yields(tool, found) ==
    /\ found \subseteq Evidence
    /\ \A g \in found, f \in File : g.type = KindIn(f) => StageOf(tool) = Home(f)

LEMMA ToolFacts ==
    ASSUME NEW tool \in ToolNames
    PROVE  /\ StageOf(tool) \in Stages
           /\ TOOL_SPECS[tool].requires_files \subseteq File
           /\ \A f \in TOOL_SPECS[tool].requires_files :
                 StageOf(tool) = Home(f) + 1
BY DEF ToolNames, StageOf, TOOL_SPECS, Spec_, Stages, File, Home

LEMMA ParserFacts ==
    ASSUME NEW tool \in ToolNames, NEW out \in SUBSET Line
    PROVE  Yields(tool, parse_findings(tool, out))
<1>1. ASSUME NEW type \in FindingKind, NEW lines \in SUBSET Line,
             \A f \in File : type = KindIn(f) => StageOf(tool) = Home(f)
      PROVE  Yields(tool, Findings(type, lines))
  BY <1>1 DEF Yields, Findings, Line, Evidence
<1>2. Yields(tool, {})
  BY DEF Yields
<1>3. \A forms : Of(forms, out) \in SUBSET Line
  BY DEF Of
<1>4. {"subdomain", "open_port", "live_host", "vulnerability", "host_ports"}
        = FindingKind
  BY DEF FindingKind
<1>5. CASE tool \in {"subfinder", "assetfinder", "amass"}
  <2>1. parse_findings(tool, out) = Findings("subdomain", out)
    BY <1>5 DEF parse_findings, TOOL_SPECS, Spec_, LineParser
  <2>2. StageOf(tool) = 1
    BY <1>5 DEF StageOf, TOOL_SPECS, Spec_
  <2>. QED  BY <1>1, <1>4, <2>1, <2>2 DEF KindIn, File, Home
<1>6. CASE tool = "nmap"
  <2>1. parse_findings(tool, out) = Findings("host_ports", Of({"ports"}, out))
    BY <1>6 DEF parse_findings, TOOL_SPECS, Spec_, NmapParser
  <2>. QED  BY <1>1, <1>3, <1>4, <2>1 DEF KindIn, File, Home
<1>7. CASE tool = "naabu"
  <2>1. parse_findings(tool, out) = Findings("open_port", Of({"host_port"}, out))
    BY <1>7 DEF parse_findings, TOOL_SPECS, Spec_, NaabuParser
  <2>. QED  BY <1>1, <1>3, <1>4, <2>1 DEF KindIn, File, Home
<1>8. CASE tool = "httpx"
  <2>1. \/ parse_findings(tool, out) = {}
        \/ parse_findings(tool, out) = Findings("live_host", Of({"json"}, out))
    BY <1>8 DEF parse_findings, TOOL_SPECS, Spec_, HttpxParser
  <2>2. StageOf(tool) = 2
    BY <1>8 DEF StageOf, TOOL_SPECS, Spec_
  <2>. QED  BY <1>1, <1>2, <1>3, <1>4, <2>1, <2>2 DEF KindIn, File, Home
<1>9. CASE tool = "nuclei"
  <2>1. \/ parse_findings(tool, out) = {}
        \/ parse_findings(tool, out) = Findings("vulnerability", Of({"json"}, out))
    BY <1>9 DEF parse_findings, TOOL_SPECS, Spec_, NucleiParser
  <2>. QED  BY <1>1, <1>2, <1>3, <1>4, <2>1 DEF KindIn, File, Home
<1>. QED  BY <1>5, <1>6, <1>7, <1>8, <1>9 DEF ToolNames, TOOL_SPECS

-----------------------------------------------------------------------------
(* Steps                                                                   *)

AtWork == {"runs", "reads", "killed", "sleeps"}

(* How far an attempt is, and a run_one with all its attempts.             *)
Place(t) ==
    CASE t.at = "runs"   -> 1
      [] t.at = "reads"  -> IF t.held THEN 2 ELSE 3
      [] t.at = "killed" -> IF t.held THEN 4 ELSE 5
      [] OTHER           -> 6

Progress(t) ==
    CASE t.at = "waits" -> 0
      [] t.at = "ended" -> 7 * MaxRetries + 7
      [] OTHER          -> 7 * t.attempt + Place(t)

(* A tool that has a permit goes on.                                       *)
Moves(i) ==
    /\ Scanning /\ task[i].at \in AtWork
    /\ \E t \in RunOne :
        /\ t.at \in AtWork
        /\ t.second = task[i].second
        /\ t.at = "sleeps" => t.attempt < MaxRetries
        /\ t.at \in {"runs", "killed", "sleeps"} => t.rc = None
        /\ t.final_rc # 0
        /\ Progress(task[i]) < Progress(t)
        /\ task' = [task EXCEPT ![i] = t]
    /\ UNCHANGED <<config, specs, outcome, stage, result, file, log, report>>

(* It ends, with the attempt its last program was.                         *)
Ends(i) ==
    /\ Scanning /\ task[i].at \in AtWork
    /\ \E r \in ToolResult :
        /\ r.status # "skipped"
        /\ r.attempts = task[i].attempt
        /\ Yields(specs[i], r.findings)
        /\ r.findings # {} => r.status = "success"
        /\ r.status = "success" =>
               task[i].at = "reads" /\ task[i].rc = 0 /\ ~task[i].held
        /\ r.status = "failed" => r.attempts = MaxRetries
        /\ result' = [result EXCEPT ![i] = r]
    /\ log' = [p \in DOMAIN log \cup {raw_log_path(i)} |->
                 IF p = raw_log_path(i)
                 THEN [slot |-> i, attempts |-> task[i].attempt]
                 ELSE log[p]]
    /\ task' = [task EXCEPT ![i].at = "ended", ![i].rc = None]
    /\ UNCHANGED <<config, specs, outcome, stage, file, report>>

(* The run is over: reported, or ended by an error.                        *)
Stops ==
    /\ outcome = "running"
    /\ outcome' \in {"reported", "disk_full", "error"}
    /\ report'.files \subseteq {"json", "markdown"}
    /\ outcome' = "reported" /\ ~config.dry_run =>
          report'.files = {"json", "markdown"} /\ report'.results = result
          /\ stage \notin Stages
    /\ UNCHANGED <<config, specs, stage, task, result, file, log>>

NextStage ==
    /\ Scanning
    /\ stage \in Stages
    /\ \A i \in InStage : result[i] # None
    /\ file' = update_context
    /\ stage' = stage + 1
    /\ UNCHANGED <<config, specs, outcome, task, result, log, report>>

-----------------------------------------------------------------------------
(* The invariant                                                           *)

(* A run's own record.                                                     *)
Attempts ==
    \A i \in Slot :
        /\ task[i].at = "sleeps" => task[i].attempt < MaxRetries
        /\ task[i].at \in {"runs", "killed", "sleeps"} => task[i].rc = None
        /\ task[i].at \in AtWork => task[i].final_rc # 0
        /\ task[i].at = "waits" => task[i].rc = None /\ task[i].final_rc = None

(* Below the stage under way everything has its result, above it nothing   *)
(* has begun.                                                              *)
Order ==
    \A i \in Slot :
        /\ result[i] # None <=> task[i].at = "ended"
        /\ StageOf(specs[i]) < stage => task[i].at = "ended"
        /\ StageOf(specs[i]) > stage => task[i].at = "waits"

Kinds == \A i \in Slot : result[i] # None => Yields(specs[i], result[i].findings)

(* A hand-off file is written when its home stage is over.                 *)
Files ==
    \A f \in File :
        LET values == Values(KindIn(f))
        IN  file[f] = IF Home(f) < stage /\ values # {} THEN values ELSE NoFile

Fed ==
    \A i \in Slot :
        /\ task[i].at \in AtWork => Missing(i) = {}
        /\ result[i] # None =>
              (result[i].status = "skipped" <=>
               \E f \in TOOL_SPECS[specs[i]].requires_files : Values(KindIn(f)) = {})

Logged ==
    /\ \A p \in DOMAIN log :
          LET k == log[p].slot
          IN  /\ p = raw_log_path(k)
              /\ result[k] # None
              /\ log[p].attempts = result[k].attempts
    /\ \A i \in Slot :
          result[i] # None /\ result[i].status # "skipped" =>
              raw_log_path(i) \in DOMAIN log

Permits == IsFiniteSet(Holders) /\ Cardinality(Holders) <= Concurrency

Reported ==
    outcome = "reported" /\ ~config.dry_run =>
        /\ report.files = {"json", "markdown"}
        /\ report.results = result
        /\ stage \notin Stages

RunnerInv ==
    /\ TypeOK /\ Attempts /\ Order /\ Kinds /\ Files /\ Fed
    /\ Logged /\ Permits /\ Reported

-----------------------------------------------------------------------------
(* Every step is one of these                                              *)

LEMMA FileFacts ==
    ASSUME TypeOK, NEW i \in Slot
    PROVE  /\ specs[i] \in ToolNames
           /\ StageOf(specs[i]) \in Stages
           /\ TOOL_SPECS[specs[i]].requires_files \subseteq File
           /\ result[i] = None \/ result[i] \in ToolResult
           /\ task[i] \in RunOne
BY ToolFacts DEF TypeOK, Slot

(* An attempt at work is past its start and before its end.                *)
LEMMA ProgressFacts ==
    ASSUME NEW t \in RunOne
    PROVE  /\ t.at \in AtWork => Place(t) \in 1..6
           /\ t.at \in AtWork => Progress(t) = 7 * t.attempt + Place(t)
           /\ Progress(t) \in 0..(7 * MaxRetries + 7)
           /\ t.at \in AtWork => Progress(t) \in 1..(7 * MaxRetries + 6)
<1>1. t.at \in AtWork => Place(t) \in 1..6
  BY DEF Place, AtWork
<1>2. t.at \in AtWork => Progress(t) = 7 * t.attempt + Place(t)
  BY DEF Progress, AtWork
<1>3. t.attempt \in Nat /\ 1 <= t.attempt /\ t.attempt <= MaxRetries /\ MaxRetries \in Nat
  BY RunnerAssumption DEF RunOne
<1>4. t.at \in AtWork => Progress(t) \in 1..(7 * MaxRetries + 6)
  BY <1>1, <1>2, <1>3
<1>5. t.at \in AtWork \cup {"waits", "ended"}
  BY DEF RunOne, AtWork
<1>6. t.at = "waits" => Progress(t) = 0
  BY DEF Progress
<1>7. t.at = "ended" => Progress(t) = 7 * MaxRetries + 7
  BY DEF Progress
<1>. QED  BY <1>1, <1>2, <1>3, <1>4, <1>5, <1>6, <1>7

(* A tool at work reads what its command line names.                       *)
LEMMA PrintsFacts ==
    ASSUME TypeOK, NEW i \in Slot, Missing(i) = {}
    PROVE  /\ Prints(specs[i], Argument(specs[i], file)) \subseteq SUBSET Line
           /\ Argument(specs[i], file) \in (SUBSET Value) \cup {{Domain}}
<1>1. specs[i] \in ToolNames
  BY FileFacts
<1>2. CASE TOOL_SPECS[specs[i]].requires_files = {}
  <2>1. Argument(specs[i], file) = {Domain}
    BY <1>1, <1>2 DEF Argument, TOOL_SPECS, Spec_, ToolNames
  <2>2. Prints(specs[i], {Domain}) \subseteq SUBSET Line
    BY <1>1, <1>2, RunnerAssumption
  <2>3. Argument(specs[i], file) \in (SUBSET Value) \cup {{Domain}}
    <3>1. {Domain} \in {{Domain}}
      OBVIOUS
    <3>. QED  BY <2>1, <3>1
  <2>. QED  BY <2>1, <2>2, <2>3
<1>3. CASE TOOL_SPECS[specs[i]].requires_files # {}
  <2>1. \/ specs[i] = "httpx" /\ "subdomains" \in TOOL_SPECS[specs[i]].requires_files
        \/ specs[i] = "nuclei" /\ "live_hosts" \in TOOL_SPECS[specs[i]].requires_files
    BY <1>1, <1>3 DEF TOOL_SPECS, Spec_, ToolNames
  <2>2. Argument(specs[i], file) \in SUBSET Value
    BY <2>1 DEF Argument, Missing, TypeOK
  <2>. QED  BY <1>1, <1>3, <2>2, RunnerAssumption
<1>. QED  BY <1>2, <1>3

LEMMA ConcludeSteps ==
    ASSUME TypeOK, Attempts, NEW i \in Slot, Scanning, task[i].at \in AtWork,
           task[i].at # "sleeps",
           NEW rc \in {0, 1, None}, NEW out \in SUBSET Line,
           rc = 0 => task[i].at = "reads" /\ task[i].rc = 0 /\ ~task[i].held,
           Conclude(i, rc, out), UNCHANGED <<config, specs, stage, file, report>>
    PROVE  Moves(i) \/ Ends(i) \/ Stops
<1>0. task[i].at \in {"runs", "reads", "killed"}
  BY DEF AtWork
<1>1. task[i] \in RunOne /\ specs[i] \in ToolNames /\ task[i].final_rc # 0
  BY FileFacts DEF Attempts
<1>2. FinalCode(i, rc) \in {0, 1, None} /\ (FinalCode(i, rc) = 0 => rc = 0)
  BY <1>1 DEF FinalCode, RunOne
<1>3. CASE ~(rc = 0 \/ task[i].attempt = MaxRetries)
  <2>1. Sleep(i, FinalCode(i, rc))
    BY <1>3 DEF Conclude
  <2> DEFINE t == [task[i] EXCEPT !.at = "sleeps", !.rc = None,
                                  !.final_rc = FinalCode(i, rc)]
  <2>2. task' = [task EXCEPT ![i] = t]
    BY <2>1 DEF Sleep
  <2>3. t \in RunOne /\ t.at = "sleeps" /\ t.second = task[i].second
        /\ t.attempt = task[i].attempt /\ t.final_rc = FinalCode(i, rc)
        /\ t.rc = None
    BY <1>1, <1>2 DEF RunOne
  <2>4. t.attempt < MaxRetries
    BY <1>1, <1>3, <2>3, RunnerAssumption DEF RunOne
  <2>5. UNCHANGED <<config, specs, outcome, stage, result, file, log, report>>
    BY <2>1 DEF Sleep
  <2>6. Progress(task[i]) < Progress(t)
    <3>1. Place(task[i]) \in 1..5 /\ Place(t) = 6
      BY <1>0, <2>3 DEF Place
    <3>2. task[i].attempt \in Nat /\ t.at \in AtWork
      BY <1>1, <2>3 DEF RunOne, AtWork
    <3>. HIDE DEF t
    <3>. QED  BY <1>1, <2>3, <3>1, <3>2, ProgressFacts
  <2>. QED  BY <1>2, <1>3, <2>2, <2>3, <2>4, <2>5, <2>6 DEF Moves, AtWork
<1>4. CASE rc = 0 \/ task[i].attempt = MaxRetries
  <2>1. Finish(i, FinalCode(i, rc), out)
    BY <1>4 DEF Conclude
  <2> DEFINE status == IF FinalCode(i, rc) = 0 THEN "success" ELSE "failed"
             r == Result(status,
                         IF status = "success"
                         THEN parse_findings(specs[i], out) ELSE {},
                         task[i].attempt, FinalCode(i, rc))
  <2>2. CASE outcome' = "disk_full" /\ UNCHANGED <<log, result, task>>
    BY <2>2 DEF Stops, Scanning, TypeOK
  <2>3. CASE /\ log' = [p \in DOMAIN log \cup {raw_log_path(i)} |->
                          IF p = raw_log_path(i)
                          THEN [slot |-> i, attempts |-> task[i].attempt]
                          ELSE log[p]]
             /\ result' = [result EXCEPT ![i] = r]
             /\ task' = [task EXCEPT ![i].at = "ended", ![i].rc = None]
             /\ UNCHANGED outcome
    <3>1. Yields(specs[i], r.findings) /\ r.findings \in SUBSET Evidence
      BY <1>1, ParserFacts DEF Result, Yields
    <3>2. r \in ToolResult
      BY <1>1, <1>2, <3>1 DEF Result, ToolResult, RunOne
    <3>3. r.status = "success" => rc = 0
      BY <1>2 DEF Result
    <3>4. r.status = "failed" => task[i].attempt = MaxRetries
      <4>1. rc = 0 => FinalCode(i, rc) = 0
        BY NoneAssumption DEF FinalCode
      <4>. QED  BY <1>4, <4>1 DEF Result
    <3>5. r.status # "skipped" /\ r.attempts = task[i].attempt
          /\ (r.findings # {} => r.status = "success")
      BY DEF Result
    <3>. HIDE DEF r
    <3>. QED  BY <2>3, <3>1, <3>2, <3>3, <3>4, <3>5 DEF Ends
  <2>. QED  BY <2>1, <2>2, <2>3 DEF Finish
<1>. QED  BY <1>3, <1>4

LEMMA StepKinds ==
    ASSUME TypeOK, Attempts, Files, Fed, [Next]_vars
    PROVE  \/ \E i \in Slot : Moves(i) \/ Ends(i) \/ Acquire(i) \/ Skip(i)
           \/ Stops \/ NextStage \/ UNCHANGED vars
<1>1. ASSUME NEW i \in Slot, Step(i) \/ Exit(i) \/ Release(i)
      PROVE  Moves(i) \/ Ends(i) \/ Acquire(i) \/ Skip(i) \/ Stops
  <2>1. task[i] \in RunOne /\ specs[i] \in ToolNames
    BY FileFacts
  <2>2. CASE LaunchFails(i)
    <3>1. task[i].at = "runs"
      BY <2>2 DEF LaunchFails, Running
    <3>2. None # 0
      BY NoneAssumption
    <3>. QED  BY <2>2, <3>1, <3>2, ConcludeSteps DEF LaunchFails, Running, AtWork
  <2>3. CASE Exit(i)
    <3>1. PICK e \in Exits :
            task' = [task EXCEPT ![i].at = "reads", ![i].rc = e.rc,
                                 ![i].held = e.held]
      BY <2>3 DEF Exit
    <3> DEFINE t == [task[i] EXCEPT !.at = "reads", !.rc = e.rc, !.held = e.held]
    <3>2. task' = [task EXCEPT ![i] = t]
      BY <3>1
    <3>3. t \in RunOne /\ t.at = "reads" /\ t.second = task[i].second
          /\ t.final_rc = task[i].final_rc
      BY <2>1 DEF RunOne, Exits
    <3>4. task[i].final_rc # 0
      BY <2>3 DEF Exit, Running, Attempts, AtWork
    <3>5. Progress(task[i]) < Progress(t)
      <4>1. task[i].at = "runs" /\ Place(task[i]) = 1 /\ Place(t) \in 2..3
        BY <2>3, <3>3 DEF Exit, Running, Place
      <4>2. t.attempt = task[i].attempt /\ task[i].attempt \in Nat
        BY <2>1 DEF RunOne
      <4>. HIDE DEF t
      <4>. QED  BY <2>1, <3>3, <4>1, <4>2, ProgressFacts DEF AtWork
    <3>. HIDE DEF t
    <3>. QED  BY <2>3, <3>2, <3>3, <3>4, <3>5 DEF Moves, AtWork, Exit, Running
  <2>4. CASE Expire(i)
    <3>1. PICK held \in BOOLEAN :
            task' = [task EXCEPT ![i].at = "killed", ![i].rc = None,
                                 ![i].held = held]
      BY <2>4 DEF Expire
    <3> DEFINE t == [task[i] EXCEPT !.at = "killed", !.rc = None, !.held = held]
    <3>2. task' = [task EXCEPT ![i] = t]
      BY <3>1
    <3>3. t \in RunOne /\ t.at = "killed" /\ t.second = task[i].second
          /\ t.rc = None /\ t.final_rc = task[i].final_rc
      BY <2>1 DEF RunOne
    <3>4. task[i].final_rc # 0
      BY <2>4 DEF Expire, Running, Attempts, AtWork
    <3>5. Progress(task[i]) < Progress(t)
      <4>1. /\ task[i].at \in {"runs", "reads"}
            /\ Place(task[i]) \in 1..3 /\ Place(t) \in 4..5
        BY <2>4, <3>3 DEF Expire, Running, Place
      <4>2. t.attempt = task[i].attempt /\ task[i].attempt \in Nat
        BY <2>1 DEF RunOne
      <4>. HIDE DEF t
      <4>. QED  BY <2>1, <3>3, <4>1, <4>2, ProgressFacts DEF AtWork
    <3>. HIDE DEF t
    <3>. QED  BY <2>4, <3>2, <3>3, <3>4, <3>5 DEF Moves, AtWork, Expire, Running
  <2>5. CASE Release(i)
    <3> DEFINE t == [task[i] EXCEPT !.held = FALSE]
    <3>1. task' = [task EXCEPT ![i] = t]
      BY <2>5 DEF Release
    <3>2. t \in RunOne /\ t.at = task[i].at /\ t.second = task[i].second
          /\ t.rc = task[i].rc /\ t.final_rc = task[i].final_rc
      BY <2>1 DEF RunOne
    <3>3. /\ t.at \in {"reads", "killed"} /\ t.final_rc # 0
          /\ t.at = "killed" => t.rc = None
      BY <2>5, <3>2 DEF Release, Attempts, AtWork
    <3>4. Progress(task[i]) < Progress(t)
      <4>1. task[i].held = TRUE /\ t.held = FALSE
        BY <2>1, <2>5 DEF Release, RunOne
      <4>2. Place(task[i]) < Place(t) /\ Place(task[i]) \in Nat /\ Place(t) \in Nat
        BY <3>2, <3>3, <4>1 DEF Place
      <4>3. t.attempt = task[i].attempt /\ task[i].attempt \in Nat
        BY <2>1 DEF RunOne
      <4>. HIDE DEF t
      <4>. QED  BY <2>1, <3>2, <3>3, <4>2, <4>3, ProgressFacts DEF AtWork
    <3>. HIDE DEF t
    <3>. QED  BY <2>5, <3>1, <3>2, <3>3, <3>4 DEF Moves, AtWork, Release
  <2>6. CASE Drain(i)
    <3>1. /\ task[i].at \in {"reads", "killed"} /\ ~task[i].held
          /\ task[i].at = "killed" => task[i].rc = None
      BY <2>6 DEF Drain, Attempts
    <3>2. task[i].at \in AtWork /\ Missing(i) = {}
      BY <3>1 DEF AtWork, Fed
    <3>3. PICK out \in Prints(specs[i], Argument(specs[i], file)) :
            Conclude(i, task[i].rc, out)
      BY <2>6 DEF Drain
    <3>4. out \in SUBSET Line /\ task[i].rc \in {0, 1, None}
      BY <2>1, <3>2, <3>3, PrintsFacts DEF RunOne
    <3>5. task[i].rc = 0 => task[i].at = "reads"
      BY <3>1, NoneAssumption
    <3>6. Scanning /\ UNCHANGED <<config, specs, stage, file, report>>
      BY <2>6 DEF Drain
    <3>. QED  BY <3>1, <3>2, <3>3, <3>4, <3>5, <3>6, ConcludeSteps
  <2>7. CASE Retry(i)
    <3> DEFINE t == [task[i] EXCEPT !.at = "runs", !.attempt = @ + 1]
    <3>1. task' = [task EXCEPT ![i] = t]
      BY <2>7 DEF Retry
    <3>2. task[i].attempt < MaxRetries /\ task[i].final_rc # 0
      BY <2>7 DEF Retry, Attempts, AtWork
    <3>3. task[i].attempt + 1 \in 1..MaxRetries
      BY <2>1, <3>2, RunnerAssumption DEF RunOne
    <3>4. t \in RunOne /\ t.at = "runs" /\ t.second = task[i].second
          /\ t.rc = task[i].rc /\ t.final_rc = task[i].final_rc
      BY <2>1, <3>3 DEF RunOne
    <3>5. task[i].rc = None
      BY <2>7 DEF Retry, Attempts
    <3>6. Progress(task[i]) < Progress(t)
      <4>1. task[i].at = "sleeps" /\ task[i].attempt \in Nat
            /\ t.attempt = task[i].attempt + 1
        BY <2>1, <2>7 DEF Retry, RunOne
      <4>. HIDE DEF t
      <4>. QED  BY <2>1, <3>4, <4>1, ProgressFacts DEF AtWork
    <3>. HIDE DEF t
    <3>. QED  BY <2>7, <3>1, <3>2, <3>4, <3>5, <3>6 DEF Moves, AtWork, Retry
  <2>. QED  BY <1>1, <2>2, <2>3, <2>4, <2>5, <2>6, <2>7 DEF Step
<1>2. CASE Engine
  <2>1. CASE EndStage
    BY <2>1 DEF EndStage, NextStage, Stops, Scanning, TypeOK
  <2>2. CASE NoTools
    BY <2>2 DEF NoTools, Stops, Scanning, TypeOK
  <2>3. CASE Report
    BY <2>3 DEF Report, WriteReports, Scanning, Stops
  <2>4. CASE DryRun
    BY <2>4 DEF DryRun, WriteReports, Stops
  <2>. QED  BY <1>2, <2>1, <2>2, <2>3, <2>4 DEF Engine
<1>. QED  BY <1>1, <1>2 DEF Next

-----------------------------------------------------------------------------
(* What was found                                                          *)

LEMMA ValuesMember ==
    ASSUME NEW type, NEW v
    PROVE  v \in Values(type) <=>
              \E j \in Slot : /\ result[j] # None
                             /\ \E g \in result[j].findings :
                                    g.type = type /\ g.value = v
BY DEF Values

LEMMA ValuesAreValues ==
    ASSUME TypeOK, NEW type
    PROVE  Values(type) \in SUBSET Value /\ Values(type) # NoFile
<1>1. ASSUME NEW v \in Values(type)
      PROVE  v \in Value
  <2>1. PICK j \in Slot : /\ result[j] # None
                         /\ \E g \in result[j].findings : g.value = v
    BY ValuesMember
  <2>2. result[j].findings \subseteq Evidence
    BY <2>1, FileFacts DEF ToolResult
  <2>. QED  BY <2>1, <2>2 DEF Evidence
<1>. QED  BY <1>1, NoneAssumption

(* What a file holds was found in its home stage, and in no other.         *)
LEMMA FoundIsValues ==
    ASSUME TypeOK, Kinds, NEW f \in File
    PROVE  FoundBefore(Home(f) + 1, f) = Values(KindIn(f))
<1>1. ASSUME NEW v \in FoundBefore(Home(f) + 1, f)
      PROVE  v \in Values(KindIn(f))
  <2>1. PICK j \in Slot :
          result[j] # None
          /\ [type |-> KindIn(f), value |-> v] \in result[j].findings
    BY DEF FoundBefore
  <2> DEFINE g == [type |-> KindIn(f), value |-> v]
  <2>2. g.type = KindIn(f) /\ g.value = v
    OBVIOUS
  <2>. QED  BY <2>1, <2>2, ValuesMember
<1>2. ASSUME NEW v \in Values(KindIn(f))
      PROVE  v \in FoundBefore(Home(f) + 1, f)
  <2>1. PICK j \in Slot :
          /\ result[j] # None
          /\ \E g \in result[j].findings : g.type = KindIn(f) /\ g.value = v
    BY ValuesMember
  <2>2. PICK g \in result[j].findings : g.type = KindIn(f) /\ g.value = v
    BY <2>1
  <2>3. g \in Evidence /\ StageOf(specs[j]) = Home(f)
    BY <2>1, <2>2 DEF Kinds, Yields
  <2>4. g = [type |-> KindIn(f), value |-> v] /\ v \in Value
    BY <2>2, <2>3 DEF Evidence
  <2>5. StageOf(specs[j]) < Home(f) + 1
    BY <2>3, FileFacts DEF Stages, Home
  <2>. QED  BY <2>1, <2>2, <2>4, <2>5 DEF FoundBefore
<1>. QED  BY <1>1, <1>2

(* A result without findings of a type leaves the values of the type.      *)
LEMMA ValuesStay ==
    ASSUME NEW i \in Slot, TypeOK, result[i] = None, NEW r \in ToolResult,
           result' = [result EXCEPT ![i] = r], specs' = specs,
           NEW type, \A g \in r.findings : g.type # type
    PROVE  Values(type)' = Values(type)
<1> DEFINE done == {j \in Slot : result[j] # None}
           all  == UNION {result[j].findings : j \in done}
           allP == UNION {result'[j].findings : j \in {k \in Slot : result'[k] # None}}
<1>1. DOMAIN result = Slot /\ r # None
  BY NoneAssumption DEF TypeOK
<1>2. allP = all \cup r.findings
  BY <1>1
<1>3. {g \in allP : g.type = type} = {g \in all : g.type = type}
  BY <1>2
<1>. HIDE DEF all, allP
<1>4. Values(type)' = {g.value : g \in {h \in allP : h.type = type}}
  BY DEF Values, Slot, allP
<1>5. Values(type) = {g.value : g \in {h \in all : h.type = type}}
  BY DEF Values, all
<1>. QED  BY <1>3, <1>4, <1>5

(* A step that leaves results and files leaves what they say.              *)
LEMMA Unread ==
    ASSUME UNCHANGED <<specs, result, file>>
    PROVE  /\ Slot' = Slot
           /\ \A type : Values(type)' = Values(type)
           /\ \A j : Missing(j)' = Missing(j)
BY DEF Slot, Values, Missing

-----------------------------------------------------------------------------
(* The invariant is kept                                                   *)

(* What begins, runs and ends is of the stage under way.                   *)
LEMMA WorkIsInStage ==
    ASSUME TypeOK, Order, NEW i \in Slot, task[i].at \in AtWork
    PROVE  StageOf(specs[i]) = stage /\ result[i] = None
BY FileFacts DEF Order, AtWork, TypeOK, Stages

(* A tool that is through read files of stages that are over.              *)
LEMMA InputsAreOver ==
    ASSUME TypeOK, Order, NEW i \in Slot, task[i].at # "waits",
           NEW f \in TOOL_SPECS[specs[i]].requires_files
    PROVE  f \in File /\ StageOf(specs[i]) = Home(f) + 1 /\ Home(f) < stage
<1>1. specs[i] \in ToolNames /\ StageOf(specs[i]) \in Stages
  BY FileFacts
<1>2. f \in File /\ StageOf(specs[i]) = Home(f) + 1
  BY <1>1, ToolFacts
<1>3. StageOf(specs[i]) <= stage
  BY <1>1 DEF Order, TypeOK, Stages
<1>. QED  BY <1>2, <1>3 DEF TypeOK, Home

LEMMA MovesKeep ==
    ASSUME RunnerInv, NEW i \in Slot, Moves(i)
    PROVE  RunnerInv'
<1>. USE DEF RunnerInv
<1>1. PICK t \in RunOne :
        /\ t.at \in AtWork
        /\ t.second = task[i].second
        /\ t.at = "sleeps" => t.attempt < MaxRetries
        /\ t.at \in {"runs", "killed", "sleeps"} => t.rc = None
        /\ t.final_rc # 0
        /\ task' = [task EXCEPT ![i] = t]
  BY DEF Moves
<1>2. UNCHANGED <<config, specs, outcome, stage, result, file, log, report>>
      /\ task[i].at \in AtWork
  BY DEF Moves
<1>3. Slot' = Slot /\ DOMAIN task = Slot
  BY <1>2 DEF Slot, TypeOK
<1>4. \A j \in Slot : task'[j] = IF j = i THEN t ELSE task[j]
  BY <1>1, <1>3
<1>5. TypeOK'
  BY <1>1, <1>2, <1>3 DEF TypeOK
<1>6. Attempts'
  BY <1>1, <1>3, <1>4 DEF Attempts, AtWork
<1>7. Order'
  BY <1>1, <1>2, <1>3, <1>4 DEF Order, AtWork
<1>8. Kinds' /\ Files' /\ Reported'
  BY <1>2, Unread DEF Kinds, Files, Reported
<1>9. Fed'
  BY <1>1, <1>2, <1>4, Unread DEF Fed
<1>10. Logged'
  <2>1. \A j \in Slot : raw_log_path(j)' = raw_log_path(j)
    BY <1>1, <1>2, <1>4 DEF raw_log_path
  <2>2. \A p \in DOMAIN log : log[p].slot \in Slot
    BY DEF TypeOK
  <2>. QED  BY <1>2, <1>3, <2>1, <2>2 DEF Logged
<1>11. Permits'
  <2>1. InStage' = InStage
    BY <1>2, <1>3 DEF InStage
  <2>2. Holders' = Holders
    BY <1>1, <1>2, <1>4, <2>1 DEF Holders, InStage, AtWork
  <2>. QED  BY <2>2 DEF Permits
<1>. QED  BY <1>5, <1>6, <1>7, <1>8, <1>9, <1>10, <1>11

LEMMA AcquireKeeps ==
    ASSUME RunnerInv, NEW i \in Slot, Acquire(i)
    PROVE  RunnerInv'
<1>. USE DEF RunnerInv
<1>1. PICK s \in Second :
        task' = [task EXCEPT ![i].at = "runs", ![i].second = s]
  BY DEF Acquire
<1> DEFINE t == [task[i] EXCEPT !.at = "runs", !.second = s]
<1>2. /\ UNCHANGED <<config, specs, outcome, stage, result, file, log, report>>
      /\ i \in InStage /\ task[i].at = "waits" /\ Missing(i) = {}
      /\ Cardinality(Holders) < Concurrency
  BY DEF Acquire
<1>3. Slot' = Slot /\ DOMAIN task = Slot /\ task[i] \in RunOne
  BY <1>2 DEF Slot, TypeOK
<1>4. task' = [task EXCEPT ![i] = t]
  BY <1>1
<1>5. /\ t \in RunOne /\ t.at = "runs" /\ t.attempt = task[i].attempt
      /\ t.rc = task[i].rc /\ t.final_rc = task[i].final_rc
  BY <1>3 DEF RunOne
<1>. HIDE DEF t
<1>6. \A j \in Slot : task'[j] = IF j = i THEN t ELSE task[j]
  BY <1>3, <1>4
<1>7. TypeOK'
  BY <1>2, <1>3, <1>4, <1>5 DEF TypeOK
<1>8. Attempts'
  BY <1>2, <1>3, <1>5, <1>6, NoneAssumption DEF Attempts
<1>9. Order'
  BY <1>2, <1>3, <1>5, <1>6, FileFacts DEF Order, InStage, Stages, TypeOK
<1>10. Kinds' /\ Files' /\ Reported'
  BY <1>2, Unread DEF Kinds, Files, Reported
<1>11. Fed'
  BY <1>2, <1>6, Unread DEF Fed
<1>12. Logged'
  <2>1. result[i] = None
    BY <1>2 DEF Order
  <2>2. \A j \in Slot : j # i => raw_log_path(j)' = raw_log_path(j)
    BY <1>2, <1>6 DEF raw_log_path
  <2>3. \A p \in DOMAIN log : log[p].slot \in Slot
    BY DEF TypeOK
  <2>. QED  BY <1>2, <1>3, <2>1, <2>2, <2>3 DEF Logged
<1>13. Permits'
  <2>1. Holders' = Holders \cup {i} /\ i \notin Holders
    BY <1>2, <1>3, <1>5, <1>6 DEF Holders, InStage
  <2>2. IsFiniteSet(Holders') /\ Cardinality(Holders') = Cardinality(Holders) + 1
    BY <2>1, FS_AddElement DEF Permits
  <2>3. Cardinality(Holders) \in Nat
    BY FS_CardinalityType DEF Permits
  <2>. QED  BY <1>2, <2>2, <2>3, RunnerAssumption DEF Permits
<1>. QED  BY <1>7, <1>8, <1>9, <1>10, <1>11, <1>12, <1>13

LEMMA StopsKeep ==
    ASSUME RunnerInv, Stops
    PROVE  RunnerInv'
<1>. USE DEF RunnerInv
<1>1. UNCHANGED <<config, specs, stage, task, result, file, log>>
  BY DEF Stops
<1>2. Slot' = Slot /\ InStage' = InStage /\ Holders' = Holders
  BY <1>1 DEF Slot, InStage, Holders
<1>3. TypeOK'
  BY <1>1, <1>2 DEF Stops, TypeOK
<1>4. Attempts' /\ Order' /\ Kinds'
  BY <1>1, <1>2 DEF Attempts, Order, Kinds
<1>5. Files' /\ Fed'
  BY <1>1, Unread DEF Files, Fed
<1>6. Logged'
  BY <1>1, <1>2 DEF Logged, raw_log_path
<1>7. Permits'
  BY <1>2 DEF Permits
<1>8. Reported'
  BY <1>1 DEF Stops, Reported
<1>. QED  BY <1>3, <1>4, <1>5, <1>6, <1>7, <1>8

(* A result comes in; only the raw logs are left to look at.               *)
LEMMA ResultKeeps ==
    ASSUME RunnerInv, NEW i \in Slot, NEW r \in ToolResult, NEW t \in RunOne,
           outcome = "running", StageOf(specs[i]) = stage, result[i] = None,
           Yields(specs[i], r.findings),
           r.status = "skipped" <=> Missing(i) # {},
           t.at = "ended", t.second = task[i].second,
           task' = [task EXCEPT ![i] = t], result' = [result EXCEPT ![i] = r],
           UNCHANGED <<config, specs, outcome, stage, file, report>>
    PROVE  /\ Attempts' /\ Order' /\ Kinds' /\ Files' /\ Fed'
           /\ Permits' /\ Reported'
<1>. USE DEF RunnerInv
<1>1. Slot' = Slot /\ DOMAIN task = Slot /\ DOMAIN result = Slot /\ r # None
  BY NoneAssumption DEF Slot, TypeOK
<1>2. \A j \in Slot : /\ task'[j] = IF j = i THEN t ELSE task[j]
                      /\ result'[j] = IF j = i THEN r ELSE result[j]
  BY <1>1
<1>3. Attempts'
  BY <1>1, <1>2 DEF Attempts, AtWork
<1>4. Order'
  BY <1>1, <1>2, FileFacts DEF Order, Stages, TypeOK
<1>5. Kinds'
  BY <1>1, <1>2 DEF Kinds
<1>6. ASSUME NEW f \in File, Home(f) < stage
      PROVE  Values(KindIn(f))' = Values(KindIn(f))
  <2>1. \A g \in r.findings : g.type # KindIn(f)
    BY <1>6 DEF Yields, TypeOK, Home
  <2>. QED  BY <2>1, ValuesStay
<1>7. Files'
  BY <1>6 DEF Files
<1>8. Missing(i) = {f \in TOOL_SPECS[specs[i]].requires_files : file[f] = NoFile}
      /\ \A j : Missing(j)' = Missing(j)
  BY DEF Missing
<1>9. Fed'
  <2>1. ASSUME NEW j \in Slot, task'[j].at \in AtWork
        PROVE  Missing(j)' = {}
    BY <1>2, <1>8, <2>1 DEF Fed, AtWork
  <2>2. ASSUME NEW j \in Slot, result'[j] # None
        PROVE  result'[j].status = "skipped" <=>
               \E f \in TOOL_SPECS[specs[j]].requires_files :
                  Values(KindIn(f))' = {}
    <3>1. \A f \in TOOL_SPECS[specs[j]].requires_files :
            f \in File /\ StageOf(specs[j]) = Home(f) + 1
      BY FileFacts, ToolFacts
    <3>2. StageOf(specs[j]) <= stage /\ StageOf(specs[j]) \in Nat /\ stage \in Nat
      <4>1. StageOf(specs[j]) \in {1, 2, 3} /\ stage \in Nat
        BY FileFacts DEF Stages, TypeOK
      <4>2. ~(StageOf(specs[j]) > stage)
        BY <1>2, <2>2, <4>1 DEF Order
      <4>. QED  BY <4>1, <4>2
    <3>3. \A f \in TOOL_SPECS[specs[j]].requires_files :
            f \in File /\ Home(f) < stage
            /\ Values(KindIn(f))' = Values(KindIn(f))
      BY <1>6, <3>1, <3>2 DEF Home
    <3>4. CASE j = i
      <4>1. \A f \in TOOL_SPECS[specs[i]].requires_files :
              file[f] = NoFile <=> Values(KindIn(f)) = {}
        BY <3>3, <3>4, ValuesAreValues DEF Files
      <4>. QED  BY <1>2, <1>8, <3>3, <3>4, <4>1
    <3>5. CASE j # i
      BY <1>2, <2>2, <3>3, <3>5 DEF Fed
    <3>. QED  BY <3>4, <3>5
  <2>. QED  BY <1>1, <2>1, <2>2 DEF Fed
<1>10. Permits'
  <2>1. Holders' \subseteq Holders
    BY <1>1, <1>2 DEF Holders, InStage
  <2>2. IsFiniteSet(Holders') /\ Cardinality(Holders') <= Cardinality(Holders)
    BY <2>1, FS_Subset DEF Permits
  <2>3. Cardinality(Holders') \in Nat /\ Cardinality(Holders) \in Nat
    BY <2>2, FS_CardinalityType DEF Permits
  <2>. QED  BY <2>2, <2>3, RunnerAssumption DEF Permits
<1>11. Reported'
  BY DEF Reported
<1>. QED  BY <1>3, <1>4, <1>5, <1>7, <1>9, <1>10, <1>11

LEMMA SkipKeeps ==
    ASSUME RunnerInv, NEW i \in Slot, Skip(i)
    PROVE  RunnerInv'
<1>. USE DEF RunnerInv
<1> DEFINE r == Result("skipped", {}, 0, None)
           t == [task[i] EXCEPT !.at = "ended"]
<1>1. /\ outcome = "running" /\ StageOf(specs[i]) = stage /\ result[i] = None
      /\ Missing(i) # {}
      /\ task' = [task EXCEPT ![i] = t] /\ result' = [result EXCEPT ![i] = r]
      /\ UNCHANGED <<config, specs, outcome, stage, file, log, report>>
  BY DEF Skip, Scanning, InStage
<1>2. r \in ToolResult /\ r.status = "skipped" /\ r.findings = {}
  BY RunnerAssumption DEF Result, ToolResult
<1>3. t \in RunOne /\ t.at = "ended" /\ t.second = task[i].second
  BY FileFacts DEF RunOne
<1>4. Yields(specs[i], r.findings)
  BY <1>2 DEF Yields
<1>. HIDE DEF r, t
<1>5. /\ Attempts' /\ Order' /\ Kinds' /\ Files' /\ Fed'
      /\ Permits' /\ Reported'
  BY <1>1, <1>2, <1>3, <1>4, ResultKeeps
<1>6. TypeOK'
  BY <1>1, <1>2, <1>3 DEF TypeOK, Slot
<1>7. Logged'
  <2>1. Slot' = Slot /\ DOMAIN task = Slot /\ DOMAIN result = Slot
    BY <1>1 DEF Slot, TypeOK
  <2>2. \A j \in Slot : /\ raw_log_path(j)' = raw_log_path(j)
                        /\ result'[j] = IF j = i THEN r ELSE result[j]
    BY <1>1, <1>3, <2>1 DEF raw_log_path
  <2>3. \A p \in DOMAIN log : log[p].slot \in Slot
    BY DEF TypeOK
  <2>. QED  BY <1>1, <1>2, <2>1, <2>2, <2>3 DEF Logged
<1>. QED  BY <1>5, <1>6, <1>7

LEMMA EndsKeep ==
    ASSUME RunnerInv, NEW i \in Slot, Ends(i)
    PROVE  RunnerInv'
<1>. USE DEF RunnerInv
<1>1. PICK r \in ToolResult :
        /\ r.status # "skipped"
        /\ r.attempts = task[i].attempt
        /\ Yields(specs[i], r.findings)
        /\ result' = [result EXCEPT ![i] = r]
  BY DEF Ends
<1> DEFINE t == [task[i] EXCEPT !.at = "ended", !.rc = None]
           path == raw_log_path(i)
<1>2. /\ outcome = "running" /\ task[i].at \in AtWork
      /\ task' = [task EXCEPT ![i] = t]
      /\ log' = [p \in DOMAIN log \cup {path} |->
                   IF p = path THEN [slot |-> i, attempts |-> task[i].attempt]
                               ELSE log[p]]
      /\ UNCHANGED <<config, specs, outcome, stage, file, report>>
  BY DEF Ends, Scanning
<1>3. task[i] \in RunOne
  BY FileFacts
<1>4. t \in RunOne /\ t.at = "ended" /\ t.second = task[i].second
  BY <1>3 DEF RunOne
<1>5. StageOf(specs[i]) = stage /\ result[i] = None /\ Missing(i) = {}
  BY <1>2, WorkIsInStage DEF Fed
<1>. HIDE DEF t
<1>6. /\ Attempts' /\ Order' /\ Kinds' /\ Files' /\ Fed'
      /\ Permits' /\ Reported'
  BY <1>1, <1>2, <1>4, <1>5, ResultKeeps
<1>7. Slot' = Slot /\ DOMAIN task = Slot /\ DOMAIN result = Slot
  BY <1>2 DEF Slot, TypeOK
<1>8. TypeOK'
  <2>1. task[i].attempt \in 1..MaxRetries
    BY <1>3 DEF RunOne
  <2>2. \A p \in DOMAIN log' : log'[p] \in [slot : Slot, attempts : 1..MaxRetries]
    BY <1>2, <2>1 DEF TypeOK
  <2>. QED  BY <1>1, <1>2, <1>4, <1>7, <2>2 DEF TypeOK
<1>9. Logged'
  <2>1. \A j \in Slot : /\ raw_log_path(j)' = raw_log_path(j)
                        /\ result'[j] = IF j = i THEN r ELSE result[j]
    BY <1>1, <1>2, <1>4, <1>7 DEF raw_log_path
  <2>2. r # None
    BY NoneAssumption
  <2>3. ASSUME NEW p \in DOMAIN log'
        PROVE  LET k == log'[p].slot
               IN  /\ k \in Slot /\ p = raw_log_path(k)
                   /\ result'[k] # None /\ log'[p].attempts = result'[k].attempts
    <3>1. CASE p = path
      <4>1. log'[p] = [slot |-> i, attempts |-> task[i].attempt]
        BY <1>2, <3>1
      <4>. QED  BY <1>1, <2>1, <2>2, <3>1, <4>1
    <3>2. CASE p # path
      <4>1. p \in DOMAIN log /\ log'[p] = log[p]
        BY <1>2, <3>2
      <4>2. log[p].slot \in Slot /\ log[p].slot # i
        BY <1>5, <4>1 DEF TypeOK, Logged
      <4>. QED  BY <2>1, <4>1, <4>2 DEF Logged
    <3>. QED  BY <3>1, <3>2
  <2>4. ASSUME NEW j \in Slot, result'[j] # None, result'[j].status # "skipped"
        PROVE  raw_log_path(j) \in DOMAIN log'
    <3>1. DOMAIN log' = DOMAIN log \cup {path}
      BY <1>2
    <3>. QED  BY <2>1, <2>4, <3>1 DEF Logged
  <2>. QED  BY <1>7, <2>1, <2>3, <2>4 DEF Logged
<1>. QED  BY <1>6, <1>8, <1>9

LEMMA NextStageKeeps ==
    ASSUME RunnerInv, NextStage
    PROVE  RunnerInv'
<1>. USE DEF RunnerInv
<1>1. /\ outcome = "running" /\ stage \in {1, 2, 3} /\ stage' = stage + 1
      /\ \A i \in InStage : result[i] # None
      /\ file' = update_context
      /\ UNCHANGED <<config, specs, outcome, task, result, log, report>>
  BY DEF NextStage, Scanning, Stages
<1>2. Slot' = Slot /\ \A type : Values(type)' = Values(type)
  BY <1>1 DEF Slot, Values
<1>3. ASSUME NEW i \in Slot
      PROVE  /\ StageOf(specs[i]) \in {1, 2, 3}
             /\ StageOf(specs[i]) <= stage => task[i].at = "ended"
             /\ StageOf(specs[i]) > stage => task[i].at = "waits"
  BY <1>1, FileFacts DEF InStage, Order, Stages
<1>4. TypeOK'
  <2>1. Values("subdomain") \in SUBSET Value /\ Values("live_host") \in SUBSET Value
    BY ValuesAreValues
  <2>2. file' \in [subdomains : {NoFile} \cup SUBSET Value,
                   live_hosts : {NoFile} \cup SUBSET Value]
    BY <1>1, <2>1 DEF update_context, Write, TypeOK
  <2>. QED  BY <1>1, <1>2, <2>2 DEF TypeOK
<1>5. Attempts' /\ Kinds' /\ Reported'
  BY <1>1, <1>2 DEF Attempts, Kinds, Reported
<1>6. Order'
  BY <1>1, <1>2, <1>3 DEF Order
<1>7. ASSUME NEW f \in File
      PROVE  file'[f] = Write(file[f], Values(KindIn(f)))
  BY <1>1 DEF update_context, File, KindIn
<1>8. ASSUME NEW f \in File, Home(f) > stage
      PROVE  Values(KindIn(f)) = {}
  <2>1. SUFFICES ASSUME NEW v \in Values(KindIn(f))
                 PROVE  FALSE
    OBVIOUS
  <2>2. PICK j \in Slot :
          /\ result[j] # None
          /\ \E g \in result[j].findings : g.type = KindIn(f)
    BY ValuesMember
  <2>3. StageOf(specs[j]) = Home(f)
    BY <2>2 DEF Kinds, Yields
  <2>. QED  BY <1>3, <1>8, <2>2, <2>3 DEF Order
<1>9. Files'
  <2>1. SUFFICES ASSUME NEW f \in File
                 PROVE  file'[f] = IF Home(f) < stage + 1 /\ Values(KindIn(f)) # {}
                                   THEN Values(KindIn(f)) ELSE NoFile
    BY <1>1, <1>2 DEF Files
  <2>2. Home(f) \in {1, 2}
    BY DEF Home
  <2>. QED  BY <1>1, <1>7, <1>8, <2>2 DEF Files, Write
<1>10. ASSUME NEW i \in Slot
       PROVE  task[i].at \notin AtWork
  BY <1>1, <1>3 DEF AtWork
<1>11. Fed'
  BY <1>1, <1>2, <1>10 DEF Fed
<1>12. Logged'
  BY <1>1, <1>2 DEF Logged, raw_log_path
<1>13. Permits'
  <2>1. \A i \in Slot : task[i].at \in {"waits", "ended"}
    BY <1>1, <1>3
  <2>2. Holders' = {}
    BY <1>1, <1>2, <2>1 DEF Holders, InStage
  <2>. QED  BY <2>2, FS_EmptySet, RunnerAssumption DEF Permits
<1>. QED  BY <1>4, <1>5, <1>6, <1>9, <1>11, <1>12, <1>13

(* A selection is a list of tools.                                         *)
LEMMA SelectionFacts ==
    ASSUME NEW S, NEW e \in Seq(S), Known(e), NEW s \in expand_tool_selection(e)
    PROVE  s \in Seq(ToolNames)
<1>1. AllTools \in Seq(ToolNames)
  BY DEF AllTools, ToolNames, TOOL_SPECS, Spec_
<1>2. CASE "all" \in Named(e)
  BY <1>1, <1>2 DEF expand_tool_selection
<1>3. CASE "all" \notin Named(e)
  <2>1. PICK p \in [DOMAIN e -> DOMAIN e] : s = [i \in DOMAIN e |-> e[p[i]]]
    BY <1>3 DEF expand_tool_selection
  <2>2. \A i \in DOMAIN e : e[i] \in ToolNames
    BY <1>3 DEF Known, Named
  <2>3. DOMAIN e = 1..Len(e) /\ Len(e) \in Nat
    OBVIOUS
  <2>4. \A i \in DOMAIN e : s[i] \in ToolNames
    BY <2>1, <2>2
  <2>. QED  BY <2>1, <2>3, <2>4
<1>. QED  BY <1>2, <1>3

LEMMA InitKeeps ==
    ASSUME Init
    PROVE  RunnerInv
<1>1. config.dry_run \in BOOLEAN /\ \E S : config.enabled_tools \in Seq(S)
  <2>1. PICK cli, json \in Option : config = build_config(cli, json)
    BY DEF Init
  <2>2. <<"all">> \in Seq({"all"})
    OBVIOUS
  <2>. QED  BY <2>1, <2>2, RunnerAssumption DEF build_config
<1>2. specs \in Seq(ToolNames)
  <2>1. CASE Known(config.enabled_tools)
    BY <1>1, <2>1, SelectionFacts DEF Init
  <2>2. CASE ~Known(config.enabled_tools)
    BY <2>2 DEF Init
  <2>. QED  BY <2>1, <2>2
<1>3. Idle \in RunOne /\ Idle.at = "waits" /\ Idle.rc = None /\ Idle.final_rc = None
  BY RunnerAssumption DEF Idle, RunOne
<1>4. /\ task = [i \in Slot |-> Idle] /\ result = [i \in Slot |-> None]
      /\ file = [subdomains |-> NoFile, live_hosts |-> NoFile]
      /\ log = <<>> /\ report = NoReport /\ stage = 1
      /\ outcome \in {"running", "refused"}
  BY DEF Init
<1>5. TypeOK
  BY <1>1, <1>2, <1>3, <1>4 DEF TypeOK, NoReport
<1>6. Attempts /\ Kinds /\ Fed /\ Logged /\ Reported
  BY <1>3, <1>4 DEF Attempts, Kinds, Fed, Logged, Reported, AtWork
<1>7. Order
  BY <1>3, <1>4, <1>5, FileFacts DEF Order, Stages
<1>8. Files
  BY <1>4 DEF Files, File, Home
<1>9. Permits
  <2>1. Holders = {}
    BY <1>3, <1>4 DEF Holders, InStage
  <2>. QED  BY <2>1, FS_EmptySet, RunnerAssumption DEF Permits
<1>. QED  BY <1>5, <1>6, <1>7, <1>8, <1>9 DEF RunnerInv

LEMMA StepKeeps ==
    ASSUME RunnerInv, [Next]_vars
    PROVE  RunnerInv'
<1>1. \/ \E i \in Slot : Moves(i) \/ Ends(i) \/ Acquire(i) \/ Skip(i)
      \/ Stops \/ NextStage \/ UNCHANGED vars
  BY StepKinds DEF RunnerInv
<1>2. CASE UNCHANGED vars
  <2>1. UNCHANGED <<config, specs, outcome, stage, task, result, file, log, report>>
    BY <1>2 DEF vars
  <2>2. Holders' = Holders /\ \A i : raw_log_path(i)' = raw_log_path(i)
    BY <2>1 DEF Holders, InStage, Slot, raw_log_path
  <2>3. TypeOK' /\ Attempts' /\ Order'
    BY <2>1, Unread DEF RunnerInv, TypeOK, Attempts, Order
  <2>4. Kinds' /\ Files' /\ Fed'
    BY <2>1, Unread DEF RunnerInv, Kinds, Files, Fed
  <2>5. Logged' /\ Permits' /\ Reported'
    BY <2>1, <2>2, Unread DEF RunnerInv, Logged, Permits, Reported
  <2>. QED  BY <2>3, <2>4, <2>5 DEF RunnerInv
<1>. QED  BY <1>1, <1>2, MovesKeep, EndsKeep, AcquireKeeps, SkipKeeps, StopsKeep,
              NextStageKeeps

LEMMA RunnerInductive == Spec => []RunnerInv
<1>1. Init => RunnerInv
  BY InitKeeps
<1>2. RunnerInv /\ [Next]_vars => RunnerInv'
  BY StepKeeps
<1>. QED  BY <1>1, <1>2, PTL DEF Spec

-----------------------------------------------------------------------------
(* The results                                                             *)

LEMMA InvPermits ==
    ASSUME RunnerInv
    PROVE  PermitsAreKept
<1> DEFINE running == {i \in Slot : Runs(i)}
<1>. USE DEF RunnerInv
<1>1. ASSUME NEW i \in running
      PROVE  i \in Holders /\ i \in InStage
  <2>1. task[i].at \in AtWork
    BY DEF Runs, AtWork
  <2>2. StageOf(specs[i]) = stage
    BY <2>1, WorkIsInStage
  <2>. QED  BY <2>1, <2>2 DEF Holders, InStage, AtWork
<1>2. running \subseteq Holders /\ running \subseteq InStage
  BY <1>1
<1>3. IsFiniteSet(running) /\ Cardinality(running) <= Cardinality(Holders)
  BY <1>2, FS_Subset DEF Permits
<1>4. Cardinality(running) \in Nat /\ Cardinality(Holders) \in Nat
  BY <1>3, FS_CardinalityType DEF Permits
<1>. QED  BY <1>2, <1>3, <1>4, RunnerAssumption DEF Permits, PermitsAreKept

LEMMA InvInput ==
    ASSUME RunnerInv
    PROVE  InputIsComplete
<1>. USE DEF RunnerInv
<1>. SUFFICES ASSUME NEW i \in Slot, Runs(i)
              PROVE  /\ \A j \in Slot : StageOf(specs[j]) < StageOf(specs[i])
                                            => result[j] # None
                     /\ \A f \in TOOL_SPECS[specs[i]].requires_files :
                           file[f] = FoundBefore(StageOf(specs[i]), f)
  BY DEF InputIsComplete
<1>1. task[i].at \in AtWork /\ task[i].at # "waits"
  BY DEF Runs, AtWork
<1>2. StageOf(specs[i]) = stage /\ Missing(i) = {}
  BY <1>1, WorkIsInStage DEF Fed
<1>3. ASSUME NEW f \in TOOL_SPECS[specs[i]].requires_files
      PROVE  file[f] = FoundBefore(StageOf(specs[i]), f)
  <2>1. f \in File /\ StageOf(specs[i]) = Home(f) + 1 /\ Home(f) < stage
    BY <1>1, InputsAreOver
  <2>2. file[f] = Values(KindIn(f))
    BY <1>2, <2>1 DEF Missing, Files
  <2>. QED  BY <2>1, <2>2, FoundIsValues
<1>. QED  BY <1>2, <1>3 DEF Order

(* No tool was named twice.                                                *)
NoToolTwice == \A i, j \in Slot : specs[i] = specs[j] => i = j

LEMMA InvLogs ==
    ASSUME RunnerInv, NoToolTwice
    PROVE  LogsAreKept
<1>. USE DEF RunnerInv
<1>. SUFFICES ASSUME NEW i \in Slot, result[i] # None, result[i].status # "skipped"
              PROVE  LET path == <<specs[i], task[i].second>>
                     IN  /\ path \in DOMAIN log
                         /\ log[path] = [slot |-> i, attempts |-> result[i].attempts]
  BY DEF LogsAreKept
<1> DEFINE path == <<specs[i], task[i].second>>
           k == log[path].slot
<1>1. path \in DOMAIN log
  BY DEF Logged, raw_log_path
<1>2. /\ path = <<specs[k], task[k].second>> /\ k \in Slot
      /\ log[path].attempts = result[k].attempts
  BY <1>1 DEF Logged, raw_log_path, TypeOK
<1>3. k = i
  BY <1>2 DEF NoToolTwice
<1>4. log[path] \in [slot : Slot, attempts : 1..MaxRetries]
  BY <1>1 DEF TypeOK
<1>. QED  BY <1>1, <1>2, <1>3, <1>4

LEMMA InvReport ==
    ASSUME RunnerInv
    PROVE  ReportAddsUp
<1>. USE DEF RunnerInv
<1>. SUFFICES ASSUME outcome = "reported", ~config.dry_run
              PROVE  /\ report.files = {"json", "markdown"}
                     /\ DOMAIN report.results = Slot
                     /\ \A i \in Slot :
                         /\ report.results[i] # None
                         /\ report.results[i].status = "skipped" <=>
                             \E f \in TOOL_SPECS[specs[i]].requires_files :
                                FoundBefore(StageOf(specs[i]), f) = {}
  BY DEF ReportAddsUp
<1>1. report.files = {"json", "markdown"} /\ report.results = result
      /\ stage \notin Stages
  BY DEF Reported
<1>2. DOMAIN result = Slot /\ stage = 4
  BY <1>1 DEF TypeOK, Stages
<1>3. ASSUME NEW i \in Slot
      PROVE  /\ result[i] # None
             /\ result[i].status = "skipped" <=>
                 \E f \in TOOL_SPECS[specs[i]].requires_files :
                    FoundBefore(StageOf(specs[i]), f) = {}
  <2>1. task[i].at = "ended" /\ result[i] # None
    BY <1>2, FileFacts DEF Order, Stages
  <2>2. \A f \in TOOL_SPECS[specs[i]].requires_files :
          FoundBefore(StageOf(specs[i]), f) = Values(KindIn(f))
    BY <2>1, InputsAreOver, FoundIsValues
  <2>. QED  BY <2>1, <2>2 DEF Fed
<1>. QED  BY <1>1, <1>2, <1>3

(* The state is well formed, and no tool is tried more often than          *)
(* max_retries (runner.py:88).                                             *)
THEOREM RunnerTypeCorrect == Spec => []TypeOK
BY RunnerInductive, PTL DEF RunnerInv

(* Never more tools at work than the semaphore has permits, and all of one *)
(* stage (engine.py:95).                                                   *)
THEOREM PermitsCorrect == Spec => []PermitsAreKept
BY RunnerInductive, InvPermits, PTL

(* A tool reads a file that holds all that the earlier stages found        *)
(* (engine.py:84-85).                                                      *)
THEOREM HandOffIsComplete == Spec => []InputIsComplete
BY RunnerInductive, InvInput, PTL

(* The retention the runner promises (runner.py:4-5) holds of every        *)
(* selection that names no tool twice: the path of a raw log has the tool  *)
(* and the second, and that is the one way for two runs to share it.       *)
THEOREM RawLogsAreKept == Spec => [](NoToolTwice => LogsAreKept)
BY RunnerInductive, InvLogs, PTL

(* A report has the result of every tool, and names as skipped exactly     *)
(* those that had nothing to read (engine.py:87-89).                       *)
THEOREM ReportsAddUp == Spec => []ReportAddsUp
BY RunnerInductive, InvReport, PTL

(* No tool succeeds but with a program that ended well, nor fails before   *)
(* its last attempt (runner.py:107-134).                                   *)
THEOREM SuccessComesLast == Spec => SuccessIsTheLastAttempt
<1> DEFINE Concluded(i) ==
        result[i] = None /\ result'[i] # None =>
            /\ result'[i].findings # {} => result'[i].status = "success"
            /\ result'[i].status = "success" =>
                task[i].at = "reads" /\ task[i].rc = 0 /\ ~task[i].held
            /\ result'[i].status = "failed" => result'[i].attempts = MaxRetries
<1>1. ASSUME RunnerInv, [Next]_vars
      PROVE  \A i \in Slot : Concluded(i)
  <2>1. TypeOK /\ Attempts /\ Files /\ Fed /\ DOMAIN result = Slot
    BY <1>1 DEF RunnerInv, TypeOK
  <2>2. CASE result' = result
    BY <2>2
  <2>3. ASSUME NEW k \in Slot, Ends(k)
        PROVE  \A i \in Slot : Concluded(i)
    BY <2>1, <2>3 DEF Ends
  <2>4. ASSUME NEW k \in Slot, Skip(k)
        PROVE  \A i \in Slot : Concluded(i)
    BY <2>1, <2>4 DEF Skip, Result
  <2>. QED  BY <1>1, <2>1, <2>2, <2>3, <2>4, StepKinds
            DEF Moves, Acquire, Stops, NextStage, vars
<1>. QED  BY <1>1, RunnerInductive, PTL DEF Spec, SuccessIsTheLastAttempt

-----------------------------------------------------------------------------
(* Progress                                                                *)

(* One step moves one tool, or the stage, or ends the run.                 *)
OneStepOn ==
    \/ outcome' # "running" /\ UNCHANGED <<stage, task>>
    \/ stage' = stage + 1 /\ UNCHANGED <<outcome, task>>
    \/ /\ \E i \in Slot :
             /\ Progress(task[i]) < Progress(task'[i])
             /\ \A j \in Slot \ {i} : task'[j] = task[j]
       /\ UNCHANGED <<outcome, stage>>

StepsGoOn == [][outcome = "running" /\ OneStepOn]_vars

StepsAreBounded ==
    /\ stage \in 1..4
    /\ \A i \in Slot : Progress(task[i]) \in 0..(7 * MaxRetries + 7)

(* No step of the run, of a program or of its children takes anything      *)
(* back: with n tools there are at most n * (7 * max_retries + 7) + 4 of   *)
(* them, whatever hangs, fails, is retried or is killed                    *)
(* (runner.py:95-124, engine.py:84-96).                                    *)
THEOREM TheRunIsBounded == Spec => StepsGoOn /\ []StepsAreBounded
<1>1. ASSUME RunnerInv, [Next]_vars, vars' # vars
      PROVE  outcome = "running" /\ OneStepOn
  <2>1. TypeOK /\ Attempts /\ Files /\ Fed
    BY <1>1 DEF RunnerInv
  <2>2. task \in [Slot -> RunOne]
    BY <2>1 DEF TypeOK
  <2>3. ASSUME NEW i \in Slot, Moves(i)
        PROVE  outcome = "running" /\ OneStepOn
    <3>1. PICK t \in RunOne : /\ Progress(task[i]) < Progress(t)
                              /\ task' = [task EXCEPT ![i] = t]
      BY <2>3 DEF Moves
    <3>2. task'[i] = t /\ \A j \in Slot \ {i} : task'[j] = task[j]
      BY <2>2, <3>1
    <3>3. Scanning /\ UNCHANGED <<outcome, stage>>
      BY <2>3 DEF Moves
    <3>. QED  BY <3>1, <3>2, <3>3 DEF OneStepOn, Scanning
  <2>4. ASSUME NEW i \in Slot, Ends(i) \/ Skip(i)
        PROVE  outcome = "running" /\ OneStepOn
    <3>1. /\ Scanning /\ UNCHANGED <<outcome, stage>>
          /\ task[i].at # "ended"
          /\ \/ task' = [task EXCEPT ![i].at = "ended", ![i].rc = None]
             \/ task' = [task EXCEPT ![i].at = "ended"]
      BY <2>4 DEF Ends, Skip, AtWork
    <3>2. task'[i].at = "ended" /\ \A j \in Slot \ {i} : task'[j] = task[j]
      BY <2>2, <3>1 DEF RunOne
    <3>3. Progress(task'[i]) = 7 * MaxRetries + 7
      BY <3>2 DEF Progress
    <3>4. Progress(task[i]) < 7 * MaxRetries + 7
      <4>1. task[i] \in RunOne /\ MaxRetries \in Nat
        BY <2>2, RunnerAssumption
      <4>2. task[i].at \in AtWork \/ task[i].at = "waits"
        BY <3>1, <4>1 DEF RunOne, AtWork
      <4>3. CASE task[i].at \in AtWork
        BY <4>1, <4>3, ProgressFacts
      <4>4. CASE task[i].at = "waits"
        BY <4>1, <4>4 DEF Progress
      <4>. QED  BY <4>2, <4>3, <4>4
    <3>. QED  BY <3>1, <3>2, <3>3, <3>4 DEF OneStepOn, Scanning
  <2>5. ASSUME NEW i \in Slot, Acquire(i)
        PROVE  outcome = "running" /\ OneStepOn
    <3>1. PICK s \in Second :
            task' = [task EXCEPT ![i].at = "runs", ![i].second = s]
      BY <2>5 DEF Acquire
    <3>2. Scanning /\ UNCHANGED <<outcome, stage>> /\ task[i].at = "waits"
      BY <2>5 DEF Acquire
    <3> DEFINE t == [task[i] EXCEPT !.at = "runs", !.second = s]
    <3>3. t \in RunOne /\ t.at = "runs"
      BY <2>2 DEF RunOne
    <3>4. task'[i] = t /\ \A j \in Slot \ {i} : task'[j] = task[j]
      BY <2>2, <3>1
    <3>. HIDE DEF t
    <3>5. Progress(task[i]) = 0 /\ 0 < Progress(t)
      BY <3>2, <3>3, ProgressFacts, RunnerAssumption DEF Progress, AtWork
    <3>. QED  BY <3>2, <3>4, <3>5 DEF OneStepOn, Scanning
  <2>6. Stops => outcome = "running" /\ OneStepOn
    BY DEF Stops, OneStepOn
  <2>7. NextStage => outcome = "running" /\ OneStepOn
    BY DEF NextStage, OneStepOn, Scanning
  <2>. QED  BY <1>1, <2>1, <2>3, <2>4, <2>5, <2>6, <2>7, StepKinds
<1>2. RunnerInv => StepsAreBounded
  <2>. SUFFICES ASSUME RunnerInv PROVE StepsAreBounded
    OBVIOUS
  <2>1. stage \in 1..4 /\ \A i \in Slot : task[i] \in RunOne
    BY DEF RunnerInv, TypeOK
  <2>2. \A i \in Slot : Progress(task[i]) \in 0..(7 * MaxRetries + 7)
    BY <2>1, ProgressFacts
  <2>. QED  BY <2>1, <2>2 DEF StepsAreBounded
<1>3. RunnerInv /\ [Next]_vars => [outcome = "running" /\ OneStepOn]_vars
  BY <1>1
<1>. QED  BY <1>2, <1>3, RunnerInductive, PTL DEF Spec, StepsGoOn

-----------------------------------------------------------------------------
(* Something to do                                                         *)

(* A tool can be skipped, started, run, cut off, read or tried again: the  *)
(* guards of Skip, Acquire, LaunchFails and Expire, Drain, Retry.          *)
Ready(i) ==
    /\ i \in InStage
    /\ \/ task[i].at = "waits" /\ result[i] = None /\ Missing(i) # {}
       \/ /\ task[i].at = "waits" /\ Missing(i) = {}
          /\ Cardinality(Holders) < Concurrency
          /\ \A j \in InStage : j < i => task[j].at # "waits" \/ Missing(j) # {}
          /\ \E s \in Second :
                \A j \in Slot : task[j].second # None => s >= task[j].second
       \/ task[i].at \in {"runs", "sleeps"}
       \/ task[i].at = "reads" /\ task[i].held
       \/ /\ task[i].at \in {"reads", "killed"} /\ ~task[i].held
          /\ Prints(specs[i], Argument(specs[i], file)) # {}

(* The guards of DryRun, NoTools, Report and EndStage.                     *)
EngineReady ==
    \/ config.dry_run
    \/ specs = <<>>
    \/ stage \notin Stages
    \/ \A i \in InStage : result[i] # None

(* A run that is under way can go on, but for a tool that was killed and   *)
(* whose child holds on to its output.                                     *)
SomethingToDo ==
    outcome = "running" =>
        \/ EngineReady
        \/ \E i \in Slot : Ready(i)
        \/ \E i \in Slot : task[i].at = "killed" /\ task[i].held

(* Time has not run out: the last start is one that may come again.        *)
Clock ==
    \E s \in Second : \A j \in Slot : task[j].second # None => s >= task[j].second

LEMMA ClockStep ==
    ASSUME RunnerInv, Clock, [Next]_vars
    PROVE  Clock'
<1>1. PICK m \in Second : \A j \in Slot : task[j].second # None => m >= task[j].second
  BY DEF Clock
<1>2. TypeOK /\ Attempts /\ Files /\ Fed /\ task \in [Slot -> RunOne]
  BY DEF RunnerInv, TypeOK
<1>3. ASSUME specs' = specs,
             \A j \in Slot : task'[j].second = task[j].second
      PROVE  Clock'
  BY <1>1, <1>3 DEF Clock, Slot
<1>4. ASSUME NEW i \in Slot, Moves(i) PROVE Clock'
  <2>1. PICK t \in RunOne : /\ t.second = task[i].second
                            /\ task' = [task EXCEPT ![i] = t]
    BY <1>4 DEF Moves
  <2>2. specs' = specs
    BY <1>4 DEF Moves
  <2>. QED  BY <1>2, <1>3, <2>1, <2>2
<1>5. ASSUME NEW i \in Slot, Ends(i) \/ Skip(i) PROVE Clock'
  <2>1. /\ specs' = specs
        /\ \/ task' = [task EXCEPT ![i].at = "ended", ![i].rc = None]
           \/ task' = [task EXCEPT ![i].at = "ended"]
    BY <1>5 DEF Ends, Skip
  <2>2. \A j \in Slot : task'[j].second = task[j].second
    BY <1>2, <2>1 DEF RunOne
  <2>. QED  BY <1>3, <2>1, <2>2
<1>6. ASSUME NEW i \in Slot, Acquire(i) PROVE Clock'
  <2>1. PICK s \in Second :
          /\ \A j \in Slot : task[j].second # None => s >= task[j].second
          /\ task' = [task EXCEPT ![i].at = "runs", ![i].second = s]
    BY <1>6 DEF Acquire
  <2>2. specs' = specs /\ s \in Nat
    BY <1>6, RunnerAssumption DEF Acquire
  <2>3. task'[i].second = s
    BY <1>2, <2>1 DEF RunOne
  <2>4. \A j \in Slot \ {i} : task'[j] = task[j]
    BY <1>2, <2>1
  <2>5. \A j \in Slot : task'[j].second # None => s >= task'[j].second
    <3>1. s >= s
      BY <2>2
    <3>2. \A j \in Slot \ {i} : task'[j].second = task[j].second
      BY <2>4
    <3>3. \A j \in Slot \ {i} : task'[j].second # None => s >= task'[j].second
      BY <2>1, <3>2
    <3>. QED  BY <2>3, <3>1, <3>3
  <2>. QED  BY <2>2, <2>5 DEF Clock, Slot
<1>7. CASE Stops \/ NextStage \/ UNCHANGED vars
  BY <1>3, <1>7 DEF Stops, NextStage, vars
<1>. QED  BY <1>2, <1>4, <1>5, <1>6, <1>7, StepKinds

LEMMA SomeoneIsReady ==
    ASSUME RunnerInv, Clock,
           \A i \in Slot : task[i].at \in {"reads", "killed"} =>
               Prints(specs[i], Argument(specs[i], file)) # {}
    PROVE  SomethingToDo
<1>. SUFFICES ASSUME outcome = "running", ~EngineReady,
                     \A i \in Slot : ~(task[i].at = "killed" /\ task[i].held)
              PROVE  \E i \in Slot : Ready(i)
  BY DEF SomethingToDo
<1>1. TypeOK /\ Order /\ InStage \subseteq Slot /\ task \in [Slot -> RunOne]
  BY DEF RunnerInv, TypeOK, InStage
<1>2. PICK k \in InStage : result[k] = None
  BY DEF EngineReady
<1>3. CASE \E i \in InStage : task[i].at \in AtWork
  <2>1. PICK i \in InStage : task[i].at \in AtWork
    BY <1>3
  <2>2. task[i].held \in BOOLEAN
    BY <1>1 DEF RunOne
  <2>. QED  BY <1>1, <2>1, <2>2 DEF Ready, AtWork
<1>4. CASE \A i \in InStage : task[i].at \notin AtWork
  <2>1. \A i \in InStage : task[i].at \in {"waits", "ended"}
    BY <1>1, <1>4 DEF RunOne, AtWork
  <2>2. Holders = {}
    BY <2>1 DEF Holders
  <2>3. Cardinality(Holders) < Concurrency
    BY <2>2, FS_EmptySet, RunnerAssumption
  <2>4. task[k].at = "waits"
    BY <1>1, <1>2, <2>1 DEF Order
  <2>5. CASE \E i \in InStage : task[i].at = "waits" /\ Missing(i) # {}
    BY <1>1, <2>5 DEF Ready, Order
  <2>6. CASE \A i \in InStage : task[i].at = "waits" => Missing(i) = {}
    <3> DEFINE W == {i \in InStage : task[i].at = "waits"}
    <3>1. W \subseteq Nat /\ W # {}
      BY <1>1, <1>2, <2>4 DEF Slot, TypeOK
    <3>2. PICK i \in W : \A j \in W : ~(<<j, i>> \in OpToRel(<, Nat))
      BY <3>1, WFMin, NatLessThanWellFounded
    <3>3. \A j \in W : ~(j < i)
      BY <3>1, <3>2 DEF OpToRel
    <3>. QED  BY <1>1, <2>3, <2>6, <3>3 DEF Ready, Clock
  <2>. QED  BY <2>5, <2>6
<1>. QED  BY <1>3, <1>4

(* The permits, the order of the semaphore and the missing inputs never    *)
(* leave a run with nothing to do (engine.py:84-96): only a child that     *)
(* outlives its killed tool can hold it up.                                *)
THEOREM NothingWaitsForNothing ==
    ASSUME Second # {},
           \A tool \in ToolNames, argument \in (SUBSET Value) \cup {{Domain}} :
               Prints(tool, argument) # {}
    PROVE  Spec => []SomethingToDo
<1>1. Init => Clock
  BY DEF Init, Clock, Idle
<1>2. RunnerInv /\ Clock /\ [Next]_vars => Clock'
  BY ClockStep
<1>3. RunnerInv /\ Clock => SomethingToDo
  <2>. SUFFICES ASSUME RunnerInv, Clock PROVE SomethingToDo
    OBVIOUS
  <2>1. ASSUME NEW i \in Slot, task[i].at \in {"reads", "killed"}
        PROVE  Prints(specs[i], Argument(specs[i], file)) # {}
    <3>1. specs[i] \in ToolNames /\ Missing(i) = {}
      BY <2>1, FileFacts DEF RunnerInv, Fed, AtWork
    <3>. QED  BY <3>1, PrintsFacts DEF RunnerInv
  <2>. QED  BY <2>1, SomeoneIsReady
<1>. QED  BY <1>1, <1>2, <1>3, RunnerInductive, PTL DEF Spec
=============================================================================
