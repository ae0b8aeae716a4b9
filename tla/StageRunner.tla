---------------------------- MODULE StageRunner ----------------------------
(***************************************************************************)
(* The legacy orchestrator: recon/engine.py runs the selected tools stage  *)
(* by stage, at most `concurrency' at a time; recon/runner.py runs one     *)
(* tool, with a timeout and retries, and keeps its raw log; the findings   *)
(* of a stage become the input files of the next; reports end it.          *)
(*                                                                         *)
(* Its tasks share one event loop: a step below runs from one await to the *)
(* next.  A failed write ends the run at once, as asyncio.run cancels the  *)
(* tasks that are left.                                                    *)
(***************************************************************************)
EXTENDS StageTools, FiniteSets

CONSTANTS
    Option,        \* what the command line and the JSON file may say
    Unset,
    Concurrency,
    MaxRetries,
    Second,        \* seconds in which a runner may start
    Prints(_, _),  \* external: what a tool may print about its argument
    None

ASSUME RunnerAssumption ==
    /\ Concurrency \in Nat \ {0}      \* _coerce_int(.., 1)
    /\ MaxRetries \in Nat \ {0}
    /\ Second \subseteq Nat
    /\ \A o \in Option :
          o.dry_run \in BOOLEAN /\ (o.tools = Unset \/ o.tools \in Seq(STRING))
    /\ \A tool \in ToolNames :
          \A argument \in IF TOOL_SPECS[tool].requires_files = {}
                          THEN {{Domain}} ELSE SUBSET Value :
              Prints(tool, argument) \subseteq SUBSET Line

VARIABLES
    config,   \* ScanConfig
    specs,    \* the selection, by stage
    outcome,  \* of run(): under way, or how it ended
    stage,
    task,     \* per spec: where its run_one is
    result,   \* per spec: its ToolResult
    file,     \* ctx["files"]: what the stage hand-off files hold
    log,      \* the raw logs on disk: path -> whose, and what
    report    \* the reports on disk

vars == <<config, specs, outcome, stage, task, result, file, log, report>>

Slot == DOMAIN specs

RunOne ==
    [at : {"waits", "runs", "reads", "killed", "sleeps", "ended"},
     second : Second \cup {None}, attempt : 1..MaxRetries,
     rc : {0, 1, None}, final_rc : {0, 1, None}, held : BOOLEAN]

ToolResult ==
    [status : {"success", "failed", "skipped"}, findings : SUBSET Evidence,
     attempts : 0..MaxRetries, return_code : {0, 1, None}]

ASSUME NoneAssumption ==
    /\ None \notin {0, 1} /\ None \notin ToolResult
    /\ \A values \in SUBSET Value : values # NoFile

-----------------------------------------------------------------------------
(* build_config: CLI flags override the file, which overrides defaults.    *)
(* --dry-run is store_true: without it the flag is False, never None.      *)
build_config(cli, json) ==
    [enabled_tools |->
        CASE cli.tools # Unset  -> cli.tools
          [] cli.tools = Unset /\ json.tools # Unset -> json.tools
          [] OTHER -> <<"all">>,
     dry_run |-> cli.dry_run]

Idle == [at |-> "waits", second |-> None, attempt |-> 1,
         rc |-> None, final_rc |-> None, held |-> FALSE]

NoReport == [files |-> {}, results |-> <<>>]

Init ==
    /\ \E cli, json \in Option : config = build_config(cli, json)
    /\ specs \in IF Known(config.enabled_tools)
                 THEN expand_tool_selection(config.enabled_tools)
                 ELSE {<<>>}
    /\ outcome = IF Known(config.enabled_tools) THEN "running" ELSE "refused"
    /\ stage = 1
    /\ task = [i \in Slot |-> Idle]
    /\ result = [i \in Slot |-> None]
    /\ file = [subdomains |-> NoFile, live_hosts |-> NoFile]
    /\ log = <<>>
    /\ report = NoReport

-----------------------------------------------------------------------------
(* recon/engine.py                                                         *)

InStage == {i \in Slot : StageOf(specs[i]) = stage}
Missing(i) == {f \in TOOL_SPECS[specs[i]].requires_files : file[f] = NoFile}

Result(status, findings, attempts, code) ==
    [status |-> status, findings |-> findings, attempts |-> attempts,
     return_code |-> code]

Scanning == outcome = "running" /\ ~config.dry_run

(* An input an earlier stage did not produce: no permit is taken.          *)
Skip(i) ==
    /\ Scanning
    /\ i \in InStage /\ result[i] = None /\ task[i].at = "waits"
    /\ Missing(i) # {}
    /\ task' = [task EXCEPT ![i].at = "ended"]
    /\ result' = [result EXCEPT ![i] = Result("skipped", {}, 0, None)]
    /\ UNCHANGED <<config, specs, outcome, stage, file, log, report>>

(* Variant: the permit is given back during the backoff.                   *)
HoldersButSleepers ==
    {i \in InStage : task[i].at \notin {"waits", "ended", "sleeps"}}

Holders == {i \in InStage : task[i].at \notin {"waits", "ended"}}

(* The semaphore serves its waiters in order.  The first attempt follows.  *)
Acquire(i) ==
    /\ Scanning
    /\ i \in InStage /\ task[i].at = "waits" /\ Missing(i) = {}
    /\ Cardinality(Holders) < Concurrency
    /\ \A j \in InStage : j < i => task[j].at # "waits" \/ Missing(j) # {}
    /\ \E s \in Second :
        /\ \A j \in Slot : task[j].second # None => s >= task[j].second
        /\ task' = [task EXCEPT ![i].at = "runs", ![i].second = s]
    /\ UNCHANGED <<config, specs, outcome, stage, result, file, log, report>>

(* ctx["subdomains"] and ctx["live_hosts"]: the values of a type in the    *)
(* results so far.                                                         *)
Values(type) ==
    {f.value : f \in {g \in UNION {result[i].findings :
                            i \in {j \in Slot : result[j] # None}} :
                      g.type = type}}

(* A file is written once, the first time there is something to write.     *)
Write(old, values) == IF old = NoFile /\ values # {} THEN values ELSE old

(* Variant: the branch for live hosts is missing.                          *)
update_context_of_names ==
    [subdomains |-> Write(file.subdomains, Values("subdomain")),
     live_hosts |-> file.live_hosts]

update_context ==
    [subdomains |-> Write(file.subdomains, Values("subdomain")),
     live_hosts |-> Write(file.live_hosts, Values("live_host"))]

(* Variant: the next stage starts at the first result of this one.         *)
EndStageAtFirst ==
    /\ Scanning
    /\ specs # <<>>
    /\ stage \in Stages
    /\ InStage = {} \/ \E i \in InStage : result[i] # None
    /\ file' = update_context
    /\ stage' = stage + 1
    /\ UNCHANGED <<config, specs, outcome, task, result, log, report>>

(* gather has every result of the stage.                                   *)
EndStage ==
    /\ Scanning
    /\ specs # <<>>
    /\ stage \in Stages
    /\ \A i \in InStage : result[i] # None
    /\ \/ /\ file' = update_context
          /\ stage' = stage + 1
          /\ UNCHANGED outcome
       \/ /\ update_context # file
          /\ outcome' = "disk_full"
          /\ UNCHANGED <<file, stage>>
    /\ UNCHANGED <<config, specs, task, result, log, report>>

(* max() of no stages raises.                                              *)
NoTools ==
    /\ Scanning /\ specs = <<>>
    /\ outcome' = "error"
    /\ UNCHANGED <<config, specs, stage, task, result, file, log, report>>

(* _build_report and _write_reports: the JSON log, then the summary.       *)
WriteReports(results) ==
    \E written \in {{}, {"json"}, {"json", "markdown"}} :
        /\ report' = [files |-> written, results |-> results]
        /\ outcome' = IF written = {"json", "markdown"} THEN "reported"
                                                        ELSE "disk_full"

Report ==
    /\ Scanning /\ stage \notin Stages
    /\ WriteReports(result)
    /\ UNCHANGED <<config, specs, stage, task, result, file, log>>

(* A dry run looks each binary up in $PATH.                                *)
DryRun ==
    /\ outcome = "running" /\ config.dry_run
    /\ \E status \in [Slot -> {"success", "failed"}] :
        WriteReports([i \in Slot |-> Result(status[i], {}, 0, None)])
    /\ UNCHANGED <<config, specs, stage, task, result, file, log>>

-----------------------------------------------------------------------------
(* recon/runner.py                                                         *)

raw_log_path(i) == <<specs[i], task[i].second>>

(* The loop is over, its last attempt printed out: the raw log of every    *)
(* attempt, then the result.                                               *)
Finish(i, final_rc, out) ==
    LET status == IF final_rc = 0 THEN "success" ELSE "failed"
    IN  \/ /\ log' = [p \in DOMAIN log \cup {raw_log_path(i)} |->
                        IF p = raw_log_path(i)
                        THEN [slot |-> i, attempts |-> task[i].attempt]
                        ELSE log[p]]
           /\ result' = [result EXCEPT ![i] =
                Result(status,
                       IF status = "success"
                       THEN parse_findings(specs[i], out) ELSE {},
                       task[i].attempt, final_rc)]
           /\ task' = [task EXCEPT ![i].at = "ended", ![i].rc = None]
           /\ UNCHANGED outcome
        \/ /\ outcome' = "disk_full"
           /\ UNCHANGED <<log, result, task>>

Sleep(i, final_rc) ==
    /\ task' = [task EXCEPT ![i].at = "sleeps", ![i].rc = None,
                            ![i].final_rc = final_rc]
    /\ UNCHANGED <<outcome, result, log>>

(* The last exit code there was.                                           *)
FinalCode(i, rc) == IF rc # None THEN rc ELSE task[i].final_rc

(* Variants: no break at a success; one attempt too many.                  *)
ConcludeLast(i, rc, out) ==
    IF task[i].attempt = MaxRetries
    THEN Finish(i, FinalCode(i, rc), out)
    ELSE Sleep(i, FinalCode(i, rc))

ConcludeLate(i, rc, out) ==
    IF rc = 0 \/ task[i].attempt > MaxRetries
    THEN Finish(i, FinalCode(i, rc), out)
    ELSE Sleep(i, FinalCode(i, rc))

(* _execute_once returned.                                                 *)
Conclude(i, rc, out) ==
    IF rc = 0 \/ task[i].attempt = MaxRetries
    THEN Finish(i, FinalCode(i, rc), out)
    ELSE Sleep(i, FinalCode(i, rc))

Running(i) == Scanning /\ i \in InStage /\ task[i].at = "runs"

(* FileNotFoundError, PermissionError, OSError.                            *)
LaunchFails(i) ==
    /\ Running(i)
    /\ Conclude(i, None, {})
    /\ UNCHANGED <<config, specs, stage, file, report>>

Exits == [rc : {0, 1}, held : BOOLEAN]

(* External: the process ends; a child of its own may have its pipes.      *)
Exit(i) ==
    /\ Running(i)
    /\ \E e \in Exits :
        task' = [task EXCEPT ![i].at = "reads", ![i].rc = e.rc,
                             ![i].held = e.held]
    /\ UNCHANGED <<config, specs, outcome, stage, result, file, log, report>>

(* Variant: an event loop without wait_for.                                *)
ExpireNever(i) == FALSE /\ UNCHANGED vars

(* tool_timeout_sec: kill() reaches the process, not its children.  Some   *)
(* versions of asyncio report an exit only once the pipes are closed.      *)
Expire(i) ==
    /\ \/ Running(i)
       \/ Scanning /\ i \in InStage /\ task[i].at = "reads" /\ task[i].held
    /\ \E held \in BOOLEAN :
        task' = [task EXCEPT ![i].at = "killed", ![i].rc = None,
                             ![i].held = held]
    /\ UNCHANGED <<config, specs, outcome, stage, result, file, log, report>>

(* External: the last holder of the pipes ends.                            *)
Release(i) ==
    /\ Scanning /\ i \in InStage
    /\ task[i].at \in {"reads", "killed"} /\ task[i].held
    /\ task' = [task EXCEPT ![i].held = FALSE]
    /\ UNCHANGED <<config, specs, outcome, stage, result, file, log, report>>

(* The readers are at the end of the pipes.                                *)
Drain(i) ==
    /\ Scanning /\ i \in InStage
    /\ task[i].at \in {"reads", "killed"} /\ ~task[i].held
    /\ \E out \in Prints(specs[i], Argument(specs[i], file)) :
        Conclude(i, task[i].rc, out)
    /\ UNCHANGED <<config, specs, stage, file, report>>

(* The backoff is over.                                                    *)
Retry(i) ==
    /\ Scanning /\ i \in InStage /\ task[i].at = "sleeps"
    /\ task' = [task EXCEPT ![i].at = "runs", ![i].attempt = @ + 1]
    /\ UNCHANGED <<config, specs, outcome, stage, result, file, log, report>>

Step(i) ==
    \/ Skip(i) \/ Acquire(i)
    \/ LaunchFails(i) \/ Expire(i) \/ Drain(i) \/ Retry(i)

Engine == EndStage \/ NoTools \/ Report \/ DryRun

Next ==
    \/ \E i \in Slot : Step(i) \/ Exit(i) \/ Release(i)
    \/ Engine

Spec == Init /\ [][Next]_vars

(* The event loop runs what is ready and its timers fire.                  *)
FairSpec ==
    /\ Spec
    /\ WF_vars(\E i \in Slot : Skip(i) \/ Acquire(i))
    /\ WF_vars(\E i \in Slot : Expire(i))
    /\ WF_vars(\E i \in Slot : Drain(i))
    /\ WF_vars(\E i \in Slot : Retry(i))
    /\ WF_vars(Engine)

-----------------------------------------------------------------------------
(* Properties                                                              *)

(* The state is well formed, and no tool is tried more often than          *)
(* max_retries (runner.py:88).                                             *)
TypeOK ==
    /\ config.dry_run \in BOOLEAN
    /\ specs \in Seq(ToolNames)
    /\ outcome \in {"running", "reported", "disk_full", "refused", "error"}
    /\ stage \in 1..4
    /\ task \in [Slot -> RunOne]
    /\ result \in [Slot -> ToolResult \cup {None}]
    /\ file \in [subdomains : {NoFile} \cup SUBSET Value,
                live_hosts : {NoFile} \cup SUBSET Value]
    /\ \A p \in DOMAIN log : log[p] \in [slot : Slot, attempts : 1..MaxRetries]
    /\ report.files \subseteq {"json", "markdown"}

Runs(i) == task[i].at \in {"runs", "reads", "killed"}

(* At most `concurrency' tools run, retries included, and all of them      *)
(* belong to one stage (engine.py:95).                                     *)
PermitsAreKept ==
    LET running == {i \in Slot : Runs(i)}
    IN  /\ Cardinality(running) <= Concurrency
        /\ running \subseteq InStage

KindIn(f) == IF f = "subdomains" THEN "subdomain" ELSE "live_host"

(* What every tool of the earlier stages found of the kind file f holds.   *)
FoundBefore(s, f) ==
    {v \in Value : \E j \in Slot :
        /\ StageOf(specs[j]) < s
        /\ result[j] # None
        /\ [type |-> KindIn(f), value |-> v] \in result[j].findings}

(* A tool that reads a file starts after every tool of the stages before   *)
(* it has its result, and the file has all they found (engine.py:84-85).   *)
InputIsComplete ==
    \A i \in Slot : Runs(i) =>
        /\ \A j \in Slot : StageOf(specs[j]) < StageOf(specs[i])
                              => result[j] # None
        /\ \A f \in TOOL_SPECS[specs[i]].requires_files :
            file[f] = FoundBefore(StageOf(specs[i]), f)

(* A tool succeeds, and its output counts, in no step but the one in which *)
(* the output of a program that ended by itself with exit code 0 has been  *)
(* read; a tool that fails has used up its attempts (runner.py:107-134).   *)
SuccessIsTheLastAttempt ==
    [][\A i \in Slot : result[i] = None /\ result'[i] # None =>
        /\ result'[i].findings # {} => result'[i].status = "success"
        /\ result'[i].status = "success" =>
            task[i].at = "reads" /\ task[i].rc = 0 /\ ~task[i].held
        /\ result'[i].status = "failed" =>
            result'[i].attempts = MaxRetries]_vars

(* 100% raw-log retention (runner.py:4-5, runner.py:122-123): the raw log  *)
(* of every run of a tool is on disk, with all its attempts, however they  *)
(* ended.                                                                  *)
LogsAreKept ==
    \A i \in Slot : result[i] # None /\ result[i].status # "skipped" =>
        LET path == <<specs[i], task[i].second>>
        IN  /\ path \in DOMAIN log
            /\ log[path] = [slot |-> i, attempts |-> result[i].attempts]

(* A scan that ended well has both reports and a result of every selected  *)
(* tool, and only a tool without input was skipped (engine.py:87-89).      *)
ReportAddsUp ==
    outcome = "reported" /\ ~config.dry_run =>
        /\ report.files = {"json", "markdown"}
        /\ DOMAIN report.results = Slot
        /\ \A i \in Slot :
            LET needs == TOOL_SPECS[specs[i]].requires_files
            IN  /\ report.results[i] # None
                /\ report.results[i].status = "skipped" <=>
                    \E f \in needs : FoundBefore(StageOf(specs[i]), f) = {}

(* A process that outlived its tool has the pipes open.                    *)
Stuck ==
    outcome = "running" /\
    \E i \in Slot : task[i].at \in {"reads", "killed"} /\ task[i].held

(* The scan ends, whatever the tools do, unless such a process stays.      *)
EngineEnds == <>[](outcome # "running" \/ Stuck)
=============================================================================
