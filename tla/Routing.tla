------------------------------ MODULE Routing ------------------------------
(***************************************************************************)
(* How findings flow from tool to tool within one scan: plan_tasks' params *)
(* (master/orchestrator.py), submit_scan's rows (master/api.py), the gate  *)
(* of ready_tasks (common/db.py), the input the worker materializes, the   *)
(* outcome of a run and the cascade of a dead one (worker/main.py), with   *)
(* the wrappers of Tools.  ScanPipeline has the deliveries; here one       *)
(* handler at a time holds a task, and a reclaim gives it to another.      *)
(***************************************************************************)
EXTENDS Tools, Naturals, FiniteSets

CONSTANTS
    Request,      \* workflows and the targets to run them for
    Lacking,      \* tools that some worker's capabilities leave out
    MaxAttempts,  \* max_attempts
    MaxCrashes    \* bound: handlers that die or raise in a run

(* The steps of a YAML file by name.  "broken" params have a value that    *)
(* int() or the wrapper's own check raises a ValueError for.               *)
ASSUME RoutingAssumption ==
    /\ Lacking \subseteq ToolName
    /\ MaxAttempts \in Nat \ {0}
    /\ MaxCrashes \in Nat
    /\ \A q \in Request :
          /\ q.targets \in (SUBSET Target) \ {{}}
          /\ \A s \in DOMAIN q.steps :
                q.steps[s] \in [tool : ToolName, once : BOOLEAN,
                               params : SUBSET Param, broken : BOOLEAN,
                               depends_on : SUBSET DOMAIN q.steps,
                               when : {{}} \cup {{ty} : ty \in FindingType}]

VARIABLES
    request,   \* the scan's workflow and targets
    at,        \* per task: its row's state and how far its handler is
    due,       \* dead tasks whose handler has yet to abort the dependents
    spared,    \* history: tasks behind a dead one that no cascade reached
    attempt,   \* per task: the attempt of its message
    input,     \* per task: the values its tool was started with, by type
    rows,      \* the scan's findings
    crashes

vars == <<request, at, due, spared, attempt, input, rows, crashes>>

(* A task is a step and its group of targets.                              *)
Steps == DOMAIN request.steps

Groups(s) ==
    IF request.steps[s].once THEN {request.targets}
    ELSE {{g} : g \in request.targets}

Task == UNION {{<<s, g>> : g \in Groups(s)} : s \in Steps}

StepOf(t) == request.steps[t[1]]
ToolOf(t) == Tool(StepOf(t).tool)
DependsOn(t) == {d \in Task : d[1] \in StepOf(t).depends_on}

(* The params a task's message carries.                                    *)
Params(t) ==
    StepOf(t).params \cup (IF StepOf(t).once THEN {"targets"} ELSE {})

(* "unplanned" tasks have no row yet; "queued" rows are held or sent;      *)
(* "running" ones are launched, recorded or raised (their handler is gone, *)
(* their entry is pending); "dead" ones are forbidden ("tool not           *)
(* permitted"), refused ("invalid tool parameters") or exhausted.          *)
Queued == {"held", "sent"}
Running == {"launched", "recorded", "raised"}
Dead == {"forbidden", "refused", "exhausted"}
Terminal == {"succeeded", "aborted"} \cup Dead

Init ==
    /\ request \in Request
    /\ at = [t \in Task |-> "unplanned"]
    /\ due = {}
    /\ spared = {}
    /\ attempt = [t \in Task |-> 1]
    /\ input = [t \in Task |-> <<>>]
    /\ rows = {}
    /\ crashes = 0

-----------------------------------------------------------------------------
(* Submission and dispatch                                                 *)

(* submit_scan inserts the row of a task, after those of the steps it      *)
(* depends on, and sends a task without dependencies there and then,       *)
(* whatever its gate.                                                      *)
Insert(t) ==
    /\ at[t] = "unplanned"
    /\ \A d \in DependsOn(t) : at[d] # "unplanned"
    /\ at' = [at EXCEPT ![t] =
                IF StepOf(t).depends_on = {} THEN "sent" ELSE "held"]
    /\ UNCHANGED <<request, due, spared, attempt, input, rows, crashes>>

Types == {r.type : r \in rows}

(* Variant: the gate of a step behind others is not asked either.          *)
GateOpenAlways(t) == TRUE

GateOpen(t) == StepOf(t).when \subseteq Types

(* Variant: one task of a step is enough.                                  *)
DependenciesPartly(t) ==
    \A s \in StepOf(t).depends_on :
        \E d \in DependsOn(t) : d[1] = s /\ at[d] = "succeeded"

DependenciesDone(t) == \A d \in DependsOn(t) : at[d] = "succeeded"

Dispatch(t) ==
    /\ at[t] = "held"
    /\ DependenciesDone(t)
    /\ GateOpen(t)
    /\ at' = [at EXCEPT ![t] = "sent"]
    /\ UNCHANGED <<request, due, spared, attempt, input, rows, crashes>>

-----------------------------------------------------------------------------
(* The handler                                                             *)

(* scan_finding_values, for the types the tool consumes.                   *)
Values(t) ==
    [ty \in ToolOf(t).consumes |-> {r.value : r \in {x \in rows : x.type = ty}}]

NoValues(t) == \A ty \in ToolOf(t).consumes : Values(t)[ty] = {}

(* _build_context raises, outside of _handle's try.                        *)
Starved(t) == ToolOf(t).needs_input_file /\ NoValues(t)

(* validate_params raises the ToolExecutionError _handle catches.          *)
Unknown(t) == ~(Params(t) \subseteq ToolOf(t).allowed_params)

(* build_argv raises something else.                                       *)
Broken(t) == ~Unknown(t) /\ StepOf(t).broken

(* Handed out the first time, or again after a reclaim, which counts as an *)
(* attempt (only attempt < max_attempts is ever asked).                    *)
Handed(t) == at[t] \in {"sent", "raised"}

AttemptOnceHanded(t) ==
    IF at[t] = "raised" /\ attempt[t] < MaxAttempts
    THEN attempt[t] + 1 ELSE attempt[t]

Again(t) == attempt' = [attempt EXCEPT ![t] = AttemptOnceHanded(t)]

Raise(t) ==
    /\ Handed(t)
    /\ Starved(t) \/ Broken(t)
    /\ at' = [at EXCEPT ![t] = "raised"]
    /\ Again(t)
    /\ UNCHANGED <<request, due, spared, input, rows, crashes>>

(* The row becomes dead; the cascade is another statement, still to come.  *)
Refuse(t) ==
    /\ Handed(t)
    /\ ~Starved(t)
    /\ Unknown(t)
    /\ at' = [at EXCEPT ![t] = "refused"]
    /\ due' = due \cup {t}
    /\ UNCHANGED <<request, spared, attempt, input, rows, crashes>>

(* The steps that depend on a step, and the step itself.                   *)
Downstream(step) ==
    LET closed(bad) ==
            /\ step \in bad
            /\ \A s \in Steps :
                  request.steps[s].depends_on \cap bad # {} => s \in bad
    IN  {s \in Steps : \A bad \in SUBSET Steps : closed(bad) => s \in bad}

(* Tasks behind t, or beside it, in one of some states.                    *)
Behind(t, states) == {u \in Task : u[1] \in Downstream(t[1]) /\ at[u] \in states}

(* The capability gate: the row is dead, and no cascade follows.           *)
RefuseTool(t) ==
    /\ Handed(t)
    /\ StepOf(t).tool \in Lacking
    /\ at' = [at EXCEPT ![t] = "forbidden"]
    /\ spared' = spared \cup Behind(t, {"unplanned", "held"})
    /\ UNCHANGED <<request, due, attempt, input, rows, crashes>>

(* Variant: only the direct dependents are aborted.                        *)
CascadeDirectly(t) ==
    /\ t \in due
    /\ due' = due \ {t}
    /\ at' = [u \in Task |->
                IF at[u] \in Queued /\ t[1] \in StepOf(u).depends_on
                THEN "aborted" ELSE at[u]]
    /\ spared' = spared \cup Behind(t, {"unplanned"})
    /\ UNCHANGED <<request, attempt, input, rows, crashes>>

(* abort_dependents, over the rows there are: those that submit_scan has   *)
(* yet to insert are spared.                                               *)
Cascade(t) ==
    /\ t \in due
    /\ due' = due \ {t}
    /\ at' = [u \in Task |->
                IF u \in Behind(t, Queued) THEN "aborted" ELSE at[u]]
    /\ spared' = spared \cup Behind(t, {"unplanned"})
    /\ UNCHANGED <<request, attempt, input, rows, crashes>>

(* The handler dies or raises before its cascade: the next one finds the   *)
(* row terminal and acknowledges the entry.                                *)
LoseCascade(t) ==
    /\ t \in due
    /\ crashes < MaxCrashes
    /\ crashes' = crashes + 1
    /\ due' = due \ {t}
    /\ spared' = spared \cup Behind(t, {"unplanned", "held"})
    /\ UNCHANGED <<request, at, attempt, input, rows>>

Launch(t) ==
    /\ Handed(t)
    /\ ~Starved(t)
    /\ ~Unknown(t)
    /\ ~Broken(t)
    /\ at' = [at EXCEPT ![t] = "launched"]
    /\ Again(t)
    /\ input' = [input EXCEPT ![t] = Values(t)]
    /\ UNCHANGED <<request, due, spared, rows, crashes>>

(* A row is one type and value; a second finding of it changes no value.   *)
Record(t, found) ==
    rows' = rows \cup
        {[type |-> f.type, value |-> f.value, task |-> t] :
           f \in {x \in found : \A r \in rows : r.type # x.type \/ r.value # x.value}}

(* The program exits with 0 and its output is parsed and recorded.         *)
Report(t) ==
    /\ at[t] = "launched"
    /\ \E target \in t[2] : \E out \in SUBSET Prints(StepOf(t).tool, input[t]) :
          Record(t, Parse(StepOf(t).tool, target, out))
    /\ at' = [at EXCEPT ![t] = "recorded"]
    /\ UNCHANGED <<request, due, spared, attempt, input, crashes>>

(* The batch fails in the database, which record_findings only logs.       *)
LoseBatch(t) ==
    /\ at[t] = "launched"
    /\ at' = [at EXCEPT ![t] = "recorded"]
    /\ UNCHANGED <<request, due, spared, attempt, input, rows, crashes>>

Finish(t) ==
    /\ at[t] = "recorded"
    /\ at' = [at EXCEPT ![t] = "succeeded"]
    /\ UNCHANGED <<request, due, spared, attempt, input, rows, crashes>>

Retry(t) ==
    /\ at[t] = "launched"
    /\ attempt[t] < MaxAttempts
    /\ at' = [at EXCEPT ![t] = "sent"]
    /\ attempt' = [attempt EXCEPT ![t] = @ + 1]
    /\ UNCHANGED <<request, due, spared, input, rows, crashes>>

Exhaust(t) ==
    /\ at[t] = "launched"
    /\ attempt[t] = MaxAttempts
    /\ at' = [at EXCEPT ![t] = "exhausted"]
    /\ due' = due \cup {t}
    /\ UNCHANGED <<request, spared, attempt, input, rows, crashes>>

(* The worker dies, or a statement of the handler fails.                   *)
Crash(t) ==
    /\ at[t] \in {"launched", "recorded"}
    /\ crashes < MaxCrashes
    /\ crashes' = crashes + 1
    /\ at' = [at EXCEPT ![t] = "raised"]
    /\ UNCHANGED <<request, due, spared, attempt, input, rows>>

Handle(t) ==
    \/ RefuseTool(t) \/ Raise(t) \/ Refuse(t) \/ Launch(t)
    \/ Report(t) \/ LoseBatch(t) \/ Finish(t) \/ Retry(t) \/ Exhaust(t)
    \/ Cascade(t)

Next ==
    \E t \in Task :
        Insert(t) \/ Dispatch(t) \/ Handle(t) \/ Crash(t) \/ LoseCascade(t)

Spec == Init /\ [][Next]_vars

(* submit_scan goes on (ScanPipeline has the one that dies), the           *)
(* maintenance loop ticks, and a handler whose worker lives goes on: a     *)
(* tool ends or is killed at its timeout.                                  *)
FairSpec ==
    Spec /\ WF_vars(\E t \in Task : Insert(t) \/ Dispatch(t) \/ Handle(t))
-----------------------------------------------------------------------------
(* Properties                                                              *)

(* A finding is of a type its tool declares to produce, and every task     *)
(* that was started has the values of just the types it consumes.          *)
TypeOK ==
    /\ request \in Request
    /\ at \in [Task -> {"unplanned"} \cup Queued \cup Running \cup Terminal]
    /\ \A t \in due : t \in Task /\ at[t] \in Dead
    /\ spared \subseteq Task
    /\ attempt \in [Task -> 1..MaxAttempts]
    /\ DOMAIN input = Task
    /\ \A t \in Task : at[t] \in {"launched", "recorded"} =>
          DOMAIN input[t] = ToolOf(t).consumes
    /\ \A r \in rows : r.task \in Task /\ r.type \in ToolOf(r.task).produces
    /\ crashes \in 0..MaxCrashes

AtWork(t) == at[t] \in {"launched", "recorded"}

Parameterized == WithQuery \cup ({"fuzz"} \X Url)

(* What a signal type is documented to mean.  An open port is one that     *)
(* accepts connections, unless a search engine was asked for it.           *)
Meaning ==
    [resolved_host |-> Resolves, live_host |-> Url, url_param |-> Parameterized,
     http_403 |-> Blocked, wordpress |-> WordPress, api_surface |-> Api,
     open_port |-> IF \E s \in Steps : request.steps[s].tool = "uncover"
                   THEN (Name \cup Address) \X Port ELSE Open]

(* R1 to R6 of the workflow files: whatever tools report, retry or lose,   *)
(* an expensive tool is only ever started on values that the signal it     *)
(* waits for is true of: resolvable hosts for the probes, open ports for   *)
(* nmap, parameterized URLs for the injection tools, and so on.            *)
RoutingRules ==
    \A t \in Task : AtWork(t) =>
        \A ty \in DOMAIN Meaning \cap ToolOf(t).consumes :
            input[t][ty] \subseteq Meaning[ty]

(* A tool is started with everything that the steps before it have found,  *)
(* for all targets: no row of a dependency appears after the input file    *)
(* was written.                                                            *)
DependenciesFeed ==
    \A t \in Task : AtWork(t) =>
        \A r \in rows :
            r.task \in DependsOn(t) /\ r.type \in ToolOf(t).consumes =>
                r.value \in input[t][r.type]

(* A step that waits behind others for a type its tool reads never finds   *)
(* its input empty, which would raise for ever.                            *)
GatedIsFed ==
    \A t \in Task :
        (/\ StepOf(t).depends_on # {}
         /\ StepOf(t).when \cap ToolOf(t).consumes # {}
         /\ at[t] \notin {"unplanned", "held", "aborted"})
        => ~Starved(t)

(* No step is refused by the wrapper of its own tool.                      *)
StepsAccepted == \A t \in Task : at[t] # "refused"

(* What a task that has not ended waits for: a gate nobody opened, input   *)
(* nobody reported, a mended parameter, a task before it that waits        *)
(* itself, or a dead one whose cascade passed it by.                       *)
Waits(t) ==
    \/ at[t] = "held" /\ ~GateOpen(t)
    \/ at[t] = "held" /\ \E d \in DependsOn(t) : at[d] \notin Terminal
    \/ at[t] = "held" /\ t \in spared
    \/ at[t] = "raised" /\ (Starved(t) \/ Broken(t))

(* In the end every task has an outcome or waits for something the scan    *)
(* will never get.  A dead step holds up no step behind it, however far,   *)
(* but for the three ways a cascade can pass one by: its handler dies      *)
(* after the row is dead and before the cascade, the tool was one the      *)
(* worker lacks, or submit_scan inserts the row after the cascade ran.     *)
OnlyInputIsAwaited ==
    <>[](\A t \in Task : at[t] \in Terminal \/ Waits(t))
=============================================================================
