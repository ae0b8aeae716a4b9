----------------------------- MODULE Submission -----------------------------
(***************************************************************************)
(* The first half of submit_scan (master/api.py), up to the plan that      *)
(* ScanPipeline takes as a constant: the program, the workflow file, the   *)
(* scope decisions (common/scope.py) and plan_tasks.  Each action is one   *)
(* await or one turn of a loop; an await may raise, and nothing is undone. *)
(***************************************************************************)
EXTENDS WorkflowLoader

CONSTANTS
    Raw,         \* targets as users write them
    Host,        \* what they normalize to
    HostOf,      \* normalize_target: {} when it is an InvalidTarget
    Raising,     \* targets evaluate raises another error for ("1.2.3.4*")
    HardBlocked, \* loopback, link-local and metadata endpoints
    Row,         \* scope_entries: [covers, is_allowed, broken]
    Request,     \* the target lists of requests
    Policy       \* the scope tables a program may have

ASSUME SubmissionAssumption ==
    /\ HostOf \in [Raw -> {{}} \cup {{h} : h \in Host}]
    /\ Raising \subseteq Raw
    /\ HardBlocked \subseteq Host
    /\ Row \subseteq [covers : SUBSET Host, is_allowed : BOOLEAN, broken : BOOLEAN]
    /\ Request \subseteq Seq(Raw)
    /\ Policy \subseteq SUBSET Row

VARIABLES
    at,        \* where the request is
    request,   \* req.targets
    entries,   \* the scope rows it read
    index,     \* of the loop it is in
    allowed,   \* allowed_targets
    planned    \* plan_tasks' list

requestVars == <<at, request, entries, index, allowed, planned>>
vars == <<loaderVars, requestVars>>

PlannedTask == [step : Name, group : Seq(Host)]
Ended == {"planned", "refused", "error"}

TypeOK ==
    /\ LoaderTypeOK
    /\ at \in {"program", "load", "scope", "decide", "audit", "insert", "plan"} \cup Ended
    /\ request \in Request
    /\ entries \subseteq Row
    /\ index \in Nat \ {0}
    /\ allowed \in Seq(Host)
    /\ planned \in Seq(PlannedTask)

Init ==
    /\ LoaderInit
    /\ at = "program"
    /\ request \in Request
    /\ entries = {}
    /\ index = 1
    /\ allowed = <<>>
    /\ planned = <<>>

-----------------------------------------------------------------------------
(* Scope policy                                                            *)

(* load_entries skips a row whose pattern does not parse.                  *)
Rows(is_allowed) ==
    {r \in entries : ~r.broken /\ r.is_allowed = is_allowed}

(* Hard blocks first, deny wins, default deny.                             *)
Evaluate(h) ==
    /\ h \notin HardBlocked
    /\ \A r \in Rows(FALSE) : h \notin r.covers
    /\ \E r \in Rows(TRUE) : h \in r.covers

-----------------------------------------------------------------------------
(* submit_scan                                                             *)

Goto(place) ==
    /\ at' = place
    /\ UNCHANGED <<loaderVars, request>>

FindProgram ==
    /\ at = "program"
    /\ Goto("load")
    /\ UNCHANGED <<entries, index, allowed, planned>>

RefuseProgram ==
    /\ at = "program"
    /\ Goto("refused")
    /\ UNCHANGED <<entries, index, allowed, planned>>

LoadWorkflow ==
    /\ at = "load"
    /\ Load
    /\ UNCHANGED requestVars

(* int() of max_attempts or list() of depends_on raises, which is no       *)
(* WorkflowError.                                                          *)
RaiseInLoad ==
    /\ at = "load"
    /\ verdict = "unread"
    /\ ~WellFormed
    /\ Goto("error")
    /\ UNCHANGED <<entries, index, allowed, planned>>

(* Variant: a cycle has no answer.                                         *)
LoadedNotCyclic ==
    /\ at = "load"
    /\ verdict \in {"malformed", "accepted"}
    /\ Goto(IF verdict = "accepted" THEN "scope" ELSE "refused")
    /\ UNCHANGED <<entries, index, allowed, planned>>

Loaded ==
    /\ at = "load"
    /\ verdict \in Judged
    /\ Goto(IF verdict = "accepted" THEN "scope" ELSE "refused")
    /\ UNCHANGED <<entries, index, allowed, planned>>

ReadScope ==
    /\ at = "scope"
    /\ \E rows \in Policy : entries' = rows
    /\ Goto("decide")
    /\ UNCHANGED <<index, allowed, planned>>

Target == request[index]

DecideTarget ==
    /\ at = "decide"
    /\ index <= Len(request)
    /\ Target \notin Raising
    /\ \/ /\ \E h \in HostOf[Target] : Evaluate(h) /\ allowed' = Append(allowed, h)
       \/ /\ \A h \in HostOf[Target] : ~Evaluate(h)
          /\ UNCHANGED allowed
    /\ index' = index + 1
    /\ Goto("decide")
    /\ UNCHANGED <<entries, planned>>

(* Not an InvalidTarget, so it ends the request.                           *)
RaiseInEvaluate ==
    /\ at = "decide"
    /\ index <= Len(request)
    /\ Target \in Raising
    /\ Goto("error")
    /\ UNCHANGED <<entries, index, allowed, planned>>

Decided ==
    /\ at = "decide"
    /\ index > Len(request)
    /\ Goto("audit")
    /\ UNCHANGED <<entries, index, allowed, planned>>

Audit ==
    /\ at = "audit"
    /\ Goto(IF allowed = <<>> THEN "refused" ELSE "insert")
    /\ UNCHANGED <<entries, index, allowed, planned>>

(* Variant: the plan starts where the decisions ended.                     *)
InsertScanOnly ==
    /\ at = "insert"
    /\ Goto("plan")
    /\ UNCHANGED <<entries, index, allowed, planned>>

InsertScan ==
    /\ at = "insert"
    /\ Goto("plan")
    /\ index' = 1
    /\ UNCHANGED <<entries, allowed, planned>>

(* fanout: one task for all targets, or one per target.                    *)
TasksOfStep(s) ==
    IF s.once THEN <<[step |-> s.name, group |-> allowed]>>
    ELSE [j \in DOMAIN allowed |-> [step |-> s.name, group |-> <<allowed[j]>>]]

(* Variant: the tasks of a step are put in front.                          *)
PlanStepFront ==
    /\ at = "plan"
    /\ index <= Len(file)
    /\ planned' = TasksOfStep(file[index]) \o planned
    /\ index' = index + 1
    /\ Goto("plan")
    /\ UNCHANGED <<entries, allowed>>

PlanStep ==
    /\ at = "plan"
    /\ index <= Len(file)
    /\ planned' = planned \o TasksOfStep(file[index])
    /\ index' = index + 1
    /\ Goto("plan")
    /\ UNCHANGED <<entries, allowed>>

Planned ==
    /\ at = "plan"
    /\ index > Len(file)
    /\ Goto("planned")
    /\ UNCHANGED <<entries, index, allowed, planned>>

(* A statement raises.                                                     *)
DbError ==
    /\ at \in {"program", "scope", "audit", "insert"}
    /\ Goto("error")
    /\ UNCHANGED <<entries, index, allowed, planned>>

Handle ==
    \/ FindProgram \/ RefuseProgram \/ LoadWorkflow \/ RaiseInLoad \/ Loaded
    \/ ReadScope \/ DecideTarget \/ RaiseInEvaluate \/ Decided \/ Audit
    \/ InsertScan \/ PlanStep \/ Planned

Next == Handle \/ DbError

Spec == Init /\ [][Next]_vars
FairSpec == Spec /\ WF_vars(Handle)

-----------------------------------------------------------------------------
InScope ==
    {h \in Host : Evaluate(h) /\ \E j \in DOMAIN request : h \in HostOf[request[j]]}

(* The plan is the workflow times the targets in scope: a per-target step  *)
(* has a task for each of them and for nothing else, a step that runs once *)
(* has one task with them all.                                             *)
PlanIsExact ==
    at = "planned" =>
        /\ {allowed[j] : j \in DOMAIN allowed} = InScope
        /\ {planned[j] : j \in DOMAIN planned} =
              UNION {IF file[k].once THEN {[step |-> file[k].name, group |-> allowed]}
                     ELSE {[step |-> file[k].name, group |-> <<h>>] : h \in InScope}
                     : k \in DOMAIN file}

(* If the file writes each step after those it depends on, the plan does   *)
(* so too, fan-out included: the order DependenciesFirst relies on.        *)
FileInOrder ==
    \A j, k \in DOMAIN file : DependsDirectly(file[j].name, file[k].name) => k < j

PlanInOrder ==
    at = "planned" /\ FileInOrder =>
        \A j, k \in DOMAIN planned :
            DependsDirectly(planned[j].step, planned[k].step) => k < j

(* Every request is answered: the search ends on every file.               *)
RequestEnds == <>(at \in Ended)
=============================================================================
