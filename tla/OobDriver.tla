----------------------------- MODULE OobDriver -----------------------------
(***************************************************************************)
(* worker/tools/drivers/interactsh.py: one run of the driver against a     *)
(* collaborator server, which hands every interaction over once.           *)
(***************************************************************************)
EXTENDS Naturals, FiniteSets

CONSTANTS
    Candidate,   \* URLs of the input file, each with a nonce of its own
    Injectable,  \* those with a query string
    MaxUrls,     \* --max-urls
    Foreign      \* an interaction that carries none of the nonces

ASSUME DriverAssumption ==
    /\ Injectable \subseteq Candidate
    /\ MaxUrls \in Nat \ {0}
    /\ Foreign \notin Candidate

VARIABLES
    step,      \* where the driver is
    plan,      \* URLs to probe: build_probe_plan
    fired,     \* URLs whose probe was sent
    waiting,   \* interactions the server has not handed over
    handed,    \* history: calls for probes in any response, lost ones too
    read,      \* history: those in the responses that could be read
    printed    \* rows on stdout

driverVars == <<step, plan, fired, waiting, handed, read, printed>>

DriverInit ==
    /\ step = "off"
    /\ plan = {} /\ fired = {} /\ waiting = {}
    /\ handed = {} /\ read = {} /\ printed = {}

(* A run of the driver knows nothing of another.                           *)
Forget ==
    /\ plan' = {} /\ fired' = {} /\ waiting' = {}
    /\ handed' = {} /\ read' = {} /\ printed' = {}

DriverStart ==
    /\ step' = "register"
    /\ Forget

(* The first max_urls candidates with something to inject.                 *)
ProbePlan ==
    {p \in SUBSET Injectable :
        \/ Cardinality(p) = MaxUrls
        \/ p = Injectable /\ Cardinality(p) <= MaxUrls}

Register ==
    /\ step = "register"
    /\ plan' \in ProbePlan
    /\ step' = "probe"
    /\ UNCHANGED <<fired, waiting, handed, read, printed>>

(* _fetch_no_raise: an answer, or none, is all the same.                   *)
Probe ==
    /\ step = "probe"
    /\ \E u \in plan \ fired : fired' = fired \cup {u}
    /\ UNCHANGED <<step, plan, waiting, handed, read, printed>>

Probed ==
    /\ step = "probe"
    /\ fired = plan
    /\ plan # {}
    /\ step' = "poll"
    /\ UNCHANGED <<plan, fired, waiting, handed, read, printed>>

(* The target calls back, or a stranger does.                              *)
Interact(i) ==
    /\ step \in {"probe", "poll"}
    /\ i \in fired \cup {Foreign}
    /\ waiting' = waiting \cup {i}
    /\ UNCHANGED <<step, plan, fired, handed, read, printed>>

MatchInteractions(found) == found \cap plan

(* The server answers a poll, and forgets what it hands over.              *)
HandOver ==
    /\ step = "poll"
    /\ handed' = handed \cup (waiting \ {Foreign})
    /\ waiting' = {}

Poll ==
    /\ HandOver
    /\ read' = read \cup (waiting \ {Foreign})
    /\ printed' = printed \cup MatchInteractions(waiting)
    /\ UNCHANGED <<step, plan, fired>>

(* A response that is lost on the way, or is no JSON: polling goes on.     *)
PollLost ==
    /\ HandOver
    /\ UNCHANGED <<step, plan, fired, read, printed>>

(* One that cannot be deciphered ends the run early.                       *)
PollUndecipherable ==
    /\ HandOver
    /\ step' = "abandoned"
    /\ UNCHANGED <<plan, fired, read, printed>>

(* Variant: an undecipherable response fails the run.                      *)
PollErrorFails == "error"

(* "findings already printed survive": the run has not failed.             *)
PollError == "ok"

(* A refused registration is 4, nothing to inject 3, a spent budget 0.     *)
ExitCodes ==
    CASE step = "register" -> {"error"}
      [] step = "probe" -> IF plan = {} THEN {"error"} ELSE {}
      [] step = "poll" -> {"ok"}
      [] step = "abandoned" -> {PollError}
      [] OTHER -> {}

DriverStep ==
    \/ Register \/ Probe \/ Probed \/ Poll \/ PollLost \/ PollUndecipherable
    \/ \E i \in Candidate \cup {Foreign} : Interact(i)

DriverTypeOK ==
    /\ step \in {"off", "register", "probe", "poll", "abandoned"}
    /\ fired \subseteq plan /\ plan \subseteq Injectable
    /\ Cardinality(plan) <= MaxUrls
    /\ waiting \subseteq plan \cup {Foreign}
    /\ read \subseteq handed /\ handed \subseteq plan
    /\ printed \subseteq plan
=============================================================================
