------------------------------ MODULE Executor ------------------------------
(***************************************************************************)
(* worker/executor.py: the processes of one program that run() starts in a *)
(* session of its own, its wait for them, and the kill at the timeout.     *)
(***************************************************************************)
EXTENDS Naturals, Sequences

CONSTANTS
    Process,   \* processes a program may have at a time
    Leader     \* the one Popen starts

ASSUME ExecutorAssumption == Leader \in Process

VARIABLES
    phase,     \* where run() is
    alive,     \* processes of the program
    away,      \* those of them that left the session (setsid)
    holding,   \* those of them that have the output pipes open
    status     \* how the leader ended

processVars == <<phase, alive, away, holding, status>>

Code == {"ok", "error", "killed", "absent"}

ExecutorInit ==
    /\ phase = "none"
    /\ alive = {} /\ away = {} /\ holding = {}
    /\ status = "ok"

(* Popen; preexec_fn has made the child a session leader when it returns.  *)
Spawn ==
    /\ phase = "none"
    /\ phase' = "waits"
    /\ alive' = {Leader} /\ away' = {} /\ holding' = {Leader}
    /\ UNCHANGED status

-----------------------------------------------------------------------------
(* What the program may do: its processes are not the worker's.            *)

With(set, p, q) == IF p \in set THEN set \cup {q} ELSE set \ {q}

Fork(p, q) ==
    /\ p \in alive /\ q \notin alive /\ q # Leader
    /\ alive' = alive \cup {q}
    /\ away' = With(away, p, q)
    /\ holding' = With(holding, p, q)
    /\ UNCHANGED <<phase, status>>

Leave(p) ==
    /\ p \in alive \ (away \cup {Leader})
    /\ away' = away \cup {p}
    /\ UNCHANGED <<phase, alive, holding, status>>

CloseOutput(p) ==
    /\ p \in holding
    /\ holding' = holding \ {p}
    /\ UNCHANGED <<phase, alive, away, status>>

Exit(p, code) ==
    /\ p \in alive
    /\ alive' = alive \ {p} /\ away' = away \ {p} /\ holding' = holding \ {p}
    /\ status' = IF p = Leader THEN code ELSE status
    /\ UNCHANGED phase

Program ==
    \/ \E p, q \in Process : Fork(p, q)
    \/ \E p \in Process : Leave(p) \/ CloseOutput(p)
    \/ \E p \in Process, code \in {"ok", "error"} : Exit(p, code)

-----------------------------------------------------------------------------
(* communicate                                                             *)

(* The pipes are at their end and the child can be reaped.                 *)
Ended == Leader \notin alive /\ holding = {}

(* Variant: proc.kill() in place of killpg.                                *)
KillLeader ==
    /\ alive' = alive \ {Leader}
    /\ away' = away
    /\ holding' = holding \ {Leader}

(* _kill_process_group; a leader nobody has reaped still has its group.    *)
KillProcessGroup ==
    /\ alive' = alive \cap away
    /\ away' = away
    /\ holding' = holding \cap away

(* TimeoutExpired.  The second communicate has no timeout.                 *)
Expire ==
    /\ phase = "waits"
    /\ ~Ended
    /\ KillProcessGroup
    /\ phase' = "drains"
    /\ status' = IF Leader \in alive THEN "killed" ELSE status

(* run() returns; a silent or departed process is left to itself.          *)
Return ==
    /\ phase \in {"waits", "drains"}
    /\ Ended
    /\ phase' = "none"
    /\ alive' = {} /\ away' = {} /\ holding' = {}
    /\ UNCHANGED status

TimedOut == phase = "drains"

(* A process that left the session has the output and outlives the kill.   *)
Stuck == phase = "drains" /\ holding \cap away # {}

ExecutorTypeOK ==
    /\ phase \in {"none", "waits", "drains"}
    /\ away \subseteq alive /\ holding \subseteq alive
    /\ alive \subseteq Process /\ Leader \notin away
    /\ status \in Code
=============================================================================
