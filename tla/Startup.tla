------------------------------- MODULE Startup -------------------------------
(***************************************************************************)
(* Master and workers coming up (common/db.py wait_for_db and              *)
(* run_migrations; the lifespan of master/api.py, start of worker/main.py).*)
(* Every one of them applies the migrations its image contains, so several *)
(* may do it at once.  A migration is a transaction of the script and of   *)
(* the INSERT of its name into schema_migrations, whose primary key makes  *)
(* the slower of two processes fail; an error ends the process, and the    *)
(* container is restarted.                                                 *)
(***************************************************************************)
EXTENDS Naturals

CONSTANTS
    Node,         \* master and worker processes
    Files,        \* migrations there are, numbered in filename order
    Knows,        \* per node: the last migration its image contains
    Attempts,     \* attempts of wait_for_db
    MaxCrashes,   \* bound: processes killed
    MaxOutages    \* bound: times PostgreSQL goes away

ASSUME StartupAssumption ==
    /\ Files \in Nat
    /\ Knows \in [Node -> 0..Files]
    /\ Attempts \in Nat \ {0}
    /\ {MaxCrashes, MaxOutages} \subseteq Nat

Migration == 1..Files

VARIABLES
    db,         \* PostgreSQL answers
    table,      \* schema_migrations exists
    recorded,   \* the names in it
    ran,        \* history: how often the script of a migration was committed
    pc,         \* per node: the await it is at
    tries,      \* per node: failed attempts of wait_for_db
    applied,    \* per node: the names it read before its loop
    file,       \* per node: the migration its loop has come to
    crashes, outages

schemaVars == <<table, recorded, ran>>
faultVars == <<crashes, outages>>
vars == <<db, schemaVars, pc, tries, applied, file, faultVars>>

NodePc == {"down", "connect", "create", "creating", "fetch", "loop", "script", "up"}

TypeOK ==
    /\ db \in BOOLEAN
    /\ table \in BOOLEAN
    /\ recorded \subseteq Migration
    /\ ran \in [Migration -> Nat]
    /\ pc \in [Node -> NodePc]
    /\ tries \in [Node -> 0..Attempts]
    /\ applied \in [Node -> SUBSET Migration]
    /\ file \in [Node -> 1..Files + 1]
    /\ crashes \in Nat
    /\ outages \in Nat

Init ==
    /\ db = FALSE
    /\ table = FALSE
    /\ recorded = {}
    /\ ran = [m \in Migration |-> 0]
    /\ pc = [p \in Node |-> "down"]
    /\ tries = [p \in Node |-> 0]
    /\ applied = [p \in Node |-> {}]
    /\ file = [p \in Node |-> 1]
    /\ crashes = 0
    /\ outages = 0

-----------------------------------------------------------------------------
Goto(p, at) == pc' = [pc EXCEPT ![p] = at]

(* The process is over, by an error or killed: its locals are gone and an  *)
(* open transaction is rolled back.                                        *)
Exit(p) ==
    /\ Goto(p, "down")
    /\ tries' = [tries EXCEPT ![p] = 0]
    /\ applied' = [applied EXCEPT ![p] = {}]
    /\ file' = [file EXCEPT ![p] = 1]

(* restart: unless-stopped.                                                *)
Start(p) ==
    /\ pc[p] = "down"
    /\ Goto(p, "connect")
    /\ UNCHANGED <<db, schemaVars, tries, applied, file, faultVars>>

Connect(p) ==
    /\ pc[p] = "connect"
    /\ tries[p] < Attempts
    /\ db
    /\ Goto(p, "create")
    /\ UNCHANGED <<db, schemaVars, tries, applied, file, faultVars>>

Wait(p) ==
    /\ pc[p] = "connect"
    /\ tries[p] < Attempts
    /\ ~db
    /\ tries' = [tries EXCEPT ![p] = @ + 1]
    /\ UNCHANGED <<db, schemaVars, pc, applied, file, faultVars>>

GiveUp(p) ==
    /\ pc[p] = "connect"
    /\ tries[p] = Attempts
    /\ Exit(p)
    /\ UNCHANGED <<db, schemaVars, faultVars>>

(* CREATE TABLE IF NOT EXISTS looks for the table and creates it later: of *)
(* two processes that both found none the second fails.                    *)
FindTable(p) ==
    /\ pc[p] = "create"
    /\ db
    /\ Goto(p, IF table THEN "fetch" ELSE "creating")
    /\ UNCHANGED <<db, schemaVars, tries, applied, file, faultVars>>

CreateTable(p) ==
    /\ pc[p] = "creating"
    /\ db
    /\ ~table
    /\ table' = TRUE
    /\ Goto(p, "fetch")
    /\ UNCHANGED <<db, recorded, ran, tries, applied, file, faultVars>>

CreateTooLate(p) ==
    /\ pc[p] = "creating"
    /\ db
    /\ table
    /\ Exit(p)
    /\ UNCHANGED <<db, schemaVars, faultVars>>

FetchApplied(p) ==
    /\ pc[p] = "fetch"
    /\ db
    /\ applied' = [applied EXCEPT ![p] = recorded]
    /\ Goto(p, "loop")
    /\ UNCHANGED <<db, schemaVars, tries, file, faultVars>>

Skip(p) ==
    /\ pc[p] = "loop"
    /\ file[p] <= Knows[p]
    /\ file[p] \in applied[p]
    /\ file' = [file EXCEPT ![p] = @ + 1]
    /\ UNCHANGED <<db, schemaVars, pc, tries, applied, faultVars>>

(* BEGIN and the script, not visible to others yet.                        *)
RunScript(p) ==
    /\ pc[p] = "loop"
    /\ file[p] <= Knows[p]
    /\ file[p] \notin applied[p]
    /\ db
    /\ Goto(p, "script")
    /\ UNCHANGED <<db, schemaVars, tries, applied, file, faultVars>>

(* Variant: the name is inserted ON CONFLICT DO NOTHING.                   *)
RecordAgain(p) ==
    /\ pc[p] = "script"
    /\ db
    /\ recorded' = recorded \cup {file[p]}
    /\ ran' = [ran EXCEPT ![file[p]] = @ + 1]
    /\ file' = [file EXCEPT ![p] = @ + 1]
    /\ Goto(p, "loop")
    /\ UNCHANGED <<db, table, tries, applied, faultVars>>

(* The INSERT of the name, and COMMIT.                                     *)
Record(p) ==
    /\ pc[p] = "script"
    /\ db
    /\ file[p] \notin recorded
    /\ recorded' = recorded \cup {file[p]}
    /\ ran' = [ran EXCEPT ![file[p]] = @ + 1]
    /\ file' = [file EXCEPT ![p] = @ + 1]
    /\ Goto(p, "loop")
    /\ UNCHANGED <<db, table, tries, applied, faultVars>>

(* Variant: the failed migration is tried again at once.                   *)
RivalRetrying(p) ==
    /\ pc[p] = "script"
    /\ db
    /\ file[p] \in recorded
    /\ Goto(p, "loop")
    /\ UNCHANGED <<db, schemaVars, tries, applied, file, faultVars>>

(* Somebody else applied it since: the INSERT fails, or the script on its  *)
(* locks before that.                                                      *)
Rival(p) ==
    /\ pc[p] = "script"
    /\ db
    /\ file[p] \in recorded
    /\ Exit(p)
    /\ UNCHANGED <<db, schemaVars, faultVars>>

(* Variant: the last migration is left out.                                *)
ReadyEarly(p) ==
    /\ pc[p] = "loop"
    /\ file[p] >= Knows[p]
    /\ Goto(p, "up")
    /\ UNCHANGED <<db, schemaVars, tries, applied, file, faultVars>>

Ready(p) ==
    /\ pc[p] = "loop"
    /\ file[p] > Knows[p]
    /\ Goto(p, "up")
    /\ UNCHANGED <<db, schemaVars, tries, applied, file, faultVars>>

(* The next thing it does is a statement.                                  *)
Querying(p) ==
    \/ pc[p] \in {"create", "creating", "fetch", "script"}
    \/ pc[p] = "loop" /\ file[p] <= Knows[p] /\ file[p] \notin applied[p]

(* Variant: a migration that fails is logged and the next one is tried.    *)
LoseDbGoingOn(p) ==
    /\ Querying(p)
    /\ ~db
    /\ \/ /\ pc[p] # "script"
          /\ Exit(p)
       \/ /\ pc[p] = "script"
          /\ Goto(p, "loop")
          /\ file' = [file EXCEPT ![p] = @ + 1]
          /\ UNCHANGED <<tries, applied>>
    /\ UNCHANGED <<db, schemaVars, faultVars>>

(* A statement raises.                                                     *)
LoseDb(p) ==
    /\ Querying(p)
    /\ ~db
    /\ Exit(p)
    /\ UNCHANGED <<db, schemaVars, faultVars>>

Boot(p) ==
    \/ Start(p) \/ Connect(p) \/ Wait(p) \/ GiveUp(p)
    \/ FindTable(p) \/ CreateTable(p) \/ CreateTooLate(p) \/ FetchApplied(p)
    \/ Skip(p) \/ RunScript(p) \/ Record(p) \/ Rival(p) \/ Ready(p)
    \/ LoseDb(p)

-----------------------------------------------------------------------------
Crash(p) ==
    /\ crashes < MaxCrashes
    /\ pc[p] # "down"
    /\ crashes' = crashes + 1
    /\ Exit(p)
    /\ UNCHANGED <<db, schemaVars, outages>>

DbUp ==
    /\ ~db
    /\ db' = TRUE
    /\ UNCHANGED <<schemaVars, pc, tries, applied, file, faultVars>>

Outage ==
    /\ db
    /\ outages < MaxOutages
    /\ outages' = outages + 1
    /\ db' = FALSE
    /\ UNCHANGED <<schemaVars, pc, tries, applied, file, crashes>>

Next ==
    \/ \E p \in Node : Boot(p) \/ Crash(p)
    \/ DbUp
    \/ Outage

Spec == Init /\ [][Next]_vars

(* Processes go on, containers are restarted and PostgreSQL comes back.    *)
FairSpec ==
    /\ Spec
    /\ \A p \in Node : WF_vars(Boot(p))
    /\ WF_vars(DbUp)

-----------------------------------------------------------------------------
(* A migration is never in effect before an earlier one, whoever applied   *)
(* which and whatever broke in between.                                    *)
AppliedInOrder == \A m \in recorded : 1..m \subseteq recorded

(* "exactly once (crash-safe)": a script took effect as often as its name  *)
(* is recorded, also when two processes ran it at the same time.           *)
RanOnce == \A m \in Migration : ran[m] = IF m \in recorded THEN 1 ELSE 0

(* A process serves requests or tasks only on the schema its code expects. *)
UpIsMigrated == \A p \in Node : pc[p] = "up" => 1..Knows[p] \subseteq recorded

(* However they compete, every process is up in the end and stays up.      *)
ComesUp == \A p \in Node : <>[](pc[p] = "up")
=============================================================================
