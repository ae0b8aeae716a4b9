------------------------------ MODULE TaskQueue ------------------------------
(***************************************************************************)
(* The Redis stream that carries task deliveries (common/redis_client.py). *)
(*                                                                         *)
(* A stream entry is numbered by its position, as XADD ids are; the group  *)
(* remembers the last entry it delivered and the set of entries delivered  *)
(* but not acknowledged (its pending entries list).  XACK drops an entry   *)
(* from that list only: the stream itself is append-only.  The operators   *)
(* below are the operations of class TaskQueue; the processes that call    *)
(* them are in ScanPipeline.                                               *)
(***************************************************************************)
EXTENDS Tasks, Naturals, Sequences

VARIABLES
    log,         \* every entry ever added, in stream order
    delivered,   \* the group's last-delivered id; later entries are unread
    pel          \* entries delivered and not acknowledged, whoever owns them

queueVars == <<log, delivered, pel>>

(* The payload fields the control flow reads: the task and the attempt.    *)
Message == [task : Task, attempt : Nat \ {0}]

QueueTypeOK ==
    /\ log \in Seq(Message)
    /\ delivered \in 0..Len(log)
    /\ pel \subseteq 1..delivered

QueueInit ==
    /\ log = <<>>
    /\ delivered = 0
    /\ pel = {}

(* enqueue: one XADD.                                                      *)
Enqueue(t, n) ==
    /\ log' = Append(log, [task |-> t, attempt |-> n])
    /\ UNCHANGED <<delivered, pel>>

(* consume with count=1: XREADGROUP ">" hands out the oldest unread entry  *)
(* and puts it on the pending list.                                        *)
Consume(e) ==
    /\ e = delivered + 1
    /\ e \in DOMAIN log
    /\ delivered' = e
    /\ pel' = pel \cup {e}
    /\ UNCHANGED log

(* ack: XACK by entry id.  Redis does not ask who owns the entry, and      *)
(* acknowledging an entry that is no longer pending is a no-op.            *)
Ack(e) ==
    /\ pel' = pel \ {e}
    /\ UNCHANGED <<log, delivered>>

(* Unread or pending: the entry can still lead to an execution.            *)
Outstanding(e) ==
    /\ e \in DOMAIN log
    /\ e > delivered \/ e \in pel

(* The tasks some message was ever added for.                              *)
Sent == {log[e].task : e \in DOMAIN log}
=============================================================================
