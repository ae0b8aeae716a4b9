---------------------------- MODULE FindingsStore ----------------------------
(***************************************************************************)
(* The findings table of one program (common/db.py record_findings): the   *)
(* batches that handlers record for their scans, each in a transaction     *)
(* that first asks which fingerprints the program has, then inserts row by *)
(* row.  Statements of different transactions interleave; a transaction    *)
(* sees what others have committed, and the unique key (program,           *)
(* fingerprint, scan) makes it wait for one that wrote the same row.       *)
(*                                                                         *)
(* ScanPipeline!RecordFindings is what a scan's handlers see of all this;  *)
(* BatchIsAtomic says why it may be a single step there.                   *)
(***************************************************************************)
EXTENDS Naturals, Sequences, FiniteSets

CONSTANTS
    Scan,          \* scans of the program
    Fingerprint,   \* identities of entities
    FindingType,
    TypeOf,        \* the type is part of what is fingerprinted
    Batch,         \* calls of record_findings, redeliveries included
    ScanOf,        \* the scan a batch is recorded for
    Found,         \* per batch: its fingerprints in the order they are inserted
    MaxFailures    \* bound: transactions that fail

(* A batch has no fingerprint twice: findings without an identity are      *)
(* skipped and repeated ones collapsed before the inserts.                 *)
ASSUME FindingsAssumption ==
    /\ TypeOf \in [Fingerprint -> FindingType]
    /\ ScanOf \in [Batch -> Scan]
    /\ Found \in [Batch -> Seq(Fingerprint)]
    /\ \A b \in Batch : \A i, j \in DOMAIN Found[b] :
          Found[b][i] = Found[b][j] => i = j
    /\ MaxFailures \in Nat

VARIABLES
    row,        \* committed rows: per scan and fingerprint none, or is_new
    at,         \* per batch: where its call is
    seen,       \* per batch: seen_before
    wrote,      \* per batch: the rows of its open transaction
    next,       \* per batch: how many of Found are inserted
    failures

vars == <<row, at, seen, wrote, next, failures>>

Row == {"none", "new", "old"}
NoRows == [f \in Fingerprint |-> "none"]

TypeOK ==
    /\ row \in [Scan -> [Fingerprint -> Row]]
    /\ at \in [Batch -> {"called", "insert", "returned"}]
    /\ seen \in [Batch -> SUBSET Fingerprint]
    /\ wrote \in [Batch -> [Fingerprint -> Row]]
    /\ next \in [Batch -> Nat]
    /\ \A b \in Batch : next[b] <= Len(Found[b])
    /\ failures \in Nat

Init ==
    /\ row = [s \in Scan |-> NoRows]
    /\ at = [b \in Batch |-> "called"]
    /\ seen = [b \in Batch |-> {}]
    /\ wrote = [b \in Batch |-> NoRows]
    /\ next = [b \in Batch |-> 0]
    /\ failures = 0

-----------------------------------------------------------------------------
Elements(b) == {Found[b][i] : i \in DOMAIN Found[b]}
Stored == {f \in Fingerprint : \E s \in Scan : row[s][f] # "none"}

(* Nothing with an identity was found: no transaction.                     *)
ReturnEmpty(b) ==
    /\ at[b] = "called"
    /\ Found[b] = <<>>
    /\ at' = [at EXCEPT ![b] = "returned"]
    /\ UNCHANGED <<row, seen, wrote, next, failures>>

(* Variant: the fingerprints come from a set the workers share, which has  *)
(* those of open transactions too.                                         *)
SelectShared(b) ==
    /\ at[b] = "called"
    /\ Found[b] # <<>>
    /\ seen' = [seen EXCEPT ![b] =
                  Elements(b) \cap (Stored \cup
                      {f \in Fingerprint : \E c \in Batch : wrote[c][f] # "none"})]
    /\ at' = [at EXCEPT ![b] = "insert"]
    /\ UNCHANGED <<row, wrote, next, failures>>

(* SELECT fingerprint ... = ANY(batch).                                    *)
Select(b) ==
    /\ at[b] = "called"
    /\ Found[b] # <<>>
    /\ seen' = [seen EXCEPT ![b] = Elements(b) \cap Stored]
    /\ at' = [at EXCEPT ![b] = "insert"]
    /\ UNCHANGED <<row, wrote, next, failures>>

(* The rows a transaction inserted or updated, locked until it ends.       *)
Locked(b) ==
    IF at[b] = "insert" THEN {Found[b][i] : i \in 1..next[b]} ELSE {}

Unfinished(b) == at[b] = "insert" /\ next[b] < Len(Found[b])
Upcoming(b) == Found[b][next[b] + 1]

WaitsFor(b, c) ==
    /\ c # b
    /\ ScanOf[c] = ScanOf[b]
    /\ Unfinished(b)
    /\ Upcoming(b) \in Locked(c)

Fresh(b, f) ==
    IF f \in seen[b] THEN "old" ELSE "new"

(* Variant: an existing row gets is_new of this batch.                     *)
InsertOverwriting(b) ==
    /\ Unfinished(b)
    /\ \A c \in Batch : ~WaitsFor(b, c)
    /\ wrote' = [wrote EXCEPT ![b][Upcoming(b)] = Fresh(b, Upcoming(b))]
    /\ next' = [next EXCEPT ![b] = @ + 1]
    /\ UNCHANGED <<row, at, seen, failures>>

(* INSERT ... ON CONFLICT DO UPDATE SET last_seen: an existing row keeps   *)
(* its is_new.                                                             *)
Insert(b) ==
    /\ Unfinished(b)
    /\ \A c \in Batch : ~WaitsFor(b, c)
    /\ LET f == Upcoming(b)
       IN  wrote' = IF row[ScanOf[b]][f] = "none"
                    THEN [wrote EXCEPT ![b][f] = Fresh(b, f)] ELSE wrote
    /\ next' = [next EXCEPT ![b] = @ + 1]
    /\ UNCHANGED <<row, at, seen, failures>>

(* The call is over, and with it the transaction.                          *)
Return(b) ==
    /\ at' = [at EXCEPT ![b] = "returned"]
    /\ wrote' = [wrote EXCEPT ![b] = NoRows]
    /\ seen' = [seen EXCEPT ![b] = {}]
    /\ next' = [next EXCEPT ![b] = 0]

Apply(b) ==
    row' = [row EXCEPT ![ScanOf[b]] =
              [f \in Fingerprint |-> IF wrote[b][f] # "none" THEN wrote[b][f] ELSE @[f]]]

(* Variant: returns early, out of the transaction, when nothing was new.   *)
CommitIfNew(b) ==
    /\ at[b] = "insert"
    /\ next[b] = Len(Found[b])
    /\ wrote[b] # NoRows
    /\ Apply(b)
    /\ Return(b)
    /\ UNCHANGED failures

Commit(b) ==
    /\ at[b] = "insert"
    /\ next[b] = Len(Found[b])
    /\ Apply(b)
    /\ Return(b)
    /\ UNCHANGED failures

(* PostgreSQL aborts a transaction it finds in a cycle of waiting ones.    *)
InCycle(b) ==
    \E C \in SUBSET {c \in Batch : Unfinished(c)} :
        /\ b \in C
        /\ \A x \in C : \E y \in C : WaitsFor(x, y)
        /\ \A y \in C : \E x \in C : WaitsFor(x, y)

(* The exception is logged, the task goes on without its findings.         *)
Victim(b) ==
    /\ InCycle(b)
    /\ Return(b)
    /\ UNCHANGED <<row, failures>>

(* Variant: the rows inserted so far stay.                                 *)
FailKeeping(b) ==
    /\ at[b] = "insert"
    /\ failures < MaxFailures
    /\ failures' = failures + 1
    /\ Apply(b)
    /\ Return(b)

(* A statement raises (a value the column refuses, the connection), or the *)
(* worker dies: the transaction is rolled back.                            *)
Fail(b) ==
    /\ at[b] = "insert"
    /\ failures < MaxFailures
    /\ failures' = failures + 1
    /\ Return(b)
    /\ UNCHANGED row

Record(b) == ReturnEmpty(b) \/ Select(b) \/ Insert(b) \/ Commit(b) \/ Victim(b)

Next == \E b \in Batch : Record(b) \/ Fail(b)

Spec == Init /\ [][Next]_vars

(* A statement that need not wait is executed, and deadlocks are detected. *)
FairSpec == Spec /\ \A b \in Batch : WF_vars(Record(b))

-----------------------------------------------------------------------------
(* Every entity the program has was reported as new by some scan: no       *)
(* interleaving, rollback or redelivery makes one enter the table as known.*)
SomeoneSawItNew ==
    \A f \in Stored : \E s \in Scan : row[s][f] = "new"

Table == INSTANCE FindingsTable
         WITH known <- seen, Entities <- [b \in Batch |-> Elements(b)]

(* Interleaved and rolled back, waiting and aborted, the transactions do   *)
(* what FindingsTable does in single steps: a batch enters whole or not at *)
(* all, is_new tells what its SELECT found, and a batch recorded again     *)
(* after a redelivery does not turn its own findings into known ones.      *)
RecordsLikeTable == Table!Spec

Types(s) == {TypeOf[f] : f \in {g \in Fingerprint : row[s][g] # "none"}}
TypesIn(b) == {TypeOf[f] : f \in Elements(b)}

WholeBatch(s) ==
    \/ UNCHANGED Types(s)
    \/ \E b \in Batch : ScanOf[b] = s /\ Types(s)' = Types(s) \cup TypesIn(b)

(* The types of a scan, which open its routing gates, grow by a whole      *)
(* batch or not at all, and never shrink.                                  *)
BatchIsAtomic == [][\A s \in Scan : WholeBatch(s)]_vars

(* record_findings always returns to the handler that called it.           *)
EveryBatchReturns == \A b \in Batch : <>(at[b] = "returned")
=============================================================================
