---------------------------- MODULE FindingsTable ----------------------------
(***************************************************************************)
(* What record_findings promises to those who read the findings of a       *)
(* program: each call looks its entities up once, then records the whole   *)
(* batch in a single step, or nothing.  A row that is there stays as it    *)
(* is; one that enters is new, unless the look found its entity.           *)
(***************************************************************************)
CONSTANTS Scan, Fingerprint, Batch,
          ScanOf,     \* the scan a batch is recorded for
          Entities    \* the fingerprints of a batch

VARIABLES
    row,     \* per scan and fingerprint none, or is_new
    at,      \* per batch: called, insert or returned
    known    \* per batch at "insert": what its look found

Init ==
    /\ row = [s \in Scan |-> [f \in Fingerprint |-> "none"]]
    /\ at = [b \in Batch |-> "called"]
    /\ known = [b \in Batch |-> {}]

Stored == {f \in Fingerprint : \E s \in Scan : row[s][f] # "none"}

Look(b) ==
    /\ at[b] = "called"
    /\ Entities[b] # {}
    /\ at' = [at EXCEPT ![b] = "insert"]
    /\ known' = [known EXCEPT ![b] = Entities[b] \cap Stored]
    /\ row' = row

Return(b) ==
    /\ at' = [at EXCEPT ![b] = "returned"]
    /\ known' = [known EXCEPT ![b] = {}]

Entered(b, f) ==
    /\ f \in Entities[b]
    /\ row[ScanOf[b]][f] = "none"

Record(b) ==
    /\ at[b] = "insert"
    /\ Return(b)
    /\ row' = [row EXCEPT ![ScanOf[b]] =
                 [f \in Fingerprint |->
                    IF Entered(b, f)
                    THEN IF f \in known[b] THEN "old" ELSE "new"
                    ELSE row[ScanOf[b]][f]]]

Drop(b) ==
    /\ at[b] = IF Entities[b] = {} THEN "called" ELSE "insert"
    /\ Return(b)
    /\ row' = row

Next == \E b \in Batch : Look(b) \/ Record(b) \/ Drop(b)

Spec == Init /\ [][Next]_<<row, at, known>>
=============================================================================
