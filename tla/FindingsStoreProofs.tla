------------------------- MODULE FindingsStoreProofs -------------------------
(***************************************************************************)
(* Proofs about FindingsStore, for any scans, entities and batches and any *)
(* number of failing transactions.                                         *)
(***************************************************************************)
EXTENDS FindingsStore, TLAPS

(* What an open transaction holds: it wrote only rows that it locked and   *)
(* nobody has committed, as known just those its SELECT found, which some  *)
(* scan had stored, and every entity it went past has a row now or will    *)
(* with its commit.                                                        *)
Tx(b) ==
    /\ at[b] # "insert" => wrote[b] = NoRows /\ next[b] = 0 /\ seen[b] = {}
    /\ \A f \in Fingerprint :
          wrote[b][f] # "none" => f \in Locked(b) /\ row[ScanOf[b]][f] = "none"
    /\ \A f \in Fingerprint : wrote[b][f] # "none" => wrote[b][f] = Fresh(b, f)
    /\ seen[b] \subseteq Stored
    /\ \A f \in Locked(b) : row[ScanOf[b]][f] # "none" \/ wrote[b][f] # "none"
    /\ at[b] = "insert" => Found[b] # <<>>

(* No two open transactions of a scan hold the same row.                   *)
Exclusive ==
    \A b, c \in Batch :
        b # c /\ ScanOf[b] = ScanOf[c] => Locked(b) \cap Locked(c) = {}

IInv == TypeOK /\ (\A b \in Batch : Tx(b)) /\ Exclusive /\ SomeoneSawItNew

-----------------------------------------------------------------------------
(* The empty table satisfies the invariant.                                *)
LEMMA InitIInv == Init => IInv
<1>. SUFFICES ASSUME Init PROVE IInv
  OBVIOUS
<1>0. \A b \in Batch : Len(Found[b]) \in Nat
  BY FindingsAssumption
<1>1. TypeOK
  BY <1>0 DEF Init, TypeOK, NoRows, Row
<1>2. Stored = {}
  BY DEF Init, Stored, NoRows
<1>3. \A b \in Batch : Locked(b) = {}
  BY DEF Init, Locked
<1>4. \A b \in Batch : Tx(b)
  BY <1>3 DEF Init, Tx, NoRows, Fresh
<1>. QED  BY <1>1, <1>2, <1>3, <1>4 DEF IInv, Exclusive, SomeoneSawItNew

(* A batch's fingerprints, and those it holds, are fingerprints.           *)
LEMMA LockedType ==
    ASSUME TypeOK, NEW b \in Batch
    PROVE  /\ Len(Found[b]) \in Nat
           /\ DOMAIN Found[b] = 1..Len(Found[b])
           /\ Elements(b) \subseteq Fingerprint
           /\ Locked(b) \subseteq Elements(b)
           /\ Unfinished(b) => Upcoming(b) \in Elements(b)
<1>1. Found[b] \in Seq(Fingerprint)
  BY FindingsAssumption
<1>2. /\ Len(Found[b]) \in Nat /\ DOMAIN Found[b] = 1..Len(Found[b])
      /\ \A i \in 1..Len(Found[b]) : Found[b][i] \in Fingerprint
  BY <1>1
<1>3. next[b] \in Nat /\ next[b] <= Len(Found[b])
  BY DEF TypeOK
<1>4. Elements(b) \subseteq Fingerprint
  BY <1>2 DEF Elements
<1>5. Locked(b) \subseteq Elements(b)
  BY <1>2, <1>3 DEF Locked, Elements
<1>6. Unfinished(b) => Upcoming(b) \in Elements(b)
  BY <1>2, <1>3 DEF Unfinished, Upcoming, Elements
<1>. QED  BY <1>2, <1>4, <1>5, <1>6

(* Ending a transaction without a commit: nobody relies on what it wrote.  *)
LEMMA ReturnStep ==
    ASSUME IInv, NEW b \in Batch, Return(b), UNCHANGED row, failures' \in Nat
    PROVE  IInv'
<1>1. TypeOK'
  BY FindingsAssumption, LockedType DEF IInv, TypeOK, Return, NoRows, Row
<1>2. Locked(b)' = {} /\ \A c \in Batch : c # b => Locked(c)' = Locked(c)
  BY DEF IInv, TypeOK, Return, Locked
<1>3. Stored' = Stored
  BY DEF Stored
<1>4. ASSUME NEW c \in Batch PROVE Tx(c)'
  <2>1. CASE c = b
    <3>1. /\ wrote'[b] = NoRows /\ seen'[b] = {} /\ next'[b] = 0
          /\ at'[b] = "returned"
      BY DEF IInv, TypeOK, Return
    <3>. QED  BY <2>1, <3>1, <1>2 DEF Tx, NoRows
  <2>2. CASE c # b
    <3>1. /\ wrote'[c] = wrote[c] /\ seen'[c] = seen[c] /\ at'[c] = at[c]
          /\ next'[c] = next[c] /\ row' = row
      BY <2>2 DEF IInv, TypeOK, Return
    <3>. QED  BY <2>2, <3>1, <1>2, <1>3 DEF IInv, Tx, Fresh
  <2>. QED  BY <2>1, <2>2
<1>5. Exclusive'
  BY <1>2 DEF IInv, Exclusive
<1>6. SomeoneSawItNew'
  BY <1>3 DEF IInv, SomeoneSawItNew
<1>. QED  BY <1>1, <1>4, <1>5, <1>6 DEF IInv

(* Starting: what the SELECT returns is stored.                            *)
LEMMA SelectStep ==
    ASSUME IInv, NEW b \in Batch, Select(b) \/ ReturnEmpty(b)
    PROVE  IInv'
<1>1. TypeOK'
  <2>1. Elements(b) \cap Stored \subseteq Fingerprint
    BY DEF Stored
  <2>2. seen' \in [Batch -> SUBSET Fingerprint]
    BY <2>1 DEF IInv, TypeOK, Select, ReturnEmpty
  <2>. QED  BY <2>2 DEF IInv, TypeOK, Select, ReturnEmpty
<1>2. wrote[b] = NoRows
  BY DEF IInv, Tx, Select, ReturnEmpty
<1>3. Locked(b)' = {} /\ \A c \in Batch : c # b => Locked(c)' = Locked(c)
  <2>1. next[b] = 0
    BY DEF IInv, Tx, Select, ReturnEmpty
  <2>2. 1..0 = {}
    OBVIOUS
  <2>. QED  BY <2>1, <2>2 DEF IInv, TypeOK, Select, ReturnEmpty, Locked
<1>4. Stored' = Stored
  BY DEF Stored, Select, ReturnEmpty
<1>5. ASSUME NEW c \in Batch PROVE Tx(c)'
  <2>1. CASE c = b
    <3>1. wrote'[b] = NoRows /\ seen'[b] \subseteq Stored /\ next'[b] = 0
      BY <1>2 DEF IInv, TypeOK, Tx, Select, ReturnEmpty
    <3>2. \/ at'[b] = "insert" /\ Found[b] # <<>>
          \/ at'[b] = "returned" /\ seen'[b] = {}
      BY DEF IInv, TypeOK, Tx, Select, ReturnEmpty
    <3>. QED  BY <2>1, <3>1, <3>2, <1>3, <1>4 DEF Tx, NoRows
  <2>2. CASE c # b
    <3>1. /\ wrote'[c] = wrote[c] /\ seen'[c] = seen[c] /\ at'[c] = at[c]
          /\ next'[c] = next[c] /\ row' = row
      BY <2>2 DEF IInv, TypeOK, Select, ReturnEmpty
    <3>. QED  BY <2>2, <3>1, <1>3, <1>4 DEF IInv, Tx, Fresh
  <2>. QED  BY <2>1, <2>2
<1>6. Exclusive'
  BY <1>3 DEF IInv, Exclusive
<1>7. SomeoneSawItNew'
  BY <1>4 DEF IInv, SomeoneSawItNew, Select, ReturnEmpty
<1>. QED  BY <1>1, <1>5, <1>6, <1>7 DEF IInv

(* Inserting one row: it is locked by nobody else, and written as known    *)
(* only if the SELECT had it.                                              *)
LEMMA InsertStep ==
    ASSUME IInv, NEW b \in Batch, Insert(b)
    PROVE  IInv'
<1>. DEFINE f == Upcoming(b)
<1>0. /\ f \in Fingerprint /\ at[b] = "insert" /\ row' = row
      /\ UNCHANGED <<row, at, seen>>
      /\ next[b] \in Nat /\ next[b] + 1 <= Len(Found[b]) /\ Len(Found[b]) \in Nat
      /\ next' = [next EXCEPT ![b] = next[b] + 1]
  BY LockedType DEF IInv, TypeOK, Insert, Unfinished
<1>1. /\ wrote'[b] \in [Fingerprint -> Row]
      /\ \A g \in Fingerprint : g # f => wrote'[b][g] = wrote[b][g]
      /\ row[ScanOf[b]][f] # "none" => wrote'[b][f] = wrote[b][f]
      /\ row[ScanOf[b]][f] = "none" => wrote'[b][f] = Fresh(b, f)
      /\ \A c \in Batch : c # b => wrote'[c] = wrote[c]
      /\ wrote' \in [Batch -> [Fingerprint -> Row]]
  <2>1. Fresh(b, f) \in Row
    BY DEF Fresh, Row
  <2>2. CASE row[ScanOf[b]][f] = "none"
    <3>1. wrote' = [wrote EXCEPT ![b][f] = Fresh(b, f)]
      BY <2>2 DEF Insert
    <3>. QED  BY <2>1, <2>2, <3>1, <1>0 DEF IInv, TypeOK
  <2>3. CASE row[ScanOf[b]][f] # "none"
    <3>1. wrote' = wrote
      BY <2>3 DEF Insert
    <3>. QED  BY <2>3, <3>1, <1>0 DEF IInv, TypeOK
  <2>. QED  BY <2>2, <2>3
<1>2. TypeOK'
  BY <1>0, <1>1 DEF IInv, TypeOK, Insert
<1>3. Locked(b)' = Locked(b) \cup {f}
  <2>1. next'[b] = next[b] + 1 /\ at'[b] = "insert"
    BY <1>0 DEF IInv, TypeOK
  <2>2. 1..next[b] + 1 = (1..next[b]) \cup {next[b] + 1}
    BY <1>0
  <2>3. Locked(b)' = {Found[b][i] : i \in 1..next[b] + 1}
    BY <2>1 DEF Locked
  <2>4. Locked(b) = {Found[b][i] : i \in 1..next[b]}
    BY <1>0 DEF Locked
  <2>5. f = Found[b][next[b] + 1]
    BY DEF Upcoming
  <2>. HIDE DEF f
  <2>. QED  BY <2>2, <2>3, <2>4, <2>5
<1>4. \A c \in Batch : c # b => Locked(c)' = Locked(c)
  BY <1>0 DEF IInv, TypeOK, Locked
<1>5. Stored' = Stored
  BY <1>0 DEF Stored
<1>6. ASSUME NEW c \in Batch PROVE Tx(c)'
  <2>1. CASE c # b
    <3>1. next'[c] = next[c]
      BY <1>0, <2>1 DEF IInv, TypeOK
    <3>. QED  BY <2>1, <3>1, <1>0, <1>1, <1>4, <1>5 DEF IInv, Tx, Fresh
  <2>2. CASE c = b
    <3>1. \A g \in Fingerprint :
             wrote'[b][g] # "none" => g \in Locked(b)' /\ row[ScanOf[b]][g] = "none"
      BY <1>0, <1>1, <1>3 DEF IInv, Tx
    <3>2. \A g \in Fingerprint : wrote'[b][g] # "none" => wrote'[b][g] = Fresh(b, g)
      <4>1. wrote[b][f] # "none" => wrote[b][f] = Fresh(b, f)
        BY <1>0 DEF IInv, Tx
      <4>. HIDE DEF f
      <4>. QED  BY <4>1, <1>1 DEF IInv, Tx
    <3>3. \A g \in Locked(b)' : row[ScanOf[b]][g] # "none" \/ wrote'[b][g] # "none"
      <4>1. Locked(b) \subseteq Fingerprint
        BY LockedType DEF IInv
      <4>2. row[ScanOf[b]][f] # "none" \/ wrote'[b][f] # "none"
        BY <1>1 DEF Fresh
      <4>3. \A g \in Locked(b) : row[ScanOf[b]][g] # "none" \/ wrote[b][g] # "none"
        BY DEF IInv, Tx
      <4>. HIDE DEF f
      <4>. QED  BY <4>1, <4>2, <4>3, <1>1, <1>3
    <3>. QED  BY <2>2, <3>1, <3>2, <3>3, <1>0, <1>5 DEF IInv, Tx, Fresh
  <2>. QED  BY <2>1, <2>2
<1>7. Exclusive'
  <2>1. \A c \in Batch : c # b /\ ScanOf[c] = ScanOf[b] => f \notin Locked(c)
    BY DEF Insert, WaitsFor
  <2>. HIDE DEF f
  <2>. SUFFICES ASSUME NEW c \in Batch, NEW d \in Batch, c # d,
                       ScanOf[c] = ScanOf[d]
                PROVE  Locked(c)' \cap Locked(d)' = {}
    BY DEF Exclusive
  <2>2. Locked(c) \cap Locked(d) = {}
    BY DEF IInv, Exclusive
  <2>3. CASE c # b /\ d # b
    BY <2>3, <2>2, <1>4
  <2>4. CASE c = b
    BY <2>4, <2>1, <2>2, <1>3, <1>4
  <2>5. CASE d = b
    BY <2>5, <2>1, <2>2, <1>3, <1>4
  <2>. QED  BY <2>3, <2>4, <2>5
<1>8. SomeoneSawItNew'
  BY <1>0, <1>5 DEF IInv, SomeoneSawItNew
<1>. QED  BY <1>2, <1>6, <1>7, <1>8 DEF IInv

(* What a commit does to the table: it fills rows that were missing, with  *)
(* what the transaction wrote, and every entity of the batch has one then. *)
LEMMA CommitEffect ==
    ASSUME IInv, NEW b \in Batch, Commit(b)
    PROVE  /\ row' \in [Scan -> [Fingerprint -> Row]]
           /\ \A s \in Scan : s # ScanOf[b] => row'[s] = row[s]
           /\ \A s \in Scan, f \in Fingerprint :
                 row[s][f] # "none" => row'[s][f] = row[s][f]
           /\ \A f \in Fingerprint :
                 row[ScanOf[b]][f] = "none" => row'[ScanOf[b]][f] = wrote[b][f]
           /\ \A f \in Fingerprint : wrote[b][f] # "none" => f \in Elements(b)
           /\ \A f \in Elements(b) : row'[ScanOf[b]][f] # "none"
<1>. DEFINE s == ScanOf[b]
<1>0. s \in Scan
  BY FindingsAssumption
<1>1. row'[s] = [f \in Fingerprint |->
                   IF wrote[b][f] # "none" THEN wrote[b][f] ELSE row[s][f]]
  BY <1>0 DEF Commit, Apply, IInv, TypeOK
<1>2. \A t \in Scan : t # s => row'[t] = row[t]
  BY <1>0 DEF Commit, Apply, IInv, TypeOK
<1>3. row' \in [Scan -> [Fingerprint -> Row]]
  <2>1. row'[s] \in [Fingerprint -> Row]
    BY <1>0, <1>1 DEF IInv, TypeOK
  <2>. QED  BY <1>0, <2>1 DEF Commit, Apply, IInv, TypeOK
<1>4. \A f \in Fingerprint : wrote[b][f] # "none" => row[s][f] = "none"
  BY DEF IInv, Tx
<1>5. \A f \in Fingerprint : wrote[b][f] # "none" => f \in Elements(b)
  BY LockedType DEF IInv, Tx
<1>6. Elements(b) = Locked(b) /\ Elements(b) \subseteq Fingerprint
  BY LockedType DEF IInv, Commit, Locked, Elements
<1>7. \A f \in Elements(b) : row'[s][f] # "none"
  BY <1>1, <1>6 DEF IInv, Tx
<1>8. \A f \in Fingerprint : row[s][f] # "none" => row'[s][f] = row[s][f]
  BY <1>1, <1>4
<1>9. \A f \in Fingerprint : row[s][f] = "none" => row'[s][f] = wrote[b][f]
  BY <1>1
<1>. QED  BY <1>2, <1>3, <1>5, <1>7, <1>8, <1>9

(* Committing: rows only appear, and an entity the program did not have    *)
(* appears as new.                                                         *)
LEMMA CommitStep ==
    ASSUME IInv, NEW b \in Batch, Commit(b)
    PROVE  IInv'
<1>0. Return(b) /\ failures' = failures
  BY DEF Commit
<1>1. TypeOK'
  BY <1>0, CommitEffect, FindingsAssumption, LockedType
     DEF IInv, TypeOK, Return, NoRows, Row
<1>2. Locked(b)' = {} /\ \A c \in Batch : c # b => Locked(c)' = Locked(c)
  BY <1>0 DEF IInv, TypeOK, Return, Locked
<1>3. Stored \subseteq Stored'
  BY CommitEffect DEF Stored
<1>4. ASSUME NEW c \in Batch PROVE Tx(c)'
  <2>1. CASE c = b
    <3>1. /\ wrote'[b] = NoRows /\ seen'[b] = {} /\ next'[b] = 0
          /\ at'[b] = "returned"
      BY <1>0 DEF IInv, TypeOK, Return
    <3>. QED  BY <2>1, <3>1, <1>2 DEF Tx, NoRows
  <2>2. CASE c # b
    <3>1. /\ wrote'[c] = wrote[c] /\ seen'[c] = seen[c] /\ at'[c] = at[c]
          /\ next'[c] = next[c]
      BY <1>0, <2>2 DEF IInv, TypeOK, Return
    <3>2. \A f \in Fingerprint :
             wrote[c][f] # "none" => row'[ScanOf[c]][f] = "none"
      <4>. SUFFICES ASSUME NEW f \in Fingerprint, wrote[c][f] # "none"
                    PROVE  row'[ScanOf[c]][f] = "none"
        OBVIOUS
      <4>1. f \in Locked(c) /\ row[ScanOf[c]][f] = "none"
        BY DEF IInv, Tx
      <4>2. CASE ScanOf[c] # ScanOf[b]
        BY <4>1, <4>2, CommitEffect, FindingsAssumption
      <4>3. CASE ScanOf[c] = ScanOf[b]
        <5>1. f \notin Locked(b)
          BY <4>1, <4>3, <2>2 DEF IInv, Exclusive
        <5>2. wrote[b][f] = "none"
          BY <5>1 DEF IInv, Tx
        <5>. QED  BY <4>1, <4>3, <5>2, CommitEffect
      <4>. QED  BY <4>2, <4>3
    <3>3. \A f \in Locked(c) : row'[ScanOf[c]][f] # "none" \/ wrote[c][f] # "none"
      <4>1. Locked(c) \subseteq Fingerprint /\ ScanOf[c] \in Scan
        BY LockedType, FindingsAssumption DEF IInv
      <4>2. \A f \in Locked(c) : row[ScanOf[c]][f] # "none" \/ wrote[c][f] # "none"
        BY DEF IInv, Tx
      <4>. QED  BY <4>1, <4>2, CommitEffect
    <3>. QED  BY <2>2, <3>1, <3>2, <3>3, <1>2, <1>3 DEF IInv, Tx, Fresh
  <2>. QED  BY <2>1, <2>2
<1>5. Exclusive'
  BY <1>2 DEF IInv, Exclusive
<1>6. SomeoneSawItNew'
  <2>. SUFFICES ASSUME NEW f \in Stored' PROVE \E s \in Scan : row'[s][f] = "new"
    BY DEF SomeoneSawItNew
  <2>0. f \in Fingerprint /\ ScanOf[b] \in Scan
    BY FindingsAssumption DEF Stored
  <2>1. CASE f \in Stored
    <3>1. PICK s \in Scan : row[s][f] = "new"
      BY <2>1 DEF IInv, SomeoneSawItNew
    <3>. QED  BY <3>1, <2>0, CommitEffect
  <2>2. CASE f \notin Stored
    <3>1. \A s \in Scan : row[s][f] = "none"
      BY <2>0, <2>2 DEF Stored
    <3>2. PICK s \in Scan : row'[s][f] # "none"
      BY DEF Stored
    <3>3. s = ScanOf[b]
      BY <3>1, <3>2, CommitEffect
    <3>4. row'[s][f] = wrote[b][f]
      BY <2>0, <3>1, <3>3, CommitEffect
    <3>5. wrote[b][f] # "old"
      BY <2>0, <2>2 DEF IInv, Tx, Fresh
    <3>6. wrote[b][f] \in Row
      BY <2>0 DEF IInv, TypeOK
    <3>. QED  BY <3>2, <3>4, <3>5, <3>6 DEF Row
  <2>. QED  BY <2>1, <2>2
<1>. QED  BY <1>1, <1>4, <1>5, <1>6 DEF IInv

-----------------------------------------------------------------------------
(* The invariant is inductive.                                             *)
LEMMA NextIInv == IInv /\ [Next]_vars => IInv'
<1>. SUFFICES ASSUME IInv, [Next]_vars PROVE IInv'
  OBVIOUS
<1>0. failures \in Nat
  BY DEF IInv, TypeOK
<1>1. ASSUME NEW b \in Batch, Record(b) \/ Fail(b) PROVE IInv'
  <2>1. CASE ReturnEmpty(b) \/ Select(b)
    BY <2>1, SelectStep
  <2>2. CASE Insert(b)
    BY <2>2, InsertStep
  <2>3. CASE Commit(b)
    BY <2>3, CommitStep
  <2>4. CASE Victim(b) \/ Fail(b)
    BY <2>4, <1>0, ReturnStep DEF Victim, Fail
  <2>. QED  BY <1>1, <2>1, <2>2, <2>3, <2>4 DEF Record
<1>2. CASE UNCHANGED vars
  <2>. USE <1>2 DEF vars
  <2>1. TypeOK'
    BY DEF IInv, TypeOK
  <2>2. Stored' = Stored /\ \A b \in Batch : Locked(b)' = Locked(b)
    BY DEF Stored, Locked
  <2>3. \A b \in Batch : Tx(b)'
    BY <2>2 DEF IInv, Tx, Fresh
  <2>4. Exclusive'
    BY <2>2 DEF IInv, Exclusive
  <2>5. SomeoneSawItNew'
    BY <2>2 DEF IInv, SomeoneSawItNew
  <2>. QED  BY <2>1, <2>3, <2>4, <2>5 DEF IInv
<1>. QED  BY <1>1, <1>2 DEF Next

(* Only a commit changes the table.                                        *)
LEMMA OnlyCommits ==
    ASSUME [Next]_vars, ~(\E b \in Batch : Commit(b))
    PROVE  row' = row
BY DEF Next, Record, Fail, ReturnEmpty, Select, Insert, Victim, vars

(* What record_findings does keeps the types.                              *)
THEOREM FindingsTypeCorrect == Spec => []TypeOK
<1>1. IInv => TypeOK
  BY DEF IInv
<1>. QED  BY <1>1, InitIInv, NextIInv, PTL DEF Spec

(* No entity of the program is in the table without a scan that found it   *)
(* new, however batches of different scans interleave.                     *)
THEOREM EntitiesAreReported == Spec => []SomeoneSawItNew
<1>1. IInv => SomeoneSawItNew
  BY DEF IInv
<1>. QED  BY <1>1, InitIInv, NextIInv, PTL DEF Spec

(* What a row says stays.                                                  *)
RowsStay ==
    [][\A s \in Scan, f \in Fingerprint :
          row[s][f] # "none" => row'[s][f] = row[s][f]]_vars

(* A committed row keeps its is_new, also when its batch is recorded again.*)
THEOREM CommittedRowsStay == Spec => RowsStay
<1>1. IInv /\ [Next]_vars =>
        [\A s \in Scan, f \in Fingerprint :
            row[s][f] # "none" => row'[s][f] = row[s][f]]_vars
  <2>. SUFFICES ASSUME IInv, [Next]_vars, NEW s \in Scan, NEW f \in Fingerprint,
                       row[s][f] # "none"
                PROVE  row'[s][f] = row[s][f]
    OBVIOUS
  <2>1. ASSUME NEW b \in Batch, Commit(b) PROVE row'[s][f] = row[s][f]
    BY <2>1, CommitEffect
  <2>. QED  BY <2>1, OnlyCommits
<1>. QED  BY <1>1, InitIInv, NextIInv, PTL DEF Spec, RowsStay

(* The types of a scan grow by a whole batch or not at all, which is what  *)
(* lets ScanPipeline record a batch in one step.                           *)
THEOREM BatchesAreAtomic == Spec => BatchIsAtomic
<1>1. IInv /\ [Next]_vars =>
        [\A s \in Scan : WholeBatch(s)]_vars
  <2>. SUFFICES ASSUME IInv, [Next]_vars, NEW s \in Scan
                PROVE  WholeBatch(s)
    OBVIOUS
  <2>1. row' = row => UNCHANGED Types(s)
    BY DEF Types
  <2>2. ASSUME NEW b \in Batch, Commit(b), ScanOf[b] # s PROVE UNCHANGED Types(s)
    <3>1. row'[s] = row[s]
      BY <2>2, CommitEffect
    <3>. QED  BY <3>1 DEF Types
  <2>3. ASSUME NEW b \in Batch, Commit(b), ScanOf[b] = s
        PROVE  Types(s)' = Types(s) \cup TypesIn(b)
    <3>1. Elements(b) \subseteq Fingerprint
      BY LockedType DEF IInv
    <3>2. \A f \in Fingerprint :
             row'[s][f] # "none" <=> row[s][f] # "none" \/ f \in Elements(b)
      BY <2>3, <3>1, CommitEffect
    <3>. QED  BY <3>1, <3>2 DEF Types, TypesIn
  <2>. QED  BY <2>1, <2>2, <2>3, OnlyCommits DEF WholeBatch
<1>. QED  BY <1>1, InitIInv, NextIInv, PTL DEF Spec, BatchIsAtomic

-----------------------------------------------------------------------------
(* FindingsTable                                                           *)

(* A commit is the one step in which the table records the batch.          *)
LEMMA CommitRecords ==
    ASSUME IInv, NEW b \in Batch, Commit(b)
    PROVE  Table!Record(b)
<1>. DEFINE Entry(f) == IF Table!Entered(b, f)
                        THEN IF f \in seen[b] THEN "old" ELSE "new"
                        ELSE row[ScanOf[b]][f]
<1>0. ScanOf[b] \in Scan /\ Elements(b) \subseteq Fingerprint
  BY LockedType, FindingsAssumption DEF IInv
<1>1. ASSUME NEW f \in Fingerprint PROVE row'[ScanOf[b]][f] = Entry(f)
  <2>1. CASE f \in Elements(b) /\ row[ScanOf[b]][f] = "none"
    <3>1. row'[ScanOf[b]][f] # "none" /\ row'[ScanOf[b]][f] = wrote[b][f]
      BY <2>1, CommitEffect
    <3>2. wrote[b][f] = Fresh(b, f)
      BY <3>1 DEF IInv, Tx
    <3>. QED  BY <2>1, <3>1, <3>2 DEF Fresh, Table!Entered
  <2>2. CASE f \notin Elements(b)
    <3>1. wrote[b][f] = "none"
      BY <2>2, CommitEffect
    <3>2. row'[ScanOf[b]][f] = row[ScanOf[b]][f]
      BY <1>0, <3>1, CommitEffect
    <3>. QED  BY <2>2, <3>2 DEF Table!Entered
  <2>3. CASE row[ScanOf[b]][f] # "none"
    <3>1. row'[ScanOf[b]][f] = row[ScanOf[b]][f]
      BY <1>0, <2>3, CommitEffect
    <3>. QED  BY <2>3, <3>1 DEF Table!Entered
  <2>. QED  BY <2>1, <2>2, <2>3
<1>2. row'[ScanOf[b]] = [f \in Fingerprint |-> Entry(f)]
  <2>1. row'[ScanOf[b]] \in [Fingerprint -> Row]
    BY <1>0, CommitEffect
  <2>. QED  BY <1>1, <2>1
<1>3. row' = [row EXCEPT ![ScanOf[b]] = row'[ScanOf[b]]]
  BY <1>0 DEF Commit, Apply, IInv, TypeOK
<1>4. at[b] = "insert" /\ Table!Return(b)
  BY DEF Commit, Return, Table!Return
<1>. QED  BY <1>2, <1>3, <1>4 DEF Table!Record

(* record_findings implements FindingsTable, whatever transactions of a    *)
(* program interleave, wait for one another, fail or are aborted           *)
(* (common/db.py:235-298).                                                 *)
THEOREM StoreImplementsTable == Spec => RecordsLikeTable
<1>1. Init => Table!Init
  BY DEF Init, Table!Init, NoRows
<1>2. IInv /\ [Next]_vars => [Table!Next]_<<row, at, seen>>
  <2>. SUFFICES ASSUME IInv, [Next]_vars PROVE [Table!Next]_<<row, at, seen>>
    OBVIOUS
  <2>1. ASSUME NEW b \in Batch PROVE Elements(b) = {} <=> Found[b] = <<>>
    <3>1. Found[b] \in Seq(Fingerprint)
      BY FindingsAssumption
    <3>2. DOMAIN Found[b] = 1..Len(Found[b]) /\ Len(Found[b]) \in Nat
      BY <3>1
    <3>3. Elements(b) = {} <=> Len(Found[b]) = 0
      <4>1. Len(Found[b]) # 0 => 1 \in DOMAIN Found[b]
        BY <3>2
      <4>2. Len(Found[b]) = 0 => DOMAIN Found[b] = {}
        BY <3>2
      <4>. QED  BY <4>1, <4>2, <3>2 DEF Elements
    <3>. QED  BY <3>1, <3>3
  <2>2. ASSUME NEW b \in Batch, ReturnEmpty(b) PROVE Table!Drop(b)
    <3>1. seen[b] = {}
      BY <2>2 DEF ReturnEmpty, IInv, Tx
    <3>. QED  BY <2>1, <2>2, <3>1 DEF ReturnEmpty, IInv, TypeOK, Table!Drop, Table!Return
  <2>3. ASSUME NEW b \in Batch, Select(b) PROVE Table!Look(b)
    BY <2>1, <2>3 DEF Select, Stored, Table!Look, Table!Stored
  <2>4. ASSUME NEW b \in Batch, Insert(b) PROVE UNCHANGED <<row, at, seen>>
    BY <2>4 DEF Insert
  <2>5. ASSUME NEW b \in Batch, Commit(b) PROVE Table!Record(b)
    BY <2>5, CommitRecords
  <2>6. ASSUME NEW b \in Batch, Victim(b) \/ Fail(b) PROVE Table!Drop(b)
    <3>1. at[b] = "insert" /\ Return(b) /\ row' = row
      BY <2>6 DEF Victim, Fail, InCycle, Unfinished
    <3>2. Elements(b) # {}
      BY <2>1, <3>1 DEF IInv, Tx
    <3>. QED  BY <3>1, <3>2 DEF Return, Table!Drop, Table!Return
  <2>. QED  BY <2>2, <2>3, <2>4, <2>5, <2>6 DEF Next, Record, vars, Table!Next
<1>. QED  BY <1>1, <1>2, InitIInv, NextIInv, PTL DEF Spec, RecordsLikeTable, Table!Spec
=============================================================================
