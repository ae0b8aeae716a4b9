---------------------------- MODULE StartupProofs ----------------------------
(***************************************************************************)
(* Proofs about Startup, for any number of processes and migrations, any   *)
(* mix of images, and any number of crashes and outages.                   *)
(***************************************************************************)
EXTENDS Startup, TLAPS

(* What a process may rely on in its loop: the migrations before the one   *)
(* it has come to are in effect, although the names it read are old.       *)
LoopKnows(p) ==
    /\ applied[p] \subseteq recorded
    /\ pc[p] \in {"loop", "script", "up"} =>
          \A m \in Migration : m < file[p] => m \in recorded
    /\ pc[p] \notin {"loop", "script", "up"} => file[p] = 1
    /\ pc[p] = "script" => file[p] <= Knows[p]
    /\ pc[p] = "up" => file[p] > Knows[p]

IInv ==
    /\ TypeOK
    /\ \A p \in Node : LoopKnows(p)
    /\ AppliedInOrder
    /\ RanOnce

(* The empty database satisfies the invariant.                             *)
LEMMA InitIInv == Init => IInv
<1>. SUFFICES ASSUME Init PROVE IInv
  OBVIOUS
<1>0. Files \in Nat /\ Attempts \in Nat /\ 1 \in 1..Files + 1 /\ 0 \in 0..Attempts
  BY StartupAssumption
<1>1. TypeOK
  BY <1>0 DEF Init, TypeOK, NodePc
<1>2. \A p \in Node : LoopKnows(p)
  BY DEF Init, LoopKnows
<1>3. AppliedInOrder /\ RanOnce
  BY DEF Init, AppliedInOrder, RanOnce
<1>. QED  BY <1>1, <1>2, <1>3 DEF IInv

(* Where a process is among the files, and how far its image goes.         *)
LEMMA FileBounds ==
    ASSUME TypeOK, NEW p \in Node
    PROVE  /\ file[p] \in Nat /\ 1 <= file[p] /\ file[p] <= Files + 1
           /\ Knows[p] \in Nat /\ Knows[p] <= Files
           /\ Files \in Nat
<1>1. file[p] \in 1..Files + 1 /\ Knows[p] \in 0..Files /\ Files \in Nat
  BY StartupAssumption DEF TypeOK
<1>. QED  BY <1>1

(* What an exit leaves: a process that relies on nothing.                  *)
LEMMA ExitStep ==
    ASSUME IInv, NEW p \in Node, Exit(p), UNCHANGED <<db, schemaVars>>,
           crashes' \in Nat, outages' \in Nat
    PROVE  IInv'
<1>1. TypeOK'
  BY StartupAssumption DEF IInv, TypeOK, NodePc, Exit, Goto, schemaVars, Migration
<1>2. \A q \in Node : LoopKnows(q)'
  <2>. SUFFICES ASSUME NEW q \in Node PROVE LoopKnows(q)'
    OBVIOUS
  <2>1. CASE q = p
    BY <2>1 DEF IInv, TypeOK, LoopKnows, Exit, Goto, schemaVars
  <2>2. CASE q # p
    BY <2>2 DEF IInv, TypeOK, LoopKnows, Exit, Goto, schemaVars, Migration
  <2>. QED  BY <2>1, <2>2
<1>3. AppliedInOrder' /\ RanOnce'
  BY DEF IInv, AppliedInOrder, RanOnce, schemaVars, Migration
<1>. QED  BY <1>1, <1>2, <1>3 DEF IInv

(* Applying a migration: it comes right after those in effect, and nobody  *)
(* recorded it before.                                                     *)
LEMMA RecordStep ==
    ASSUME IInv, NEW p \in Node, Record(p)
    PROVE  IInv'
<1>. USE DEF faultVars
<1>0. file[p] \in Migration /\ file[p] + 1 \in 1..Files + 1
  BY FileBounds DEF IInv, LoopKnows, Record, Migration
<1>1. TypeOK'
  <2>1. recorded' \subseteq Migration
    BY <1>0 DEF IInv, TypeOK, Record
  <2>2. ran' \in [Migration -> Nat]
    BY <1>0 DEF IInv, TypeOK, Record
  <2>3. pc' \in [Node -> NodePc] /\ file' \in [Node -> 1..Files + 1]
    BY <1>0 DEF IInv, TypeOK, NodePc, Record, Goto
  <2>. QED  BY <2>1, <2>2, <2>3 DEF IInv, TypeOK, Record
<1>2. \A q \in Node : LoopKnows(q)'
  <2>. SUFFICES ASSUME NEW q \in Node PROVE LoopKnows(q)'
    OBVIOUS
  <2>1. CASE q = p
    BY <2>1, <1>0 DEF IInv, TypeOK, LoopKnows, Record, Goto, Migration
  <2>2. CASE q # p
    BY <2>2 DEF IInv, TypeOK, LoopKnows, Record, Goto, Migration
  <2>. QED  BY <2>1, <2>2
<1>3. AppliedInOrder'
  <2>. SUFFICES ASSUME NEW m \in recorded', NEW k \in 1..m
                PROVE  k \in recorded'
    BY DEF AppliedInOrder
  <2>1. CASE m \in recorded
    BY <2>1 DEF IInv, AppliedInOrder, Record
  <2>2. CASE m = file[p]
    <3>1. k \in Migration /\ (k < file[p] \/ k = file[p])
      BY <2>2, <1>0, StartupAssumption DEF Migration
    <3>2. k < file[p] => k \in recorded
      BY <3>1 DEF IInv, LoopKnows, Record
    <3>. QED  BY <3>1, <3>2 DEF Record
  <2>. QED  BY <2>1, <2>2 DEF Record
<1>4. RanOnce'
  <2>. SUFFICES ASSUME NEW m \in Migration
                PROVE  ran'[m] = IF m \in recorded' THEN 1 ELSE 0
    BY DEF RanOnce, Migration
  <2>1. CASE m = file[p]
    BY <2>1, <1>0 DEF IInv, TypeOK, RanOnce, Record
  <2>2. CASE m # file[p]
    BY <2>2, <1>0 DEF IInv, TypeOK, RanOnce, Record
  <2>. QED  BY <2>1, <2>2
<1>. QED  BY <1>1, <1>2, <1>3, <1>4 DEF IInv

(* The steps that change neither the schema nor what is recorded in it.    *)
LEMMA QuietStep ==
    ASSUME IInv, NEW p \in Node,
           \/ Start(p) \/ Connect(p) \/ Wait(p) \/ FindTable(p)
           \/ CreateTable(p) \/ FetchApplied(p) \/ Skip(p) \/ RunScript(p)
           \/ Ready(p)
    PROVE  IInv'
<1>. DEFINE quiet == /\ UNCHANGED <<recorded, ran, faultVars, db>>
                     /\ table' \in BOOLEAN
<1>. USE StartupAssumption DEF faultVars, schemaVars, Goto
<1>1. quiet
  BY DEF IInv, TypeOK, Start, Connect, Wait, FindTable, CreateTable,
         FetchApplied, Skip, RunScript, Ready
<1>2. TypeOK'
  <2>1. CASE Start(p) \/ Connect(p) \/ FindTable(p) \/ CreateTable(p)
                \/ RunScript(p) \/ Ready(p)
    BY <2>1, <1>1 DEF IInv, TypeOK, NodePc, Start, Connect, FindTable,
                      CreateTable, RunScript, Ready, Migration
  <2>2. CASE Wait(p)
    BY <2>2, <1>1 DEF IInv, TypeOK, NodePc, Wait, Migration
  <2>3. CASE FetchApplied(p)
    BY <2>3, <1>1 DEF IInv, TypeOK, NodePc, FetchApplied, Migration
  <2>4. CASE Skip(p)
    <3>1. file[p] + 1 \in 1..Files + 1
      BY <2>4, FileBounds DEF IInv, Skip
    <3>. QED  BY <2>4, <1>1, <3>1 DEF IInv, TypeOK, Skip
  <2>. QED  BY <2>1, <2>2, <2>3, <2>4
<1>3. \A q \in Node : LoopKnows(q)'
  <2>. SUFFICES ASSUME NEW q \in Node PROVE LoopKnows(q)'
    OBVIOUS
  <2>1. CASE q # p
    BY <2>1, <1>1 DEF IInv, TypeOK, LoopKnows, Start, Connect, Wait, FindTable,
          CreateTable, FetchApplied, Skip, RunScript, Ready, Migration
  <2>2. CASE q = p /\ (Start(p) \/ Connect(p) \/ Wait(p) \/ FindTable(p)
                          \/ CreateTable(p))
    BY <2>2, <1>1 DEF IInv, TypeOK, LoopKnows, Start, Connect, Wait, FindTable,
          CreateTable
  <2>3. CASE q = p /\ FetchApplied(p)
    <3>1. applied'[p] = recorded /\ pc'[p] = "loop" /\ file'[p] = file[p]
      BY <2>3 DEF IInv, TypeOK, FetchApplied
    <3>2. file[p] = 1
      BY <2>3 DEF IInv, LoopKnows, FetchApplied
    <3>3. \A m \in Migration : ~(m < 1)
      BY StartupAssumption DEF Migration
    <3>. QED  BY <2>3, <1>1, <3>1, <3>2, <3>3 DEF LoopKnows
  <2>4. CASE q = p /\ Skip(p)
    BY <2>4, <1>1 DEF IInv, TypeOK, LoopKnows, Skip, Migration
  <2>5. CASE q = p /\ (RunScript(p) \/ Ready(p))
    BY <2>5, <1>1 DEF IInv, TypeOK, LoopKnows, RunScript, Ready, Migration
  <2>. QED  BY <2>1, <2>2, <2>3, <2>4, <2>5
<1>4. AppliedInOrder' /\ RanOnce'
  BY <1>1 DEF IInv, AppliedInOrder, RanOnce, Migration
<1>. QED  BY <1>2, <1>3, <1>4 DEF IInv

(* PostgreSQL comes and goes without touching what it stores.              *)
LEMMA DbStep ==
    ASSUME IInv, DbUp \/ Outage
    PROVE  IInv'
<1>. USE DEF DbUp, Outage, schemaVars, faultVars
<1>1. TypeOK'
  <2>1. db' \in BOOLEAN
    OBVIOUS
  <2>2. crashes' \in Nat /\ outages' \in Nat
    BY DEF IInv, TypeOK
  <2>. QED  BY <2>1, <2>2 DEF IInv, TypeOK, Migration
<1>2. \A p \in Node : LoopKnows(p)'
  BY DEF IInv, LoopKnows
<1>3. AppliedInOrder' /\ RanOnce'
  BY DEF IInv, AppliedInOrder, RanOnce
<1>. QED  BY <1>1, <1>2, <1>3 DEF IInv

(* The invariant is inductive.                                             *)
LEMMA NextIInv == IInv /\ [Next]_vars => IInv'
<1>. SUFFICES ASSUME IInv, [Next]_vars PROVE IInv'
  OBVIOUS
<1>0. crashes \in Nat /\ outages \in Nat
  BY DEF IInv, TypeOK
<1>1. ASSUME NEW p \in Node, Boot(p) PROVE IInv'
  <2>1. CASE GiveUp(p) \/ CreateTooLate(p) \/ Rival(p) \/ LoseDb(p)
    <3>1. Exit(p) /\ UNCHANGED <<db, schemaVars, faultVars>>
      BY <2>1 DEF GiveUp, CreateTooLate, Rival, LoseDb
    <3>. QED  BY <3>1, <1>0, ExitStep DEF faultVars
  <2>2. CASE Record(p)
    BY <2>2, RecordStep
  <2>3. CASE \/ Start(p) \/ Connect(p) \/ Wait(p) \/ FindTable(p)
             \/ CreateTable(p) \/ FetchApplied(p) \/ Skip(p) \/ RunScript(p)
             \/ Ready(p)
    BY <2>3, QuietStep
  <2>. QED  BY <1>1, <2>1, <2>2, <2>3 DEF Boot
<1>2. ASSUME NEW p \in Node, Crash(p) PROVE IInv'
  BY <1>2, <1>0, ExitStep DEF Crash
<1>3. CASE DbUp \/ Outage
  BY <1>3, DbStep
<1>4. CASE UNCHANGED vars
  BY <1>4 DEF vars, schemaVars, faultVars, IInv, TypeOK, LoopKnows,
              AppliedInOrder, RanOnce, Migration
<1>. QED  BY <1>1, <1>2, <1>3, <1>4 DEF Next

(* What the processes do keeps the types.                                  *)
THEOREM StartupTypeCorrect == Spec => []TypeOK
<1>1. IInv => TypeOK
  BY DEF IInv
<1>. QED  BY <1>1, InitIInv, NextIInv, PTL DEF Spec

(* Migrations take effect in filename order, whichever process applies     *)
(* them and whatever list of applied names it still believes in.           *)
THEOREM MigrationsInOrder == Spec => []AppliedInOrder
<1>1. IInv => AppliedInOrder
  BY DEF IInv
<1>. QED  BY <1>1, InitIInv, NextIInv, PTL DEF Spec

(* Every script takes effect once, and its name is recorded with it.       *)
THEOREM MigrationsOnce == Spec => []RanOnce
<1>1. IInv => RanOnce
  BY DEF IInv
<1>. QED  BY <1>1, InitIInv, NextIInv, PTL DEF Spec

(* A process that is up finds the schema of its image.                     *)
THEOREM UpMeansMigrated == Spec => []UpIsMigrated
<1>1. IInv => UpIsMigrated
  <2>. SUFFICES ASSUME IInv, NEW p \in Node, pc[p] = "up", NEW m \in 1..Knows[p]
                PROVE  m \in recorded
    BY DEF UpIsMigrated
  <2>1. m \in Migration /\ m < file[p]
    BY StartupAssumption DEF IInv, TypeOK, LoopKnows, Migration
  <2>. QED  BY <2>1 DEF IInv, LoopKnows
<1>. QED  BY <1>1, InitIInv, NextIInv, PTL DEF Spec
=============================================================================
