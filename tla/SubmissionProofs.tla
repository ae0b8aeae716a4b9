-------------------------- MODULE SubmissionProofs --------------------------
(***************************************************************************)
(* The cycle check is right in both directions, the plan keeps the order   *)
(* of the file and is what the theorems about ScanPipeline assume of it,   *)
(* for every set of workflow files, targets and scope tables.              *)
(***************************************************************************)
EXTENDS Submission, TLAPS

Done == {n \in Name : mark[n] = 2}

(* Among the members of any part of D one waits for no other.              *)
CanRun(D) ==
    \A S \in (SUBSET D) \ {{}} : \E n \in S : \A d \in S : ~DependsDirectly(n, d)

(* The frames are the nodes in the stack's colour, each once; a frame has  *)
(* its earlier dependencies done and waits for the node above it.          *)
Frames ==
    /\ \A k \in DOMAIN stack : stack[k].node \in Steps /\ mark[stack[k].node] = 1
    /\ \A k, l \in DOMAIN stack : stack[k].node = stack[l].node => k = l
    /\ \A n \in Name : mark[n] = 1 => \E k \in DOMAIN stack : stack[k].node = n
    /\ \A k \in DOMAIN stack : \A j \in DOMAIN Deps(stack[k].node) :
          j < stack[k].dep => Deps(stack[k].node)[j] \in Done
    /\ \A k \in 1..(Len(stack) - 1) :
          /\ stack[k].dep \in DOMAIN Deps(stack[k].node)
          /\ Deps(stack[k].node)[stack[k].dep] = stack[k + 1].node

Searched ==
    /\ Done \subseteq Steps
    /\ \A n \in Done, d \in Name : DependsDirectly(n, d) => d \in Done
    /\ CanRun(Done)
    /\ \A k \in 1..(root - 1) : file[k].name \in Done
    /\ verdict = "accepted" => Steps \subseteq Done

Fresh ==
    verdict = "unread" => stack = <<>> /\ root = 1 /\ \A n \in Name : mark[n] = 0

LoaderInv ==
    /\ LoaderTypeOK
    /\ verdict \notin {"unread", "malformed"} => WellFormed
    /\ Fresh
    /\ Frames
    /\ Searched
    /\ CyclicCannotRun

-----------------------------------------------------------------------------
(* The entries of a file are steps.                                        *)
LEMMA StepType ==
    ASSUME LoaderTypeOK
    PROVE  /\ Len(file) \in Nat /\ DOMAIN file = 1..Len(file)
           /\ \A k \in DOMAIN file : file[k] \in StepDef /\ file[k].name \in Steps
           /\ Steps \subseteq Name
<1>1. file \in Seq(StepDef)
  BY LoaderAssumption DEF LoaderTypeOK
<1>2. /\ Len(file) \in Nat /\ DOMAIN file = 1..Len(file)
      /\ \A k \in DOMAIN file : file[k] \in StepDef
  BY <1>1
<1>3. \A k \in DOMAIN file : file[k].name \in Name
  BY <1>2 DEF StepDef
<1>. QED  BY <1>2, <1>3 DEF Steps

(* A step's dependencies are a sequence of steps.                          *)
LEMMA DepsType ==
    ASSUME LoaderTypeOK, WellFormed, NEW n \in Steps
    PROVE  /\ Len(Deps(n)) \in Nat /\ DOMAIN Deps(n) = 1..Len(Deps(n))
           /\ \A k \in DOMAIN Deps(n) : Deps(n)[k] \in Steps
<1>1. PICK p \in DOMAIN file : p = CHOOSE q \in DOMAIN file : file[q].name = n
  BY DEF Steps
<1>2. Deps(n) = file[p].deps
  BY <1>1 DEF Deps
<1>3. file[p].deps \in Seq(Name)
  BY StepType DEF StepDef
<1>4. \A k \in DOMAIN file[p].deps : file[p].deps[k] \in Steps
  BY DEF WellFormed
<1>. QED  BY <1>2, <1>3, <1>4

(* What the search reads of the file stays.                                *)
LEMMA SameFile ==
    ASSUME file' = file
    PROVE  /\ Steps' = Steps
           /\ WellFormed' = WellFormed
           /\ \A n : Deps(n)' = Deps(n)
           /\ \A n, d : DependsDirectly(n, d)' = DependsDirectly(n, d)
BY DEF Steps, WellFormed, Deps, DependsDirectly

(* Before it is read nothing of a file is visited.                         *)
LEMMA LoaderInitInv == LoaderInit => LoaderInv
<1>. SUFFICES ASSUME LoaderInit PROVE LoaderInv
  OBVIOUS
<1>1. LoaderTypeOK
  BY LoaderAssumption DEF LoaderInit, LoaderTypeOK
<1>2. Done = {}
  BY DEF LoaderInit, Done
<1>3. Frames
  BY DEF LoaderInit, Frames
<1>4. Searched
  BY <1>2 DEF LoaderInit, Searched, CanRun
<1>. QED  BY <1>1, <1>3, <1>4 DEF LoaderInv, LoaderInit, Fresh, CyclicCannotRun

-----------------------------------------------------------------------------
(* A new frame on top of those there are, for the node the top waits for.  *)
LEMMA VisitStep ==
    ASSUME LoaderInv, verdict = "visiting", NEW n \in Steps, Visit(n),
           stack # <<>> => /\ Top.dep \in DOMAIN Deps(Top.node)
                           /\ Dep = n
    PROVE  LoaderInv'
<1>. USE SameFile DEF Visit
<1>1. LoaderTypeOK /\ WellFormed /\ n \in Name /\ stack \in Seq(Frame)
  BY StepType DEF LoaderInv, LoaderTypeOK
<1>2. /\ Len(stack') = Len(stack) + 1
      /\ \A k \in 1..Len(stack) : stack'[k] = stack[k]
      /\ stack'[Len(stack) + 1] = [node |-> n, dep |-> 1]
      /\ DOMAIN stack = 1..Len(stack) /\ DOMAIN stack' = 1..(Len(stack) + 1)
      /\ Len(stack) \in Nat
  BY <1>1
<1>3. /\ mark' \in [Name -> 0..2] /\ mark'[n] = 1
      /\ \A m \in Name : m # n => mark'[m] = mark[m]
  BY <1>1 DEF LoaderTypeOK
<1>4. LoaderTypeOK'
  <2>1. [node |-> n, dep |-> 1] \in Frame
    BY <1>1 DEF Frame
  <2>. QED  BY <2>1, <1>1, <1>3 DEF LoaderTypeOK
<1>5. Done' = Done
  BY <1>1, <1>3 DEF Done
<1>6. \A k \in DOMAIN stack : stack[k].node \in Name /\ stack[k].node # n
  BY <1>1, StepType DEF LoaderInv, Frames
<1>7. Frames'
  <2>1. \A k \in DOMAIN stack' : stack'[k].node \in Steps /\ mark'[stack'[k].node] = 1
    BY <1>2, <1>3, <1>6 DEF LoaderInv, Frames
  <2>2. \A k, l \in DOMAIN stack' : stack'[k].node = stack'[l].node => k = l
    BY <1>2, <1>6 DEF LoaderInv, Frames
  <2>3. \A m \in Name : mark'[m] = 1 => \E k \in DOMAIN stack' : stack'[k].node = m
    <3>. SUFFICES ASSUME NEW m \in Name, mark'[m] = 1
                  PROVE  \E k \in DOMAIN stack' : stack'[k].node = m
      OBVIOUS
    <3>1. CASE m = n
      BY <3>1, <1>2
    <3>2. CASE m # n
      <4>1. PICK k \in DOMAIN stack : stack[k].node = m
        BY <3>2, <1>3 DEF LoaderInv, Frames
      <4>. QED  BY <4>1, <1>2
    <3>. QED  BY <3>1, <3>2
  <2>4. \A k \in DOMAIN stack' : \A j \in DOMAIN Deps(stack'[k].node) :
           j < stack'[k].dep => Deps(stack'[k].node)[j] \in Done
    BY <1>1, <1>2, DepsType DEF LoaderInv, Frames
  <2>5. \A k \in 1..(Len(stack') - 1) :
           /\ stack'[k].dep \in DOMAIN Deps(stack'[k].node)
           /\ Deps(stack'[k].node)[stack'[k].dep] = stack'[k + 1].node
    <3>. SUFFICES ASSUME NEW k \in 1..Len(stack)
                  PROVE  /\ stack[k].dep \in DOMAIN Deps(stack[k].node)
                         /\ Deps(stack[k].node)[stack[k].dep] = stack'[k + 1].node
      BY <1>2
    <3>1. CASE k < Len(stack)
      BY <3>1, <1>2 DEF LoaderInv, Frames
    <3>2. CASE k = Len(stack)
      BY <3>2, <1>1, <1>2 DEF Top, Dep
    <3>. QED  BY <1>2, <3>1, <3>2
  <2>6. \A m : Deps(m)' = Deps(m)
    OBVIOUS
  <2>7. Steps' = Steps
    OBVIOUS
  <2>. QED  BY <2>1, <2>2, <2>3, <2>4, <2>5, <2>6, <2>7, <1>5 DEF Frames
<1>8. Searched'
  BY <1>5 DEF LoaderInv, Searched, CanRun
<1>. QED  BY <1>1, <1>4, <1>7, <1>8 DEF LoaderInv, Fresh, CyclicCannotRun

(* The top frame goes on to its next dependency.                           *)
LEMMA DepDoneStep ==
    ASSUME LoaderInv, DepDone
    PROVE  LoaderInv'
<1>. USE SameFile DEF DepDone, AtDep
<1>1. LoaderTypeOK /\ WellFormed /\ stack \in Seq(Frame)
  BY DEF LoaderInv, LoaderTypeOK
<1>2. /\ Len(stack) \in Nat \ {0} /\ Len(stack') = Len(stack)
      /\ DOMAIN stack = 1..Len(stack) /\ DOMAIN stack' = 1..Len(stack)
      /\ \A k \in 1..(Len(stack) - 1) : stack'[k] = stack[k]
      /\ stack'[Len(stack)] = [node |-> Top.node, dep |-> Top.dep + 1]
      /\ Top \in [node : Name, dep : Nat \ {0}] /\ stack' \in Seq(Frame)
  <2>1. Len(stack) \in Nat \ {0} /\ DOMAIN stack = 1..Len(stack)
    BY <1>1
  <2>2. Top \in Frame
    BY <1>1, <2>1 DEF Top
  <2>3. /\ Top \in [node : Name, dep : Nat \ {0}]
        /\ [Top EXCEPT !.dep = Top.dep + 1] = [node |-> Top.node, dep |-> Top.dep + 1]
    BY <2>2 DEF Frame
  <2>4. stack' = [stack EXCEPT ![Len(stack)] = [node |-> Top.node, dep |-> Top.dep + 1]]
    BY <2>1, <2>3 DEF Top
  <2>5. [node |-> Top.node, dep |-> Top.dep + 1] \in Frame
    BY <2>3 DEF Frame
  <2>6. stack' \in Seq(Frame) /\ Len(stack') = Len(stack)
    BY <1>1, <2>1, <2>4, <2>5
  <2>7. \A k \in 1..(Len(stack) - 1) : stack'[k] = stack[k]
    BY <2>1, <2>4
  <2>8. stack'[Len(stack)] = [node |-> Top.node, dep |-> Top.dep + 1]
    BY <2>1, <2>4
  <2>. QED  BY <2>1, <2>3, <2>6, <2>7, <2>8
<1>3. /\ \A k \in DOMAIN stack : stack'[k].node = stack[k].node
      /\ stack'[Len(stack)].dep = Top.dep + 1
  BY <1>2 DEF Top
<1>4. LoaderTypeOK'
  BY <1>1, <1>2 DEF LoaderTypeOK
<1>5. Done' = Done
  BY DEF Done
<1>6. Top.node \in Steps /\ Dep \in Done
  <2>1. Top.node \in Steps
    BY <1>2 DEF LoaderInv, Frames, Top
  <2>2. Top.dep \in DOMAIN Deps(Top.node)
    BY <2>1, <1>1, <1>2, DepsType
  <2>3. Dep \in Name
    BY <2>1, <2>2, <1>1, DepsType, StepType DEF Dep
  <2>. QED  BY <2>1, <2>3 DEF Done
<1>7. Frames'
  <2>1. \A k \in DOMAIN stack' : \A j \in DOMAIN Deps(stack'[k].node) :
           j < stack'[k].dep => Deps(stack'[k].node)[j] \in Done
    <3>. SUFFICES ASSUME NEW k \in DOMAIN stack, NEW j \in DOMAIN Deps(stack[k].node),
                         j < stack'[k].dep
                  PROVE  Deps(stack[k].node)[j] \in Done
      BY <1>2, <1>3
    <3>1. CASE k < Len(stack)
      BY <3>1, <1>2 DEF LoaderInv, Frames
    <3>2. CASE k = Len(stack)
      <4>1. j \in Nat /\ stack[k] = Top
        BY <3>2, <1>1, <1>6, DepsType DEF Top
      <4>2. CASE j = Top.dep
        BY <4>1, <4>2, <1>6 DEF Dep
      <4>3. CASE j < Top.dep
        BY <4>1, <4>3 DEF LoaderInv, Frames
      <4>. QED  BY <3>2, <4>1, <4>2, <4>3, <1>2, <1>3
    <3>. QED  BY <1>2, <3>1, <3>2
  <2>2. \A k \in 1..(Len(stack') - 1) :
           /\ stack'[k].dep \in DOMAIN Deps(stack'[k].node)
           /\ Deps(stack'[k].node)[stack'[k].dep] = stack'[k + 1].node
    BY <1>2, <1>3 DEF LoaderInv, Frames
  <2>. QED  BY <2>1, <2>2, <1>2, <1>3, <1>5 DEF LoaderInv, Frames
<1>8. Searched'
  BY <1>5 DEF LoaderInv, Searched, CanRun
<1>. QED  BY <1>1, <1>4, <1>7, <1>8 DEF LoaderInv, Fresh, CyclicCannotRun

-----------------------------------------------------------------------------
(* The checks before the search do not touch what it searches.             *)
LEMMA ValidateStep ==
    ASSUME LoaderInv, Validate
    PROVE  LoaderInv'
<1>. USE SameFile DEF Validate
<1>1. LoaderTypeOK'
  BY DEF LoaderInv, LoaderTypeOK, Judged
<1>2. Done' = Done
  BY DEF Done
<1>3. Frames'
  BY <1>2 DEF LoaderInv, Frames
<1>4. Searched'
  BY <1>2 DEF LoaderInv, Searched, CanRun
<1>5. (verdict' \notin {"unread", "malformed"} => WellFormed')
  BY DEF LoaderInv
<1>. QED  BY <1>1, <1>3, <1>4, <1>5 DEF LoaderInv, Fresh, CyclicCannotRun

(* The outer loop passes a root that is done.                              *)
LEMMA RootDoneStep ==
    ASSUME LoaderInv, RootDone
    PROVE  LoaderInv'
<1>. USE SameFile DEF RootDone, AtRoot
<1>1. root \in 1..Len(file) + 1 /\ Len(file) \in Nat
  BY StepType DEF LoaderInv, LoaderTypeOK
<1>2. LoaderTypeOK'
  BY <1>1 DEF LoaderInv, LoaderTypeOK
<1>3. Done' = Done
  BY DEF Done
<1>4. Frames'
  BY <1>3 DEF LoaderInv, Frames
<1>5. file[root].name \in Done
  BY <1>1, StepType DEF LoaderInv, Done
<1>6. Searched'
  <2>1. \A k \in 1..root : file[k].name \in Done
    BY <1>1, <1>5 DEF LoaderInv, Searched
  <2>2. \A k \in 1..(root' - 1) : file[k].name \in Done
    BY <1>1, <2>1
  <2>. QED  BY <2>2, <1>3 DEF LoaderInv, Searched, CanRun
<1>. QED  BY <1>2, <1>4, <1>6 DEF LoaderInv, Fresh, CyclicCannotRun

(* When the outer loop is through, every step is done.                     *)
LEMMA AcceptStep ==
    ASSUME LoaderInv, Accept
    PROVE  LoaderInv'
<1>. USE SameFile DEF Accept
<1>1. root = Len(file) + 1 /\ Len(file) \in Nat /\ DOMAIN file = 1..Len(file)
  BY StepType DEF LoaderInv, LoaderTypeOK
<1>2. LoaderTypeOK'
  BY DEF LoaderInv, LoaderTypeOK, Judged
<1>3. Done' = Done
  BY DEF Done
<1>4. Frames'
  BY <1>3 DEF LoaderInv, Frames
<1>5. Steps \subseteq Done
  BY <1>1 DEF LoaderInv, Searched, Steps
<1>6. Searched'
  BY <1>3, <1>5 DEF LoaderInv, Searched, CanRun
<1>. QED  BY <1>2, <1>4, <1>6 DEF LoaderInv, Fresh, CyclicCannotRun

(* The frames from the one for Dep upwards wait for each other.            *)
LEMMA CycleInStack ==
    ASSUME LoaderInv, AtDep, mark[Dep] = 1
    PROVE  \E S \in (SUBSET Steps) \ {{}} :
              \A n \in S : \E d \in S : DependsDirectly(n, d)
<1>1. LoaderTypeOK /\ WellFormed /\ stack \in Seq(Frame)
  BY DEF LoaderInv, LoaderTypeOK, AtDep
<1>2. Len(stack) \in Nat \ {0} /\ DOMAIN stack = 1..Len(stack)
  BY <1>1 DEF AtDep
<1>3. Top.node \in Steps /\ Top.dep \in DOMAIN Deps(Top.node) /\ Dep \in Name
  <2>1. Top.node \in Steps
    BY <1>2 DEF LoaderInv, Frames, Top
  <2>2. Top \in Frame
    BY <1>1, <1>2 DEF Top
  <2>3. Top.dep \in DOMAIN Deps(Top.node)
    BY <2>1, <2>2, <1>1, DepsType DEF Frame, AtDep
  <2>. QED  BY <2>1, <2>3, <1>1, DepsType, StepType DEF Dep
<1>4. PICK k \in 1..Len(stack) : stack[k].node = Dep
  BY <1>2, <1>3 DEF LoaderInv, Frames
<1>. DEFINE S == {stack[m].node : m \in k..Len(stack)}
<1>5. S \in (SUBSET Steps) \ {{}}
  <2>1. k \in k..Len(stack) /\ \A m \in k..Len(stack) : m \in DOMAIN stack
    BY <1>2
  <2>2. \A m \in k..Len(stack) : stack[m].node \in Steps
    BY <2>1 DEF LoaderInv, Frames
  <2>3. stack[k].node \in S
    BY <2>1
  <2>. QED  BY <2>2, <2>3
<1>6. ASSUME NEW m \in k..Len(stack)
      PROVE  \E d \in S : DependsDirectly(stack[m].node, d)
  <2>1. CASE m = Len(stack)
    <3>1. DependsDirectly(stack[m].node, Dep)
      BY <2>1, <1>3 DEF DependsDirectly, Top, Dep
    <3>2. Dep \in S
      BY <1>2, <1>4
    <3>. QED  BY <3>1, <3>2
  <2>2. CASE m # Len(stack)
    <3>1. m \in 1..(Len(stack) - 1) /\ m + 1 \in k..Len(stack)
      <4>1. \A L \in Nat : \A p \in 1..L : \A q \in p..L :
               q # L => q \in 1..(L - 1) /\ q + 1 \in p..L
        OBVIOUS
      <4>. HIDE DEF S
      <4>. QED  BY <4>1, <2>2, <1>2
    <3>2. DependsDirectly(stack[m].node, stack[m + 1].node)
      BY <3>1 DEF LoaderInv, Frames, DependsDirectly
    <3>3. stack[m + 1].node \in S
      BY <3>1
    <3>. QED  BY <3>2, <3>3
  <2>. QED  BY <2>1, <2>2
<1>7. \A n \in S : \E d \in S : DependsDirectly(n, d)
  BY <1>6
<1>. HIDE DEF S
<1>. QED  BY <1>5, <1>7

(* The file is turned away with the cycle in the stack.                    *)
LEMMA FindCycleStep ==
    ASSUME LoaderInv, FindCycle
    PROVE  LoaderInv'
<1>. USE SameFile DEF FindCycle, AtDep
<1>1. LoaderTypeOK /\ WellFormed
  BY DEF LoaderInv
<1>2. LoaderTypeOK'
  BY <1>1 DEF LoaderTypeOK, Judged
<1>3. Done' = Done
  BY DEF Done
<1>4. Frames'
  BY <1>3 DEF LoaderInv, Frames
<1>5. Searched'
  BY <1>3 DEF LoaderInv, Searched, CanRun
<1>6. CyclicCannotRun'
  BY CycleInStack DEF CyclicCannotRun
<1>. QED  BY <1>1, <1>2, <1>4, <1>5, <1>6 DEF LoaderInv, Fresh

(* The top frame is done: its node waits for nothing that is not.          *)
LEMMA FinishStep ==
    ASSUME LoaderInv, Finish
    PROVE  LoaderInv'
<1>1. LoaderTypeOK /\ WellFormed /\ stack \in Seq(Frame)
  BY DEF LoaderInv, LoaderTypeOK, Finish
<1>2. Len(stack) \in Nat \ {0} /\ DOMAIN stack = 1..Len(stack)
  BY <1>1 DEF Finish
<1>3. Top \in Frame /\ Top.node \in Steps /\ Top.node \in Name
  BY <1>1, <1>2, StepType DEF Top, LoaderInv, Frames
<1>4. /\ stack' \in Seq(Frame) /\ Len(stack') = Len(stack) - 1
      /\ DOMAIN stack' = 1..(Len(stack) - 1)
      /\ \A k \in 1..(Len(stack) - 1) : stack'[k] = stack[k]
  BY <1>1, <1>2 DEF Finish
<1>5. /\ mark' \in [Name -> 0..2] /\ mark'[Top.node] = 2
      /\ \A m \in Name : m # Top.node => mark'[m] = mark[m]
  BY <1>1, <1>3 DEF LoaderTypeOK, Finish
<1>6. LoaderTypeOK'
  BY <1>1, <1>4, <1>5 DEF LoaderTypeOK, Finish
<1>7. mark[Top.node] = 1 /\ Done' = Done \cup {Top.node} /\ Top.node \notin Done
  <2>1. mark[Top.node] = 1
    BY <1>2 DEF LoaderInv, Frames, Top
  <2>. QED  BY <2>1, <1>3, <1>5 DEF Done
<1>8. \A d \in Name : DependsDirectly(Top.node, d) => d \in Done
  <2>1. \A j \in DOMAIN Deps(Top.node) : j < Top.dep
    BY <1>1, <1>3, DepsType DEF Finish, Frame
  <2>2. \A j \in DOMAIN Deps(Top.node) : Deps(Top.node)[j] \in Done
    BY <2>1, <1>2 DEF LoaderInv, Frames, Top
  <2>. QED  BY <2>2 DEF DependsDirectly
<1>9. \A k \in 1..(Len(stack) - 1) : stack[k].node # Top.node
  BY <1>2 DEF LoaderInv, Frames, Top
<1>10. Frames'
  <2>1. \A k \in DOMAIN stack' : stack'[k].node \in Steps /\ mark'[stack'[k].node] = 1
    BY <1>1, <1>2, <1>4, <1>5, <1>9, StepType DEF LoaderInv, Frames
  <2>2. \A k, l \in DOMAIN stack' : stack'[k].node = stack'[l].node => k = l
    BY <1>2, <1>4 DEF LoaderInv, Frames
  <2>3. \A m \in Name : mark'[m] = 1 => \E k \in DOMAIN stack' : stack'[k].node = m
    <3>. SUFFICES ASSUME NEW m \in Name, mark'[m] = 1
                  PROVE  \E k \in DOMAIN stack' : stack'[k].node = m
      OBVIOUS
    <3>1. m # Top.node /\ mark[m] = 1
      BY <1>5
    <3>2. PICK k \in DOMAIN stack : stack[k].node = m
      BY <3>1 DEF LoaderInv, Frames
    <3>3. k \in 1..(Len(stack) - 1)
      BY <3>1, <3>2, <1>2 DEF Top
    <3>. QED  BY <3>2, <3>3, <1>4
  <2>4. \A k \in DOMAIN stack' : \A j \in DOMAIN Deps(stack'[k].node) :
           j < stack'[k].dep => Deps(stack'[k].node)[j] \in Done'
    BY <1>2, <1>4, <1>7 DEF LoaderInv, Frames
  <2>5. \A k \in 1..(Len(stack') - 1) :
           /\ stack'[k].dep \in DOMAIN Deps(stack'[k].node)
           /\ Deps(stack'[k].node)[stack'[k].dep] = stack'[k + 1].node
    BY <1>2, <1>4 DEF LoaderInv, Frames
  <2>6. Steps' = Steps /\ \A m : Deps(m)' = Deps(m)
    BY SameFile DEF Finish
  <2>. QED  BY <2>1, <2>2, <2>3, <2>4, <2>5, <2>6 DEF Frames
<1>11. CanRun(Done')
  <2>. SUFFICES ASSUME NEW S \in (SUBSET Done') \ {{}}
                PROVE  \E n \in S : \A d \in S : ~DependsDirectly(n, d)
    BY DEF CanRun
  <2>. DEFINE R == S \ {Top.node}
  <2>1. R \subseteq Done
    BY <1>7
  <2>2. CASE R = {}
    <3>1. S = {Top.node}
      BY <2>2
    <3>. QED  BY <3>1, <1>3, <1>7, <1>8
  <2>3. CASE R # {}
    <3>1. PICK n \in R : \A d \in R : ~DependsDirectly(n, d)
      BY <2>1, <2>3 DEF LoaderInv, Searched, CanRun
    <3>2. ~DependsDirectly(n, Top.node)
      BY <2>1, <1>3, <1>7 DEF LoaderInv, Searched
    <3>. QED  BY <3>1, <3>2
  <2>. QED  BY <2>2, <2>3
<1>12. Searched'
  <2>1. Steps' = Steps /\ \A n, d : DependsDirectly(n, d)' = DependsDirectly(n, d)
    BY SameFile DEF Finish
  <2>2. CanRun(Done)'
    BY <2>1, <1>11 DEF CanRun
  <2>3. Done' \subseteq Steps
    BY <1>3, <1>7 DEF LoaderInv, Searched
  <2>4. \A n \in Done', d \in Name : DependsDirectly(n, d) => d \in Done'
    BY <1>7, <1>8 DEF LoaderInv, Searched
  <2>5. \A k \in 1..(root - 1) : file[k].name \in Done'
    BY <1>7 DEF LoaderInv, Searched
  <2>. QED  BY <2>1, <2>2, <2>3, <2>4, <2>5 DEF Searched, Finish
<1>13. WellFormed'
  BY <1>1, SameFile DEF Finish
<1>. QED  BY <1>6, <1>10, <1>12, <1>13 DEF LoaderInv, Fresh, CyclicCannotRun, Finish

(* visit(name) of the outer loop.                                          *)
LEMMA VisitRootStep ==
    ASSUME LoaderInv, VisitRoot
    PROVE  LoaderInv'
<1>1. root \in DOMAIN file
  BY StepType DEF LoaderInv, LoaderTypeOK, VisitRoot, AtRoot
<1>2. file[root].name \in Steps
  BY <1>1, StepType DEF LoaderInv
<1>. QED  BY <1>2, VisitStep DEF VisitRoot, AtRoot

(* visit(dep) of a frame.                                                  *)
LEMMA VisitDepStep ==
    ASSUME LoaderInv, VisitDep
    PROVE  LoaderInv'
<1>1. LoaderTypeOK /\ WellFormed /\ stack \in Seq(Frame)
  BY DEF LoaderInv, LoaderTypeOK, VisitDep, AtDep
<1>2. Len(stack) \in Nat \ {0} /\ DOMAIN stack = 1..Len(stack)
  BY <1>1 DEF VisitDep, AtDep
<1>3. Top \in Frame /\ Top.node \in Steps
  BY <1>1, <1>2 DEF Top, LoaderInv, Frames
<1>4. Top.dep \in DOMAIN Deps(Top.node) /\ Dep \in Steps
  BY <1>1, <1>3, DepsType DEF Frame, VisitDep, AtDep, Dep
<1>. QED  BY <1>4, VisitStep DEF VisitDep, AtDep

(* Every step of the search, and those of the request that leave it alone. *)
LEMMA LoadStep ==
    ASSUME LoaderInv, Load \/ UNCHANGED loaderVars
    PROVE  LoaderInv'
<1>1. CASE Load
  BY <1>1, ValidateStep, VisitRootStep, RootDoneStep, AcceptStep, VisitDepStep,
     DepDoneStep, FindCycleStep, FinishStep DEF Load
<1>2. CASE UNCHANGED loaderVars
  <2>. USE <1>2, SameFile DEF loaderVars
  <2>1. LoaderTypeOK'
    BY DEF LoaderInv, LoaderTypeOK
  <2>2. Done' = Done
    BY DEF Done
  <2>3. Frames'
    BY <2>2 DEF LoaderInv, Frames
  <2>4. Searched'
    BY <2>2 DEF LoaderInv, Searched, CanRun
  <2>. QED  BY <2>1, <2>3, <2>4 DEF LoaderInv, Fresh, CyclicCannotRun
<1>. QED  BY <1>1, <1>2

-----------------------------------------------------------------------------
(* The request changes the search by its own steps only.                   *)
LEMMA LoaderStays == Next \/ UNCHANGED vars => Load \/ UNCHANGED loaderVars
BY DEF Next, Handle, DbError, FindProgram, RefuseProgram, LoadWorkflow, Loaded,
       RaiseInLoad, ReadScope, DecideTarget, RaiseInEvaluate, Decided, Audit,
       InsertScan, PlanStep, Planned, Goto, vars, loaderVars

(* The search keeps the frames and what is done of the graph in step with  *)
(* mark and stack, for every file.                                         *)
THEOREM LoaderIsSound == Spec => []LoaderInv
<1>1. Init => LoaderInv
  BY LoaderInitInv DEF Init
<1>2. LoaderInv /\ [Next]_vars => LoaderInv'
  BY LoaderStays, LoadStep
<1>. QED  BY <1>1, <1>2, PTL DEF Spec

(* AcceptedCanRun, for every workflow file: whatever part of an accepted   *)
(* workflow is left, some step of it waits for none of the others.         *)
THEOREM AcceptedIsSound == Spec => []AcceptedCanRun
<1>1. LoaderInv => AcceptedCanRun
  BY DEF LoaderInv, Searched, CanRun, AcceptedCanRun
<1>. QED  BY <1>1, LoaderIsSound, PTL

(* CyclicCannotRun, for every workflow file: a file is turned away for a   *)
(* cycle only if some of its steps do wait for each other.                 *)
THEOREM CyclicIsSound == Spec => []CyclicCannotRun
<1>1. LoaderInv => CyclicCannotRun
  BY DEF LoaderInv
<1>. QED  BY <1>1, LoaderIsSound, PTL

-----------------------------------------------------------------------------
(* The tasks of step k, as PlanIsExact counts them.                        *)
TasksFor(k) ==
    IF file[k].once THEN {[step |-> file[k].name, group |-> allowed]}
    ELSE {[step |-> file[k].name, group |-> <<h>>] : h \in InScope}

Before == {"program", "load", "scope", "decide", "audit", "insert"}

(* In the loops, what the turns taken so far contribute.                   *)
Allowed ==
    /\ at \in {"program", "load", "scope"} => index = 1 /\ allowed = <<>>
    /\ at = "decide" =>
          {allowed[j] : j \in DOMAIN allowed} =
              {h \in Host : /\ Evaluate(h)
                            /\ \E j \in DOMAIN request : j < index /\ h \in HostOf[request[j]]}
    /\ at \in {"audit", "insert", "plan", "planned"} =>
          {allowed[j] : j \in DOMAIN allowed} = InScope

Exact ==
    /\ at \in Before => planned = <<>>
    /\ at = "plan" =>
          {planned[j] : j \in DOMAIN planned} =
              UNION {TasksFor(k) : k \in {p \in DOMAIN file : p < index}}
    /\ at = "planned" =>
          {planned[j] : j \in DOMAIN planned} = UNION {TasksFor(k) : k \in DOMAIN file}

InOrder ==
    /\ at = "plan" =>
          \A j \in DOMAIN planned :
              \E p \in DOMAIN file : p < index /\ planned[j].step = file[p].name
    /\ at \in {"plan", "planned"} /\ FileInOrder =>
          \A j, k \in DOMAIN planned :
              DependsDirectly(planned[j].step, planned[k].step) => k < j

(* What one step of the workflow adds to the plan.                         *)
LEMMA TasksType ==
    ASSUME TypeOK, NEW k \in DOMAIN file
    PROVE  /\ TasksOfStep(file[k]) \in Seq(PlannedTask)
           /\ \A j \in DOMAIN TasksOfStep(file[k]) : TasksOfStep(file[k])[j].step = file[k].name
           /\ {allowed[j] : j \in DOMAIN allowed} = InScope =>
                 {TasksOfStep(file[k])[j] : j \in DOMAIN TasksOfStep(file[k])} = TasksFor(k)
<1>1. file[k].name \in Name
  BY StepType DEF TypeOK, StepDef
<1>2. allowed \in Seq(Host) /\ DOMAIN allowed = 1..Len(allowed) /\ Len(allowed) \in Nat
  BY DEF TypeOK
<1>3. CASE file[k].once
  <2>1. TasksOfStep(file[k]) = <<[step |-> file[k].name, group |-> allowed]>>
    BY <1>3 DEF TasksOfStep
  <2>2. [step |-> file[k].name, group |-> allowed] \in PlannedTask
    BY <1>1, <1>2 DEF PlannedTask
  <2>. QED  BY <2>1, <2>2, <1>3 DEF TasksFor
<1>4. CASE ~file[k].once
  <2>. DEFINE T == [j \in DOMAIN allowed |-> [step |-> file[k].name, group |-> <<allowed[j]>>]]
  <2>1. TasksOfStep(file[k]) = T
    BY <1>4 DEF TasksOfStep
  <2>2. \A j \in DOMAIN allowed : <<allowed[j]>> \in Seq(Host)
    BY <1>2
  <2>3. T \in [1..Len(allowed) -> PlannedTask]
    BY <1>1, <1>2, <2>2 DEF PlannedTask
  <2>4. T \in Seq(PlannedTask)
    BY <1>2, <2>3
  <2>5. \A j \in DOMAIN T : T[j].step = file[k].name
    OBVIOUS
  <2>6. ASSUME {allowed[j] : j \in DOMAIN allowed} = InScope
        PROVE  {T[j] : j \in DOMAIN T} = {[step |-> file[k].name, group |-> <<h>>] : h \in InScope}
    BY <2>6
  <2>. QED  BY <2>1, <2>4, <2>5, <2>6, <1>4 DEF TasksFor
<1>. QED  BY <1>3, <1>4

RequestInv == LoaderInv /\ TypeOK /\ Allowed /\ Exact /\ InOrder

(* What the scope decisions and the plan are about stays.                  *)
LEMMA SameScope ==
    ASSUME request' = request, entries' = entries
    PROVE  InScope' = InScope /\ \A h : Evaluate(h)' = Evaluate(h)
BY DEF InScope, Evaluate, Rows

(* A request starts with nothing gathered.                                 *)
LEMMA InitRequest == Init => RequestInv
BY LoaderInitInv DEF Init, RequestInv, LoaderInv, TypeOK, Allowed, Exact, InOrder

(* One target: the host it is allowed for, if any, joins those before it.  *)
LEMMA DecideStep ==
    ASSUME RequestInv, DecideTarget
    PROVE  TypeOK' /\ Allowed'
<1>. USE DEF DecideTarget, Goto
<1>1. /\ index \in DOMAIN request /\ Target \in Raw /\ index' = index + 1
      /\ index \in Nat /\ allowed \in Seq(Host)
  BY SubmissionAssumption DEF RequestInv, TypeOK, Target
<1>2. LoaderTypeOK'
  BY SameFile DEF RequestInv, LoaderInv, LoaderTypeOK, loaderVars
<1>3. /\ allowed' \in Seq(Host)
      /\ {allowed'[j] : j \in DOMAIN allowed'} =
            {allowed[j] : j \in DOMAIN allowed} \cup {h \in HostOf[Target] : Evaluate(h)}
  <2>1. PICK H \in {{}} \cup {{h} : h \in Host} : HostOf[Target] = H
    BY <1>1, SubmissionAssumption
  <2>2. CASE \A h \in HostOf[Target] : ~Evaluate(h)
    BY <2>2, <1>1
  <2>3. CASE \E h \in HostOf[Target] : Evaluate(h)
    <3>1. PICK h \in Host : /\ HostOf[Target] = {h} /\ Evaluate(h)
                            /\ allowed' = Append(allowed, h)
      BY <2>1, <2>3
    <3>2. {Append(allowed, h)[j] : j \in DOMAIN Append(allowed, h)} =
            {allowed[j] : j \in DOMAIN allowed} \cup {h}
      <4>1. /\ DOMAIN allowed = 1..Len(allowed) /\ Len(allowed) \in Nat
            /\ DOMAIN Append(allowed, h) = 1..(Len(allowed) + 1)
            /\ \A j \in 1..Len(allowed) : Append(allowed, h)[j] = allowed[j]
            /\ Append(allowed, h)[Len(allowed) + 1] = h
        BY <1>1, <3>1
      <4>2. \A j \in 1..(Len(allowed) + 1) : j \in 1..Len(allowed) \/ j = Len(allowed) + 1
        BY <4>1
      <4>. QED  BY <4>1, <4>2
    <3>3. {g \in HostOf[Target] : Evaluate(g)} = {h}
      BY <3>1
    <3>. QED  BY <1>1, <3>1, <3>2, <3>3
  <2>. QED  BY <2>2, <2>3
<1>4. TypeOK'
  BY <1>1, <1>2, <1>3 DEF RequestInv, TypeOK
<1>5. {h \in Host : /\ Evaluate(h)
                    /\ \E j \in DOMAIN request : j < index + 1 /\ h \in HostOf[request[j]]} =
        {h \in Host : /\ Evaluate(h)
                      /\ \E j \in DOMAIN request : j < index /\ h \in HostOf[request[j]]}
        \cup {h \in HostOf[Target] : Evaluate(h)}
  <2>1. HostOf[Target] \subseteq Host
    BY <1>1, SubmissionAssumption
  <2>2. \A j \in DOMAIN request : j < index + 1 <=> j < index \/ j = index
    BY <1>1 DEF RequestInv, TypeOK
  <2>. HIDE DEF DecideTarget, Goto
  <2>. QED  BY <1>1, <2>1, <2>2 DEF Target
<1>6. Allowed'
  <2>1. request' = request /\ entries' = entries /\ at' = "decide" /\ at = "decide"
    OBVIOUS
  <2>2. \A h : Evaluate(h)' = Evaluate(h)
    BY <2>1, SameScope
  <2>. HIDE DEF DecideTarget, Goto
  <2>. QED  BY <2>1, <2>2, <1>1, <1>3, <1>5 DEF RequestInv, Allowed
<1>. QED  BY <1>4, <1>6

(* One step of the workflow: its tasks join the plan at the end.           *)
LEMMA PlanStepStep ==
    ASSUME RequestInv, PlanStep
    PROVE  TypeOK' /\ Exact' /\ InOrder'
<1>. DEFINE T == TasksOfStep(file[index])
<1>1. /\ index \in DOMAIN file /\ index \in Nat \ {0} /\ planned \in Seq(PlannedTask)
      /\ at = "plan" /\ at' = "plan" /\ index' = index + 1 /\ planned' = planned \o T
      /\ UNCHANGED <<loaderVars, request, entries, allowed>>
      /\ DOMAIN file \subseteq Nat
  BY StepType DEF RequestInv, TypeOK, PlanStep, Goto
<1>2. /\ T \in Seq(PlannedTask) /\ \A j \in DOMAIN T : T[j].step = file[index].name
      /\ {T[j] : j \in DOMAIN T} = TasksFor(index)
  BY <1>1, TasksType DEF RequestInv, Allowed
<1>. HIDE DEF T
<1>3. /\ planned' \in Seq(PlannedTask)
      /\ Len(planned) \in Nat /\ DOMAIN planned = 1..Len(planned)
      /\ Len(T) \in Nat /\ DOMAIN T = 1..Len(T)
      /\ DOMAIN planned' = 1..(Len(planned) + Len(T))
      /\ \A j \in DOMAIN planned : planned'[j] = planned[j]
      /\ \A j \in DOMAIN T : planned'[Len(planned) + j] = T[j]
  BY <1>1, <1>2
<1>4. \A j \in DOMAIN planned' :
        \/ j \in DOMAIN planned /\ planned'[j] = planned[j]
        \/ /\ j > Len(planned) /\ j - Len(planned) \in DOMAIN T
           /\ planned'[j] = T[j - Len(planned)] /\ planned'[j].step = file[index].name
  <2>. SUFFICES ASSUME NEW j \in DOMAIN planned', j \notin DOMAIN planned
                PROVE  /\ j > Len(planned) /\ j - Len(planned) \in DOMAIN T
                       /\ planned'[j] = T[j - Len(planned)]
                       /\ planned'[j].step = file[index].name
    BY <1>3
  <2>1. j > Len(planned) /\ j - Len(planned) \in DOMAIN T /\ Len(planned) + (j - Len(planned)) = j
    BY <1>3
  <2>. QED  BY <2>1, <1>2, <1>3
<1>5. TypeOK'
  <2>1. LoaderTypeOK'
    BY <1>1, SameFile DEF RequestInv, LoaderInv, LoaderTypeOK, loaderVars
  <2>. QED  BY <1>1, <1>3, <2>1 DEF RequestInv, TypeOK
<1>6. file' = file /\ (\A k : TasksFor(k)' = TasksFor(k)) /\ FileInOrder' = FileInOrder
      /\ \A n, d : DependsDirectly(n, d)' = DependsDirectly(n, d)
  BY <1>1, SameFile, SameScope DEF loaderVars, TasksFor, FileInOrder
<1>7. Exact'
  <2>1. {planned'[j] : j \in DOMAIN planned'} =
          {planned[j] : j \in DOMAIN planned} \cup {T[j] : j \in DOMAIN T}
    <3>1. \A j \in DOMAIN T : Len(planned) + j \in DOMAIN planned'
      BY <1>3
    <3>2. \A j \in DOMAIN planned : j \in DOMAIN planned'
      BY <1>3
    <3>. QED  BY <3>1, <3>2, <1>3, <1>4
  <2>2. {p \in DOMAIN file : p < index + 1} = {p \in DOMAIN file : p < index} \cup {index}
    BY <1>1
  <2>3. UNION {TasksFor(k) : k \in {p \in DOMAIN file : p < index + 1}} =
          (UNION {TasksFor(k) : k \in {p \in DOMAIN file : p < index}}) \cup TasksFor(index)
    BY <2>2
  <2>4. {planned'[j] : j \in DOMAIN planned'} =
          UNION {TasksFor(k) : k \in {p \in DOMAIN file : p < index + 1}}
    BY <2>1, <2>3, <1>1, <1>2 DEF RequestInv, Exact
  <2>. QED  BY <2>4, <1>1, <1>6 DEF Exact, Before
<1>8. InOrder'
  <2>1. \A j \in DOMAIN planned' :
          \E p \in DOMAIN file : p < index + 1 /\ planned'[j].step = file[p].name
    <3>. SUFFICES ASSUME NEW j \in DOMAIN planned'
                  PROVE  \E p \in DOMAIN file : /\ p < index + 1
                                                /\ planned'[j].step = file[p].name
      OBVIOUS
    <3>1. CASE j \in DOMAIN planned
      <4>1. PICK p \in DOMAIN file : p < index /\ planned[j].step = file[p].name
        BY <3>1, <1>1 DEF RequestInv, InOrder
      <4>2. p < index + 1 /\ planned'[j] = planned[j]
        BY <4>1, <3>1, <1>1, <1>3
      <4>. QED  BY <4>1, <4>2
    <3>2. CASE j \notin DOMAIN planned
      <4>1. planned'[j].step = file[index].name
        BY <3>2, <1>4
      <4>2. index < index + 1
        BY <1>1
      <4>. QED  BY <4>1, <4>2, <1>1
    <3>. QED  BY <3>1, <3>2
  <2>2. ASSUME FileInOrder, NEW j \in DOMAIN planned', NEW k \in DOMAIN planned',
               DependsDirectly(planned'[j].step, planned'[k].step)
        PROVE  k < j
    <3>1. CASE j \in DOMAIN planned /\ k \in DOMAIN planned
      BY <2>2, <3>1, <1>1, <1>3 DEF RequestInv, InOrder
    <3>2. CASE j \notin DOMAIN planned /\ k \in DOMAIN planned
      BY <3>2, <1>3, <1>4
    <3>3. CASE k \notin DOMAIN planned
      <4>1. planned'[k].step = file[index].name
        BY <3>3, <1>4
      <4>2. PICK p \in DOMAIN file : p < index + 1 /\ planned'[j].step = file[p].name
        BY <2>1
      <4>3. index < p
        BY <2>2, <4>1, <4>2, <1>1 DEF FileInOrder
      <4>. QED  BY <4>2, <4>3, <1>1
    <3>. QED  BY <3>1, <3>2, <3>3
  <2>. QED  BY <2>1, <2>2, <1>1, <1>6 DEF InOrder
<1>. QED  BY <1>5, <1>7, <1>8

(* Every step of the request, with a step per action.                      *)
LEMMA RequestStep ==
    ASSUME RequestInv, [Next]_vars
    PROVE  RequestInv'
<1>1. LoaderInv'
  BY LoaderStays, LoadStep DEF RequestInv
<1>2. LoaderTypeOK'
  BY <1>1 DEF LoaderInv
<1>. USE DEF RequestInv
<1>3. CASE /\ UNCHANGED <<loaderVars, request, entries, index, allowed, planned>>
           /\ \/ at \in {"program", "load"} /\ at' \in {"load", "scope", "refused"}
              \/ at' = at \/ at' \in {"refused", "error"}
              \/ at = "audit" /\ at' = "insert"
  <2>. USE <1>3
  <2>1. InScope' = InScope /\ (\A h : Evaluate(h)' = Evaluate(h)) /\ FileInOrder' = FileInOrder
        /\ (\A n, d : DependsDirectly(n, d)' = DependsDirectly(n, d))
        /\ (\A k : TasksFor(k)' = TasksFor(k)) /\ file' = file
    BY SameScope, SameFile DEF FileInOrder, TasksFor, loaderVars
  <2>2. TypeOK'
    BY <1>2 DEF TypeOK, Ended
  <2>3. Allowed'
    BY <2>1 DEF Allowed
  <2>4. Exact'
    BY <2>1 DEF Exact, Before
  <2>5. InOrder'
    BY <2>1 DEF InOrder
  <2>. QED  BY <1>1, <2>2, <2>3, <2>4, <2>5
<1>4. CASE LoadWorkflow
  <2>1. TypeOK'
    BY <1>2, <1>4 DEF LoadWorkflow, requestVars, TypeOK
  <2>2. Allowed' /\ Exact' /\ InOrder'
    BY <1>4 DEF LoadWorkflow, requestVars, Allowed, Exact, Before, InOrder
  <2>. QED  BY <1>1, <2>1, <2>2
<1>5. CASE ReadScope
  <2>. USE <1>5 DEF ReadScope, Goto
  <2>1. TypeOK'
    BY <1>2, SubmissionAssumption DEF TypeOK
  <2>2. allowed' = <<>> /\ index' = 1 /\ at' = "decide" /\ request' = request
    BY DEF Allowed
  <2>3. \A j \in DOMAIN request : ~(j < 1)
    BY SubmissionAssumption DEF TypeOK
  <2>4. Allowed'
    BY <2>2, <2>3 DEF Allowed
  <2>. QED  BY <1>1, <2>1, <2>4 DEF Exact, Before, InOrder
<1>6. CASE DecideTarget
  BY <1>1, <1>6, DecideStep DEF DecideTarget, Goto, Exact, Before, InOrder
<1>7. CASE Decided
  <2>. USE <1>7 DEF Decided, Goto
  <2>1. TypeOK'
    BY <1>2 DEF TypeOK
  <2>2. \A j \in DOMAIN request : j < index
    BY SubmissionAssumption DEF TypeOK
  <2>3. Allowed'
    BY <2>2, SameScope DEF Allowed, InScope
  <2>. QED  BY <1>1, <2>1, <2>3 DEF Exact, Before, InOrder
<1>8. CASE InsertScan
  <2>. USE <1>8 DEF InsertScan, Goto
  <2>1. TypeOK'
    BY <1>2 DEF TypeOK
  <2>2. Allowed'
    BY SameScope DEF Allowed
  <2>3. planned' = <<>> /\ index' = 1 /\ DOMAIN file' \subseteq Nat \ {0}
    BY StepType DEF Exact, Before, TypeOK, loaderVars
  <2>4. Exact' /\ InOrder'
    BY <2>3 DEF Exact, Before, InOrder
  <2>. QED  BY <1>1, <2>1, <2>2, <2>4
<1>9. CASE PlanStep
  <2>1. Allowed'
    BY <1>9, SameScope DEF PlanStep, Goto, Allowed
  <2>. QED  BY <1>1, <1>9, <2>1, PlanStepStep
<1>10. CASE Planned
  <2>. USE <1>10 DEF Planned, Goto
  <2>1. TypeOK'
    BY <1>2 DEF TypeOK, Ended
  <2>2. Allowed'
    BY SameScope DEF Allowed
  <2>3. {p \in DOMAIN file : p < index} = DOMAIN file
    BY StepType DEF TypeOK
  <2>4. file' = file /\ (\A k : TasksFor(k)' = TasksFor(k)) /\ FileInOrder' = FileInOrder
        /\ \A n, d : DependsDirectly(n, d)' = DependsDirectly(n, d)
    BY SameFile, SameScope DEF loaderVars, TasksFor, FileInOrder
  <2>5. Exact' /\ InOrder'
    BY <2>3, <2>4 DEF Exact, Before, InOrder
  <2>. QED  BY <1>1, <2>1, <2>2, <2>5
<1>. QED
  BY <1>3, <1>4, <1>5, <1>6, <1>7, <1>8, <1>9, <1>10
  DEF Next, Handle, DbError, FindProgram, RefuseProgram, Loaded, RaiseInLoad,
      RaiseInEvaluate, Audit, Goto, vars, requestVars, TypeOK

(* What the loops of submit_scan have gathered is what their turns so far  *)
(* contribute.                                                             *)
THEOREM RequestIsSound == Spec => []RequestInv
BY InitRequest, RequestStep, PTL DEF Spec

(* TypeOK, for every set of workflow files, scope tables and targets.      *)
THEOREM SubmissionTypeCorrect == Spec => []TypeOK
<1>1. RequestInv => TypeOK
  BY DEF RequestInv
<1>. QED  BY <1>1, RequestIsSound, PTL

(* PlanIsExact, for every workflow, scope table and request: no target is  *)
(* dropped and none that policy denies reaches the plan.                   *)
THEOREM PlannedIsExact == Spec => []PlanIsExact
<1>1. RequestInv => PlanIsExact
  BY DEF RequestInv, Allowed, Exact, PlanIsExact, TasksFor
<1>. QED  BY <1>1, RequestIsSound, PTL

(* PlanInOrder, for every workflow written in the order of its steps'      *)
(* dependencies: insert_task finds a task's dependencies inserted.         *)
THEOREM PlanKeepsOrder == Spec => []PlanInOrder
<1>1. RequestInv => PlanInOrder
  BY DEF RequestInv, InOrder, PlanInOrder
<1>. QED  BY <1>1, RequestIsSound, PTL

-----------------------------------------------------------------------------
(* What submit_scan hands to the pipeline                                  *)

(* No two targets of the request are the same host.                        *)
DistinctTargets ==
    \A i, j \in DOMAIN request :
        HostOf[request[i]] \cap HostOf[request[j]] # {} => i = j

tasks == {planned[j] : j \in DOMAIN planned}
dependsOn == [n \in Steps |-> {Deps(n)[k] : k \in DOMAIN Deps(n)}]

(* With the rows of the plan for Task, its keys for StepOf and the file's  *)
(* depends_on for DependsOn, the hypotheses of ScanPipeline and of the     *)
(* theorems about it hold: TasksAssumption, the type of Plan, PlanIsWhole, *)
(* PlanInOrder if the file writes each step after those it depends on, and *)
(* PlanIsASet if no two targets are the same host.                         *)
PlanSuits ==
    at = "planned" =>
        /\ \A t \in tasks : t.step \in Steps
        /\ dependsOn \in [Steps -> SUBSET Steps]
        /\ planned \in Seq(tasks)
        /\ \A t \in tasks : \E i \in 1..Len(planned) : planned[i] = t
        /\ FileInOrder =>
               \A i \in 1..Len(planned) :
                   \A d \in {t \in tasks : t.step \in dependsOn[planned[i].step]} :
                       \E j \in 1..(i - 1) : planned[j] = d
        /\ DistinctTargets =>
               \A i, j \in 1..Len(planned) : planned[i] = planned[j] => i = j

(* An allowed host comes from a target looked at, a task from one host and *)
(* one step, so only a repeated host repeats a task.                       *)
Unrepeated ==
    /\ at \in {"scope", "decide", "audit", "insert", "plan", "planned"}
          => verdict = "accepted"
    /\ at = "decide" =>
          \A j \in DOMAIN allowed :
              \E i \in DOMAIN request : i < index /\ allowed[j] \in HostOf[request[i]]
    /\ DistinctTargets =>
          /\ \A j, k \in DOMAIN allowed : allowed[j] = allowed[k] => j = k
          /\ \A j, k \in DOMAIN planned : planned[j] = planned[k] => j = k

(* A target that is allowed adds its host, which no target before it had.  *)
LEMMA DecideOnce ==
    ASSUME RequestInv, Unrepeated, DecideTarget
    PROVE  Unrepeated'
<1>1. /\ at = "decide" /\ at' = "decide" /\ index' = index + 1 /\ request' = request
      /\ planned' = planned /\ verdict' = verdict
      /\ index \in DOMAIN request /\ index \in Nat /\ DOMAIN request \subseteq Nat
      /\ allowed \in Seq(Host) /\ verdict = "accepted" /\ planned = <<>>
  BY SubmissionAssumption
     DEF RequestInv, Unrepeated, TypeOK, DecideTarget, Goto, loaderVars, Exact, Before
<1>2. /\ Len(allowed) \in Nat /\ DOMAIN allowed = 1..Len(allowed)
      /\ \A j \in DOMAIN allowed :
            \E i \in DOMAIN request : i < index /\ allowed[j] \in HostOf[request[i]]
  BY <1>1 DEF Unrepeated
<1>3. DistinctTargets' = DistinctTargets
  BY <1>1 DEF DistinctTargets
<1>4. CASE allowed' = allowed
  <2>1. \A i \in DOMAIN request : i < index => i < index + 1
    BY <1>1
  <2>. QED  BY <1>1, <1>2, <1>3, <1>4, <2>1 DEF Unrepeated
<1>5. ASSUME NEW h \in HostOf[Target], allowed' = Append(allowed, h)
      PROVE  Unrepeated'
  <2>. DEFINE n == Len(allowed) + 1
  <2>0. Target \in Raw /\ h \in Host
    BY <1>1, SubmissionAssumption DEF RequestInv, TypeOK, Target
  <2>1. /\ DOMAIN allowed' = 1..n /\ n \in Nat
        /\ \A j \in DOMAIN allowed : allowed'[j] = allowed[j]
        /\ allowed'[n] = h
        /\ \A j \in 1..n : j \in DOMAIN allowed \/ j = n
    BY <1>1, <1>2, <1>5, <2>0
  <2>. HIDE DEF n
  <2>2. \A j \in DOMAIN allowed' :
          \E i \in DOMAIN request : i < index + 1 /\ allowed'[j] \in HostOf[request[i]]
    <3>1. h \in HostOf[request[index]] /\ index < index + 1
      BY <1>1, <1>5 DEF Target
    <3>2. \A i \in DOMAIN request : i < index => i < index + 1
      BY <1>1
    <3>. QED  BY <1>1, <1>2, <2>1, <3>1, <3>2
  <2>3. ASSUME DistinctTargets, NEW j \in DOMAIN allowed
        PROVE  allowed[j] # h
    <3>1. PICK i \in DOMAIN request : i < index /\ allowed[j] \in HostOf[request[i]]
      BY <1>2
    <3>2. i # index
      BY <1>1, <3>1
    <3>. QED  BY <1>1, <1>5, <2>3, <3>1, <3>2 DEF DistinctTargets, Target
  <2>4. DistinctTargets =>
          \A j, k \in DOMAIN allowed' : allowed'[j] = allowed'[k] => j = k
    BY <2>1, <2>3 DEF Unrepeated
  <2>. QED  BY <1>1, <1>3, <2>2, <2>4 DEF Unrepeated
<1>6. allowed' = allowed \/ \E h \in HostOf[Target] : allowed' = Append(allowed, h)
  BY DEF DecideTarget
<1>. QED  BY <1>4, <1>5, <1>6

(* A step's tasks differ from one another and, by its name, from those of  *)
(* the steps before it.                                                    *)
LEMMA PlanOnce ==
    ASSUME RequestInv, Unrepeated, PlanStep
    PROVE  Unrepeated'
<1>. DEFINE T == TasksOfStep(file[index])
<1>1. /\ index \in DOMAIN file /\ index \in Nat /\ planned \in Seq(PlannedTask)
      /\ at = "plan" /\ at' = "plan" /\ planned' = planned \o T
      /\ UNCHANGED <<loaderVars, request, entries, allowed>>
      /\ DOMAIN file \subseteq Nat /\ verdict = "accepted"
  BY StepType DEF RequestInv, TypeOK, PlanStep, Goto, Unrepeated
<1>2. T \in Seq(PlannedTask) /\ \A j \in DOMAIN T : T[j].step = file[index].name
  BY <1>1, TasksType DEF RequestInv
<1>3. \A i, j \in DOMAIN file : file[i].name = file[j].name => i = j
  BY <1>1 DEF RequestInv, LoaderInv, WellFormed
<1>4. DistinctTargets' = DistinctTargets /\ verdict' = verdict
  BY <1>1 DEF DistinctTargets, loaderVars
<1>5. ASSUME DistinctTargets
      PROVE  \A j, k \in DOMAIN T : T[j] = T[k] => j = k
  <2>1. \A j, k \in DOMAIN allowed : allowed[j] = allowed[k] => j = k
    BY <1>5 DEF Unrepeated
  <2>2. CASE file[index].once
    <3>1. T = <<[step |-> file[index].name, group |-> allowed]>>
      BY <2>2 DEF TasksOfStep
    <3>2. DOMAIN T = {1}
      BY <3>1
    <3>. QED  BY <3>2
  <2>3. CASE ~file[index].once
    <3>1. T = [j \in DOMAIN allowed |-> [step |-> file[index].name, group |-> <<allowed[j]>>]]
      BY <2>3 DEF TasksOfStep
    <3>2. ASSUME NEW j \in DOMAIN allowed, NEW k \in DOMAIN allowed, T[j] = T[k]
          PROVE  j = k
      <4>1. T[j].group = <<allowed[j]>> /\ T[k].group = <<allowed[k]>>
        BY <3>1
      <4>2. <<allowed[j]>> = <<allowed[k]>>
        BY <3>2, <4>1
      <4>3. allowed[j] = allowed[k]
        BY <4>2
      <4>. QED  BY <2>1, <4>3
    <3>. QED  BY <3>1, <3>2
  <2>. QED  BY <2>2, <2>3
<1>. HIDE DEF T
<1>6. /\ Len(planned) \in Nat /\ DOMAIN planned = 1..Len(planned)
      /\ Len(T) \in Nat /\ DOMAIN T = 1..Len(T)
      /\ DOMAIN planned' = 1..(Len(planned) + Len(T))
      /\ \A j \in DOMAIN planned : planned'[j] = planned[j]
      /\ \A j \in DOMAIN T : planned'[Len(planned) + j] = T[j]
  BY <1>1, <1>2
<1>7. ASSUME NEW j \in DOMAIN planned', j \notin DOMAIN planned
      PROVE  /\ j - Len(planned) \in DOMAIN T
             /\ planned'[j] = T[j - Len(planned)]
             /\ planned'[j].step = file[index].name
  <2>1. j - Len(planned) \in DOMAIN T /\ Len(planned) + (j - Len(planned)) = j
    BY <1>6, <1>7
  <2>. QED  BY <2>1, <1>2, <1>6
<1>8. ASSUME NEW j \in DOMAIN planned
      PROVE  planned'[j] = planned[j] /\ planned'[j].step # file[index].name
  <2>1. PICK p \in DOMAIN file : p < index /\ planned[j].step = file[p].name
    BY <1>1 DEF RequestInv, InOrder
  <2>2. p # index
    BY <1>1, <2>1
  <2>. QED  BY <1>1, <1>3, <1>6, <2>1, <2>2
<1>9. ASSUME DistinctTargets, NEW j \in DOMAIN planned', NEW k \in DOMAIN planned',
             planned'[j] = planned'[k]
      PROVE  j = k
  <2>1. CASE j \in DOMAIN planned /\ k \in DOMAIN planned
    BY <1>8, <1>9, <2>1 DEF Unrepeated
  <2>2. CASE j \notin DOMAIN planned /\ k \notin DOMAIN planned
    <3>1. j - Len(planned) = k - Len(planned)
      BY <1>5, <1>7, <1>9, <2>2
    <3>. QED  BY <1>6, <3>1
  <2>. QED  BY <1>7, <1>8, <1>9, <2>1, <2>2
<1>. QED  BY <1>1, <1>4, <1>9 DEF Unrepeated

LEMMA UnrepeatedStep ==
    ASSUME RequestInv, Unrepeated, [Next]_vars
    PROVE  Unrepeated'
<1>1. CASE DecideTarget
  BY <1>1, DecideOnce
<1>2. CASE PlanStep
  BY <1>2, PlanOnce
<1>3. CASE ReadScope
  BY <1>3 DEF ReadScope, Goto, loaderVars, RequestInv, Allowed, Unrepeated,
              DistinctTargets
<1>4. CASE /\ UNCHANGED <<request, allowed, planned>>
           /\ \/ verdict' = verdict \/ at \in {"program", "load"}
           /\ at' = "decide" => at = "decide" /\ index' = index
           /\ \/ at' \in {"program", "load", "refused", "error"}
              \/ verdict' = "accepted"
  BY <1>4 DEF Unrepeated, DistinctTargets
<1>5. CASE LoadWorkflow
  BY <1>4, <1>5 DEF LoadWorkflow, requestVars
<1>6. CASE UNCHANGED vars
  BY <1>6 DEF vars, requestVars, loaderVars, Unrepeated, DistinctTargets
<1>. QED
  BY <1>1, <1>2, <1>3, <1>4, <1>5, <1>6
  DEF Next, Handle, DbError, FindProgram, RefuseProgram, RaiseInLoad, Loaded,
      RaiseInEvaluate, Decided, Audit, InsertScan, Planned, Goto, loaderVars,
      Unrepeated, Judged

(* A plan is a fit constant for ScanPipeline, and which of the hypotheses  *)
(* of its theorems hold is decided by the file's order and by the targets  *)
(* (orchestrator.py:169-203, api.py:282-317).                              *)
THEOREM PlansSuitThePipeline == Spec => []PlanSuits
<1>1. Init => Unrepeated
  BY DEF Init, Unrepeated
<1>2. RequestInv /\ Unrepeated /\ [Next]_vars => Unrepeated'
  BY UnrepeatedStep
<1>3. RequestInv /\ Unrepeated => PlanSuits
  <2>. SUFFICES ASSUME RequestInv, Unrepeated, at = "planned" PROVE PlanSuits
    BY DEF PlanSuits
  <2>1. /\ planned \in Seq(PlannedTask) /\ LoaderTypeOK /\ WellFormed
        /\ DOMAIN planned = 1..Len(planned) /\ Len(planned) \in Nat
    BY DEF RequestInv, Unrepeated, LoaderInv, TypeOK
  <2>2. \A t \in tasks : t.step \in Steps
    <3>1. tasks = UNION {TasksFor(k) : k \in DOMAIN file}
      BY DEF RequestInv, Exact, tasks
    <3>2. \A k \in DOMAIN file : \A t \in TasksFor(k) : t.step = file[k].name
      BY DEF TasksFor
    <3>. QED  BY <3>1, <3>2 DEF Steps
  <2>3. dependsOn \in [Steps -> SUBSET Steps]
    BY <2>1, DepsType DEF dependsOn
  <2>4. planned \in Seq(tasks)
    <3>1. planned \in [1..Len(planned) -> tasks]
      BY <2>1 DEF tasks
    <3>. QED  BY <2>1, <3>1
  <2>5. \A t \in tasks : \E i \in 1..Len(planned) : planned[i] = t
    BY <2>1 DEF tasks
  <2>6. ASSUME FileInOrder, NEW i \in 1..Len(planned), NEW d \in tasks,
               d.step \in dependsOn[planned[i].step]
        PROVE  \E j \in 1..(i - 1) : planned[j] = d
    <3>1. PICK j \in DOMAIN planned : planned[j] = d
      BY DEF tasks
    <3>2. planned[i].step \in Steps
      BY <2>1, <2>2 DEF tasks
    <3>3. DependsDirectly(planned[i].step, planned[j].step)
      BY <2>6, <3>1, <3>2 DEF dependsOn, DependsDirectly
    <3>4. j < i
      BY <2>1, <2>6, <3>1, <3>3 DEF RequestInv, InOrder
    <3>. QED  BY <2>1, <3>1, <3>4
  <2>. QED  BY <2>1, <2>2, <2>3, <2>4, <2>5, <2>6 DEF PlanSuits, Unrepeated
<1>. QED  BY <1>1, <1>2, <1>3, RequestIsSound, PTL DEF Spec
=============================================================================
