--------------------------- MODULE WorkflowLoader ---------------------------
(***************************************************************************)
(* load_workflow (master/orchestrator.py): the checks of a workflow file   *)
(* and the depth-first search of _assert_acyclic, call by call, with the   *)
(* recursion's stack as a variable.                                        *)
(***************************************************************************)
EXTENDS Naturals, Sequences

CONSTANTS
    Name,     \* step names
    File      \* workflow files: the steps in the order they are written

(* A step: whether it passes the checks of its own fields (tool, fanout,   *)
(* params, when), and what the later code reads.                           *)
StepDef == [name : Name, legal : BOOLEAN, deps : Seq(Name), once : BOOLEAN]

ASSUME LoaderAssumption == File \subseteq Seq(StepDef)

VARIABLES
    file,      \* the steps of the workflow asked for
    verdict,   \* how far it was judged
    root,      \* the step the outer loop visits
    mark,      \* state[]: 0 unvisited, 1 in the stack, 2 done
    stack      \* visit's calls: the node, and which of its deps is visited

loaderVars == <<file, verdict, root, mark, stack>>

(* A call of visit.                                                        *)
Frame == [node : Name, dep : Nat \ {0}]

Judged == {"malformed", "cyclic", "accepted"}

LoaderTypeOK ==
    /\ file \in File
    /\ verdict \in {"unread", "visiting"} \cup Judged
    /\ root \in 1..Len(file) + 1
    /\ mark \in [Name -> 0..2]
    /\ stack \in Seq(Frame)

LoaderInit ==
    /\ file \in File
    /\ verdict = "unread"
    /\ root = 1
    /\ mark = [n \in Name |-> 0]
    /\ stack = <<>>

-----------------------------------------------------------------------------
Steps == {file[i].name : i \in DOMAIN file}
Deps(n) == file[CHOOSE i \in DOMAIN file : file[i].name = n].deps
DependsDirectly(n, d) == \E k \in DOMAIN Deps(n) : Deps(n)[k] = d

WellFormed ==
    /\ file # <<>>
    /\ \A i \in DOMAIN file : file[i].legal
    /\ \A i, j \in DOMAIN file : file[i].name = file[j].name => i = j
    /\ \A i \in DOMAIN file : \A k \in DOMAIN file[i].deps : file[i].deps[k] \in Steps

Validate ==
    /\ verdict = "unread"
    /\ verdict' = IF WellFormed THEN "visiting" ELSE "malformed"
    /\ UNCHANGED <<file, root, mark, stack>>

Visit(n) ==
    /\ mark[n] = 0
    /\ mark' = [mark EXCEPT ![n] = 1]
    /\ stack' = Append(stack, [node |-> n, dep |-> 1])
    /\ UNCHANGED <<file, verdict, root>>

(* for name in graph: visit(name).                                         *)
AtRoot ==
    /\ verdict = "visiting"
    /\ stack = <<>>
    /\ root <= Len(file)

VisitRoot == AtRoot /\ Visit(file[root].name)

RootDone ==
    /\ AtRoot
    /\ mark[file[root].name] = 2
    /\ root' = root + 1
    /\ UNCHANGED <<file, verdict, mark, stack>>

Accept ==
    /\ verdict = "visiting"
    /\ stack = <<>>
    /\ root > Len(file)
    /\ verdict' = "accepted"
    /\ UNCHANGED <<file, root, mark, stack>>

(* for dep in graph.get(node, []): visit(dep).                             *)
Top == stack[Len(stack)]
Dep == Deps(Top.node)[Top.dep]
AtDep ==
    /\ verdict = "visiting"
    /\ stack # <<>>
    /\ Top.dep <= Len(Deps(Top.node))

VisitDep == AtDep /\ Visit(Dep)

(* Variant: a node in the stack counts as visited.                         *)
DepSeen ==
    /\ AtDep
    /\ mark[Dep] # 0
    /\ stack' = [stack EXCEPT ![Len(stack)].dep = @ + 1]
    /\ UNCHANGED <<file, verdict, root, mark>>

(* Visited before, or visited now and back.                                *)
DepDone ==
    /\ AtDep
    /\ mark[Dep] = 2
    /\ stack' = [stack EXCEPT ![Len(stack)].dep = @ + 1]
    /\ UNCHANGED <<file, verdict, root, mark>>

FindCycle ==
    /\ AtDep
    /\ mark[Dep] = 1
    /\ verdict' = "cyclic"
    /\ UNCHANGED <<file, root, mark, stack>>

(* Variant: a node stays in the stack's colour.                            *)
FinishUnmarked ==
    /\ verdict = "visiting"
    /\ stack # <<>>
    /\ Top.dep > Len(Deps(Top.node))
    /\ stack' = SubSeq(stack, 1, Len(stack) - 1)
    /\ UNCHANGED <<file, verdict, root, mark>>

Finish ==
    /\ verdict = "visiting"
    /\ stack # <<>>
    /\ Top.dep > Len(Deps(Top.node))
    /\ mark' = [mark EXCEPT ![Top.node] = 2]
    /\ stack' = SubSeq(stack, 1, Len(stack) - 1)
    /\ UNCHANGED <<file, verdict, root>>

Load ==
    \/ Validate
    \/ VisitRoot \/ RootDone \/ Accept
    \/ VisitDep \/ DepDone \/ FindCycle \/ Finish

-----------------------------------------------------------------------------
(* An accepted workflow can be run: among any of its steps there is one    *)
(* that waits for none of the others.                                      *)
AcceptedCanRun ==
    verdict = "accepted" =>
        \A S \in (SUBSET Steps) \ {{}} :
            \E n \in S : \A d \in S : ~DependsDirectly(n, d)

(* A workflow is turned away as cyclic only if some of its steps wait for  *)
(* each other, so that none of them could ever run.                        *)
CyclicCannotRun ==
    verdict = "cyclic" =>
        \E S \in (SUBSET Steps) \ {{}} :
            \A n \in S : \E d \in S : DependsDirectly(n, d)
=============================================================================
