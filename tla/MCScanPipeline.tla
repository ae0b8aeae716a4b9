--------------------------- MODULE MCScanPipeline ---------------------------
(***************************************************************************)
(* Values of ScanPipeline's constants for TLC: three task graphs and the   *)
(* tools' behaviour on them.  A cfg picks one per run.                     *)
(***************************************************************************)
EXTENDS ScanPipeline, TLC

CONSTANTS a, b, c, a2, sA, sB, sC, fA, fB, h1, h2, w1, w2

(* a -> b -> c, one target. *)
ChainStepOf == (a :> sA) @@ (b :> sB) @@ (c :> sC)
ChainDeps == (sA :> {}) @@ (sB :> {sA}) @@ (sC :> {sB})
ChainPlan == <<a, b, c>>

(* a -> b only. *)
PairStepOf == (a :> sA) @@ (b :> sB)
PairDeps == (sA :> {}) @@ (sB :> {sA})
PairPlan == <<a, b>>

(* Two targets for the first step, one task of the second. *)
FanStepOf == (a :> sA) @@ (a2 :> sA) @@ (b :> sB)
FanPlan == <<a, a2, b>>

(* One task. *)
LoneStepOf == a :> sA
LoneDeps == sA :> {}
LonePlan == <<a>>

(* The first step may report the input of the second, and the second the  *)
(* type that opens the third.                                             *)
NoGate == [s \in Step |-> {}]
NoTypes == [s \in Step |-> {}]
GateOnC == [s \in Step |-> IF s = sC THEN {fB} ELSE {}]
BConsumes == [s \in Step |-> IF s = sB THEN {fA} ELSE {}]
ABYield == [s \in Step |-> CASE s = sA -> {fA} [] s = sB -> {fB} [] s = sC -> {}]

AllCapable == [w \in Worker |-> Step]
CMissing == [w \in Worker |-> Step \ {sC}]

OneHandler == h1 :> w1
OnePerWorker == (h1 :> w1) @@ (h2 :> w2)
=============================================================================
