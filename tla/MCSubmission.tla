---------------------------- MODULE MCSubmission ----------------------------
(***************************************************************************)
(* Submission with every dependency graph of three steps, four files that  *)
(* are malformed, and requests of one or two targets.                      *)
(***************************************************************************)
EXTENDS Submission, TLC, SequencesExt

CONSTANTS a, b, c, x, y, meta, plain, url, other, blocked, invalid, starred

Step3(n, deps) ==
    [name |-> n, legal |-> TRUE, deps |-> SetToSeq(deps), once |-> n = c]

Graphs3 ==
    {<<Step3(a, da), Step3(b, db), Step3(c, dc)>> :
        da \in SUBSET {a, b, c}, db \in SUBSET {a, b, c}, dc \in SUBSET {a, b, c}}

MCFile ==
    Graphs3 \cup
    {<<>>,
     <<Step3(a, {}), Step3(a, {})>>,
     <<Step3(a, {}), Step3(b, {c})>>,
     <<[Step3(a, {}) EXCEPT !.legal = FALSE], Step3(b, {a})>>}

(* Two ways to write one host, another one, a blocked one, one that does   *)
(* not normalize and one that evaluate raises for.                         *)
MCHostOf ==
    (plain :> {x}) @@ (url :> {x}) @@ (other :> {y}) @@ (blocked :> {meta})
    @@ (invalid :> {}) @@ (starred :> {y})

MCRequest == {<<r>> : r \in Raw} \cup {<<r, s>> : r \in Raw, s \in Raw}

RowOf(hosts, is_allowed, broken) ==
    [covers |-> hosts, is_allowed |-> is_allowed, broken |-> broken]

MCRow ==
    {RowOf({x, y, meta}, TRUE, FALSE), RowOf({y}, FALSE, FALSE),
     RowOf({x}, TRUE, TRUE), RowOf({x}, FALSE, TRUE)}

MCPolicy ==
    {{}, {RowOf({x, y, meta}, TRUE, FALSE)}, {RowOf({x}, TRUE, TRUE)},
     {RowOf({x, y, meta}, TRUE, FALSE), RowOf({y}, FALSE, FALSE)}, MCRow}
=============================================================================
