--------------------------- MODULE MCFindingsStore ---------------------------
(***************************************************************************)
(* FindingsStore with two batches of one scan that share two entities in   *)
(* opposite orders, one of them redelivered, and batches of another scan.  *)
(***************************************************************************)
EXTENDS FindingsStore, TLC

CONSTANTS x, y, z, host, port, b1, b2, b1again, b3, b4, s1, s2

MCTypeOf == (x :> host) @@ (y :> port) @@ (z :> port)
MCScanOf == (b1 :> s1) @@ (b2 :> s1) @@ (b1again :> s1) @@ (b3 :> s2) @@ (b4 :> s2)
MCFound == (b1 :> <<x, y>>) @@ (b1again :> <<x, y>>) @@ (b2 :> <<y, z, x>>)
           @@ (b3 :> <<z, x>>) @@ (b4 :> <<>>)
=============================================================================
