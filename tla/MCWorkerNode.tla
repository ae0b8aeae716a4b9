---------------------------- MODULE MCWorkerNode ----------------------------
(***************************************************************************)
(* Two handlers, two thirds of a token a tick, room for one and a third,   *)
(* a program with a child, and a driver with three URLs for one probe.     *)
(***************************************************************************)
EXTENDS WorkerNode

CONSTANTS h1, h2, main, child, u1, u2, u3

One(program) == [batch |-> FALSE, argvs |-> <<program>>]
Batch(programs) == [batch |-> TRUE, argvs |-> programs]

MCJob ==
    {One("tool"), One("absent"), One("oob"),
     Batch(<<>>), Batch(<<"absent", "tool">>), Batch(<<"tool", "tool">>)}
=============================================================================
