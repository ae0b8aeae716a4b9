------------------------------ MODULE MCStartup ------------------------------
(***************************************************************************)
(* Startup with a master and a worker of the current image and a worker of *)
(* an older one.                                                           *)
(***************************************************************************)
EXTENDS Startup, TLC

CONSTANTS master, worker, old

MCKnows == (master :> Files) @@ (worker :> Files) @@ (old :> Files - 1)
=============================================================================
