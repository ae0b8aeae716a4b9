---------------------------- MODULE LeakyBucket ----------------------------
(***************************************************************************)
(* What the rate limiter of a worker promises: a launch adds to a debt,    *)
(* which time pays back and which never exceeds Capacity.  So no span of n *)
(* ticks sees more than (Capacity + n * Rate) / Unit launches.             *)
(***************************************************************************)
EXTENDS Integers

CONSTANTS
    Unit,      \* what a launch costs
    Rate,      \* what a tick pays back
    Capacity   \* what may be launched at once; at least Unit

VARIABLE debt

Init == debt = 0

Grant == debt + Unit <= Capacity /\ debt' = debt + Unit

Pay == debt' = IF debt <= Rate THEN 0 ELSE debt - Rate

Next == Grant \/ Pay

Spec == Init /\ [][Next]_debt
=============================================================================
