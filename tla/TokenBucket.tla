---------------------------- MODULE TokenBucket ----------------------------
(***************************************************************************)
(* common/ratelimit.py.  Tokens are counted in units of 1/Unit and time in *)
(* ticks; the bucket is refilled when somebody looks at it.                *)
(***************************************************************************)
EXTENDS Integers

CONSTANTS
    Unit,      \* one token
    Rate,      \* rate, per tick
    Capacity   \* max(1.0, rate) tokens

ASSUME BucketAssumption ==
    /\ Unit \in Nat \ {0}
    /\ Rate \in Nat \ {0}
    /\ Capacity \in Nat
    /\ Capacity >= Unit

VARIABLES
    tokens,   \* _tokens
    age       \* time since _updated

bucketVars == <<tokens, age>>

BucketInit == tokens = Capacity /\ age = 0

(* What acquire finds: refilled, but not above capacity.                   *)
Credit ==
    IF tokens + age * Rate >= Capacity THEN Capacity ELSE tokens + age * Rate

(* Variant: the time is not taken, so it counts again the next time.       *)
TakeKeepingTime ==
    /\ Credit >= Unit
    /\ tokens' = Credit - Unit
    /\ age' = age

Take ==
    /\ Credit >= Unit
    /\ tokens' = Credit - Unit
    /\ age' = 0

TooFew ==
    /\ Credit < Unit
    /\ tokens' = Credit
    /\ age' = 0

(* Variant: multiplied instead of divided by the rate.                     *)
DeficitTimesRate == (Unit - Credit) * Rate

(* Ticks to sleep before the next look.                                    *)
Deficit == (Unit - Credit + Rate - 1) \div Rate

(* Time goes on; once the bucket is full, more of it changes nothing.      *)
Elapse ==
    /\ age' = IF tokens + age * Rate >= Capacity THEN age ELSE age + 1
    /\ tokens' = tokens

BucketTypeOK ==
    /\ tokens \in 0..Capacity
    /\ age \in 0..Capacity
=============================================================================
