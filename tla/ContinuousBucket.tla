-------------------------- MODULE ContinuousBucket --------------------------
(***************************************************************************)
(* What a token bucket promises, without the way it is stored: a level     *)
(* that rises by Refill every unit of time up to Capacity, is lowered by   *)
(* what is taken, never below zero by a taker, and is corrected by         *)
(* settlements, without a floor.  The rest of a debt may be forgotten only *)
(* while the bucket is deep: more than Capacity below zero when it was     *)
(* last used.  TokenBucket implements it without a clock of its own.       *)
(***************************************************************************)
EXTENDS Integers

CONSTANTS
  Capacity,      \* the bucket's size: the team's limit per minute
  Refill,        \* tokens that accrue in one unit of time
  Amounts,       \* sizes of requests
  Settlements    \* corrections: unused tokens returned, overruns debited

VARIABLES level, deep

Full(x) == IF x > Capacity THEN Capacity ELSE x

Init == level = Capacity /\ deep = FALSE

\* Every use of the bucket, one that changes nothing included.
Use(x) == level' = x /\ deep' = (x < - Capacity)

Take(a) == level >= a /\ Use(level - a)
Refuse(a) == level < a /\ Use(level)
Settle(d) == Use(Full(level + d))
Accrue == level' = Full(level + Refill) /\ UNCHANGED deep
Forget == deep /\ level' = Capacity /\ deep' = FALSE

Next ==
  \/ \E a \in Amounts : Take(a) \/ Refuse(a)
  \/ \E d \in Settlements : Settle(d)
  \/ Accrue \/ Forget

Spec == Init /\ [][Next]_<<level, deep>>
=============================================================================
