-------------------------- MODULE MCSharedBreaker --------------------------
(* SharedBreaker on one or two replicas. *)
EXTENDS SharedBreaker, TLC

CONSTANTS r1, r2, c1, c2

OneEach == [c \in Calls |-> IF c = c2 THEN r2 ELSE r1]
=============================================================================
