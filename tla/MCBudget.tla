------------------------------ MODULE MCBudget ------------------------------
(* Budget with a cheap model, whose estimate rounds to nothing, a middle and a *)
(* dear one.                                                                  *)
EXTENDS Budget, TLC

CONSTANTS cheap, middle, dear

Ladder == (cheap :> 0) @@ (middle :> 1) @@ (dear :> 2)
RequestSymmetry == Permutations(Requests)
=============================================================================
