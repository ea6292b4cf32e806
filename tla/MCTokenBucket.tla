--------------------------- MODULE MCTokenBucket ---------------------------
(* TokenBucket on a bucket of four tokens. *)
EXTENDS TokenBucket, TLC

RequestSymmetry == Permutations(Requests)
=============================================================================
