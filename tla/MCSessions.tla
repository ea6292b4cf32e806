----------------------------- MODULE MCSessions -----------------------------
(* Sessions with two interchangeable tabs. *)
EXTENDS Sessions, TLC

\* Rows lie in the order in which they were inserted.
InsertionOrder == [i \in 1 .. MaxSessions |-> i]

TabSymmetry == Permutations(Tabs)
=============================================================================
