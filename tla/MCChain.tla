------------------------------ MODULE MCChain ------------------------------
(* Chain on a tier of four models: two of one provider, one of another, and  *)
(* one of a provider the team may not use.                                   *)
EXTENDS Chain, TLC

CONSTANTS p1, p2, p3, m1, m2, m3, m4

Serving == (m1 :> p1) @@ (m2 :> p2) @@ (m3 :> p1) @@ (m4 :> p3)
FourModels == <<m2, m1, m3, m4>>

\* A reload drops a model, or moves one to the provider the team may not use.
Reloaded == {[Serving EXCEPT ![m] = p] : m \in {m1, m2}, p \in {NoProvider, p3}}
=============================================================================
