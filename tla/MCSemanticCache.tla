--------------------------- MODULE MCSemanticCache ---------------------------
(* Two teams that share a cache and one that is isolated; two queries that  *)
(* are similar and one that is not.                                         *)
EXTENDS SemanticCache, TLC

CONSTANTS r1, r2, r3

MCTeams == {"a", "b", "c"}
MCOrg == [t \in MCTeams |-> "org"]
MCPrompts == "q" :> [shape |-> 1, query |-> "q1"] @@ "alike" :> [shape |-> 1, query |-> "q2"]
             @@ "else" :> [shape |-> 1, query |-> "q3"]
MCAsks == {<<"b", "alike">>, <<"c", "q">>, <<"c", "else">>}
MCWarmAsk == <<"a", "q">>
MCSim == [x \in {"q1", "q2", "q3"} |-> [y \in {"q1", "q2", "q3"} |->
            IF x = y THEN 3 ELSE IF {x, y} = {"q1", "q2"} THEN 2 ELSE 1]]
MCRules == <<[queries |-> {"q2"}, ttl |-> 1]>>
MCCallers == {[org |-> "org", superadmin |-> FALSE], [org |-> "none", superadmin |-> TRUE]}
MCHeaders == {-1, 0, 1}
MCPurgedTeams == {"c"}
MCPurgedIds == {EntryID("a", "q")}
MCRequests == {r1, r2, r3}
Symmetry == Permutations({r2, r3})
=============================================================================
