------------------------------ MODULE MCGateway ------------------------------
(* Small instances of Gateway. *)
EXTENDS Gateway

CONSTANTS r1, r2, w1, a1

ModelNames == {"auto", "cheap", "top", "m", "judge"}
TierPolicy == [simple |-> "cheap", complex |-> "top"]

Good == [valid |-> TRUE, tiers |-> {"cheap", "top"}, models |-> {"m", "judge"}]
Colliding == [Good EXCEPT !.models = {"m", "cheap"}]
Malformed == [Good EXCEPT !.valid = FALSE]
AllFiles == {Good, Colliding, Malformed}

Fine == [file |-> Good, settings |-> TRUE, database |-> TRUE, cache |-> "on", router |-> "on",
         quality |-> "on", identity |-> TRUE, ports |-> {"public", "admin"}]
Spare == [Fine EXCEPT !.cache = "off", !.router = "off", !.quality = "off", !.file = Colliding]

\* In order, with the optional parts on or off, and with one thing wrong.
AllEnvironments ==
  {Fine, Spare}
  \cup {[Fine EXCEPT !.file = f] : f \in AllFiles \ {Good}}
  \cup {[Fine EXCEPT !.file = Colliding, !.quality = "off"], [Fine EXCEPT !.settings = FALSE], [Fine EXCEPT !.database = FALSE], [Fine EXCEPT !.cache = "broken"],
        [Fine EXCEPT !.router = "broken"], [Fine EXCEPT !.quality = "broken"], [Fine EXCEPT !.identity = FALSE],
        [Fine EXCEPT !.ports = {"public"}], [Fine EXCEPT !.ports = {"admin"}]}

\* A score out of range, and a reply without one.
JudgeReplies == {[json |-> TRUE, n |-> 9], [json |-> FALSE, n |-> 9]}
=============================================================================
