----------------------------- MODULE MCRequest -----------------------------
(* Two models in each of two tiers, served by one provider of each dialect.  *)
EXTENDS Request, TLC

Served == ("a" :> "groq") @@ ("b" :> "ollama") @@ ("x" :> "claude") @@ ("y" :> "gemini")
Adapter == ("groq" :> "openai") @@ ("ollama" :> "ollama") @@ ("claude" :> "anthropic") @@ ("gemini" :> "gemini")
Ceilings == [p \in Providers |-> IF p \in {"groq", "ollama"} THEN 3 ELSE 4]
Prices == ("a" :> 1) @@ ("b" :> 1) @@ ("x" :> 2) @@ ("y" :> 3)

At(mod) == [provider |-> Served[mod], model |-> mod]
BothTiers == ("small" :> <<At("a"), At("b")>>) @@ ("large" :> <<At("x"), At("y")>>)
AllOn == [routing |-> TRUE, cache |-> TRUE, chaos |-> TRUE]
AllOff == [routing |-> FALSE, cache |-> FALSE, chaos |-> FALSE]
\* The last has lost its small tier.
Gateways ==
  {[parts |-> AllOn, tiers |-> BothTiers], [parts |-> AllOff, tiers |-> BothTiers],
   [parts |-> [AllOff EXCEPT !.routing = TRUE], tiers |-> [BothTiers EXCEPT !["small"] = <<>>]]}

\* A batch team with everything, and one that may use only the large tier, and of that
\* only one provider.
TeamTable ==
  ("t1" :> [models |-> {"a", "b", "x", "y"}, providers |-> Providers, batch |-> TRUE]) @@
  ("t2" :> [models |-> {"x", "y"}, providers |-> {"gemini"}, batch |-> FALSE])

Ask(name, streaming, max, level) == [model |-> name, stream |-> streaming, max |-> max, level |-> level, fits |-> "ok"]
AskTable ==
  {Ask("a", s, 0, "small") : s \in BOOLEAN}
    \cup {Ask("auto", TRUE, 0, "small"), Ask("auto", TRUE, 1, "large"), Ask("small", FALSE, 0, "small"),
          Ask("x", FALSE, 0, "small"), Ask("none", FALSE, 0, "small"), Ask("", FALSE, 0, "small")}
    \cup {[Ask("a", FALSE, 0, "small") EXCEPT !.fits = f] : f \in {"type", "size"}}

\* The text of the first pieces, in bytes.
Bytes(pieces) == <<0, 1, WholeText>>[pieces + 1]
Body(valid, blocked, items, pieces, stop, names) ==
  [valid |-> valid, blocked |-> blocked, items |-> items, text |-> Bytes(pieces), stop |-> stop,
   in |-> 1, out |-> pieces, model |-> names]
\* Whole, cut short by the ceiling, empty, and unusable bodies.
BodyTable ==
  {Body(TRUE, FALSE, 1, 2, stop, {}) : stop \in {"stop", "end_turn", "STOP", "length"}}
    \cup {Body(TRUE, FALSE, 1, 1, "length", {}), Body(TRUE, FALSE, 1, 0, "stop", {}),
          Body(FALSE, FALSE, 0, 0, "", {}), Body(TRUE, TRUE, 0, 0, "", {}), Body(TRUE, FALSE, 0, 0, "", {})}
\* A body that names its model by version.
AliasTable == {Body(TRUE, FALSE, 1, 2, "STOP", {}), Body(TRUE, FALSE, 1, 2, "STOP", {"alias"})}

RefusalTable ==
  {<<429, "">>, <<500, "">>, <<400, "content_filter">>, <<401, "">>}

Rule(provider, name, mode, latency) == [provider |-> provider, model |-> name, mode |-> mode, latency |-> latency]
RuleTable ==
  {<<Rule("groq", "", "error", 0)>>, <<Rule("", "x", "panic", 0)>>, <<Rule("gemini", "", "latency", 1)>>,
   <<Rule("groq", "", "drop", 0), Rule("", "", "error", 0)>>}
=============================================================================
