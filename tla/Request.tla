------------------------------- MODULE Request -------------------------------
(***************************************************************************)
(* One chat request through the gateway: the middleware, routing, the      *)
(* allowlists, the cache, the two reservations, the fallback walk, the     *)
(* completion or the stream, and the deferred settlement (internal/proxy,  *)
(* internal/router, and the adapters of Adapters).                         *)
(*                                                                         *)
(* The client may leave at any time, the upstream may refuse, garble, cut  *)
(* or stall its answer, an operator may set chaos rules, and any step may  *)
(* panic.  Rate limiter, budget, breakers, health and cache are seen       *)
(* through their verdicts: TokenBucket, Budget, LocalBreaker, Chain,       *)
(* HealthMonitor and SemanticCache model them.                             *)
(***************************************************************************)
EXTENDS Adapters, SequencesExt, FiniteSetsExt

CONSTANTS
  Providers, Dialect,  \* Dialect[p]: the adapter of p
  DefaultMax,          \* DefaultMax[p]: its ceiling when the caller names none
  Serves,              \* Serves[m]: the provider of model m
  Price,               \* Price[m]: micro-dollars per token
  AutoModel, Simple, Complex,  \* the routing keywords: "auto" and the policy's tiers
  Deployments,         \* which optional parts are on, and the tier table
  Teams,               \* Teams[t]: allowlists and priority
  NoTeam,
  Asks,                \* what callers send
  Bodies,              \* what a completion may come back as
  Refusals,            \* the upstream's error answers: status and label
  RuleSets,            \* chaos rules an operator may post
  MaxAttempts, MaxTotalAttempts,
  MaxOrders            \* changes of the chaos rules

ASSUME RequestAssumption ==
  /\ Dialect \in [Providers -> Dialects]
  /\ DefaultMax \in [Providers -> Nat \ {0}]
  /\ Serves \in [DOMAIN Serves -> Providers]
  /\ DOMAIN Price = DOMAIN Serves
  /\ NoTeam \notin DOMAIN Teams
  /\ \A d \in Deployments :
       /\ {Simple, Complex} \subseteq DOMAIN d.tiers
       /\ \A t \in DOMAIN d.tiers :
            d.tiers[t] \in Seq({[provider |-> Serves[name], model |-> name] : name \in DOMAIN Serves})
  /\ \A a \in Asks : a.level \in {Simple, Complex}
  /\ \A body \in Bodies : {body.text, body.in, body.out} \subseteq Nat
  /\ MaxAttempts \in Nat \ {0} /\ MaxTotalAttempts \in Nat \ {0} /\ MaxOrders \in Nat

\* The upstream's word for a whole answer: a completion that says it stopped by itself
\* has all of its text, or none.
ASSUME BodiesAreWhole ==
  \A body \in Bodies, d \in Dialects :
    finishReason(d, body.stop) = "stop" /\ body.text > 0 => body.text = WholeText

VARIABLES
  pc,       \* the request's next step
  on,       \* optional parts: routing, cache, chaos
  tiers,    \* tiers[name]: candidates in declared order
  team,     \* the authenticated team
  ask,      \* the decoded body; ask.model is what the caller named
  model,    \* the model routing left in the request
  tier,     \* the tier it was routed to, or ""
  chain,    \* candidates to try
  i, n,     \* the candidate being tried, and its attempts so far
  spent,    \* attempts of the whole request
  failed,   \* candidates passed over or failed
  err,      \* how the last one failed
  at,           \* events of its script the upstream has sent
  input,        \* the Anthropic decoder's memory
  text, finish, usage,  \* what has been received
  sent,         \* a chunk was written to the client
  m,        \* requestMetrics
  actual,   \* tokens to reconcile the TPM reservation with
  held,     \* reservations taken: TPM tokens, budget micros, extra holds
  settled,  \* what each was settled with
  defers,   \* settlements deferred to the handler's return
  wire,     \* what the client was sent
  wrote, ctype,  \* the panic writer's view of the response
  gone,     \* the client has left
  panicked,
  stored, offered,  \* the answer was cached, was offered for quality sampling
  row,      \* the request-log row
  calls, verdicts,  \* provider calls begun, and what health heard of them
  rules, orders     \* chaos rules, and changes of them left

query == <<team, ask, model, tier>>
walk == <<chain, i, n, spent, failed, err>>
flow == <<at, input, text, finish, usage, sent>>
ledger == <<actual, held, settled, defers>>
reply == <<wire, wrote, ctype>>
outcome == <<stored, offered, row>>
heard == <<calls, verdicts>>
settings == <<on, tiers>>
chaos == <<rules, orders>>
vars == <<pc, settings, query, walk, flow, m, ledger, reply, gone, panicked, outcome, heard, chaos>>

Keywords == {AutoModel, Simple, Complex}
NoAsk == [model |-> "", stream |-> FALSE, max |-> 0, level |-> Simple, fits |-> "ok"]
NoError == [kind |-> "none", retryable |-> FALSE]
NoMetrics == [cost |-> 0, tokens |-> 0, served |-> "", fellBack |-> FALSE, baseline |-> "",
              delta |-> {}, savings |-> {}]

Init ==
  /\ pc = "auth"
  /\ \E d \in Deployments : on = d.parts /\ tiers = d.tiers
  /\ team = NoTeam /\ ask = NoAsk /\ model = "" /\ tier = ""
  /\ chain = <<>> /\ i = 1 /\ n = 0 /\ spent = 0 /\ failed = 0 /\ err = NoError
  /\ at = 0 /\ input = 0 /\ text = 0 /\ finish = "" /\ usage = {} /\ sent = FALSE
  /\ m = NoMetrics
  /\ actual = 0
  /\ held = [tpm |-> {}, budget |-> {}, extra |-> 0]
  /\ settled = [tpm |-> <<>>, budget |-> <<>>, extra |-> 0]
  /\ defers = {}
  /\ wire = <<>> /\ wrote = FALSE /\ ctype = ""
  /\ gone = FALSE /\ panicked = FALSE
  /\ stored = FALSE /\ offered = FALSE /\ row = {}
  /\ calls = 0 /\ verdicts = [ok |-> 0, bad |-> 0]
  /\ rules = <<>> /\ orders = MaxOrders

-----------------------------------------------------------------------------
(* Answering.  A write to a client that has left reaches nobody.           *)

Goto(step) == pc' = step

Say(what, type) ==
  /\ wire' = IF gone THEN wire ELSE Append(wire, what)
  /\ wrote' = TRUE
  /\ ctype' = type

\* writeError, and the handler returns.
Refuse(status) == Say(status, "json") /\ Goto("unwind")

statusForKind(kind) ==
  CASE kind = "rate_limited" -> "429"
    [] kind = "timeout" -> "504"
    [] kind \in {"invalid_request", "content_policy"} -> "400"
    [] OTHER -> "502"

\* An error that is no provider.Error is the gateway's own.
writeProviderError(e) == IF e.kind \in ErrorKinds THEN statusForKind(e.kind) ELSE "500"

ShouldFallback(e) == e.kind \notin {"invalid_request", "content_policy"}

writeChainError ==
  IF err.kind = "budget" THEN "402"
  ELSE IF failed > 1 /\ ShouldFallback(err) THEN "503"
  ELSE IF err.kind = "breaker" THEN "503"
  ELSE writeProviderError(err)

-----------------------------------------------------------------------------
(* The middleware, and the body.                                           *)

Auth ==
  /\ pc = "auth"
  /\ \/ \E t \in DOMAIN Teams : team' = t /\ Goto("limit") /\ UNCHANGED reply
     \/ \E status \in {"401", "500"} : Refuse(status) /\ UNCHANGED team
  /\ UNCHANGED <<settings, ask, model, tier, walk, flow, m, ledger, gone, panicked, outcome, heard, chaos>>

\* A batch team is turned away once the bucket that let it in is below the floor.
shouldShedForPriority(low) == Teams[team].batch /\ low

\* The RPM bucket admits, refuses or cannot be reached; Redis down lets requests through.
RateLimit ==
  /\ pc = "limit"
  /\ \E verdict \in {"allowed", "denied", "error"}, low \in BOOLEAN :
       IF verdict = "denied" \/ (verdict = "allowed" /\ shouldShedForPriority(low))
       THEN Refuse("429")
       ELSE Goto("decode") /\ UNCHANGED reply
  /\ UNCHANGED <<settings, query, walk, flow, m, ledger, gone, panicked, outcome, heard, chaos>>

validate(a) == a.model # "" /\ a.max >= 0

Decode ==
  /\ pc = "decode"
  /\ \E a \in Asks :
       \/ /\ a.fits = "type"
          /\ Refuse("415") /\ UNCHANGED <<ask, model>>
       \/ /\ a.fits = "size"
          /\ Refuse("413") /\ UNCHANGED <<ask, model>>
       \/ /\ a.fits = "ok" /\ ~ validate(a)
          /\ Refuse("400") /\ UNCHANGED <<ask, model>>
       \/ /\ a.fits = "ok" /\ validate(a)
          /\ ask' = a /\ model' = a.model
          /\ Goto("route")
          /\ UNCHANGED reply
  /\ UNCHANGED <<settings, team, tier, walk, flow, m, ledger, gone, panicked, outcome, heard, chaos>>

-----------------------------------------------------------------------------
(* Routing, the allowlists and the chain.  up and tripped are what health  *)
(* and the breakers say at that moment.                                    *)

Routes(name) == name \in Keywords

\* Plan: a named tier is pinned, "auto" follows the classifier.
Pinned == ask.model # AutoModel
PlanTier == IF Pinned THEN ask.model ELSE ask.level

Escalate(t) == IF t = Simple THEN {Complex} ELSE {}

allowed(c) == c.provider \in Teams[team].providers /\ c.model \in Teams[team].models

\* BuildChain: the places in a list of what the team may use, every candidate once,
\* without what is down unless all of it is; and the candidates there, those of degraded
\* providers last, else in the list's order.
eligible(candidates, up) ==
  LET permitted == {k \in DOMAIN candidates :
                      allowed(candidates[k]) /\ \A j \in 1 .. k - 1 : candidates[j] # candidates[k]}
      alive == {k \in permitted : candidates[k].provider \in up}
  IN  IF alive = {} THEN permitted ELSE alive

Banded(candidates, S, degraded) ==
  LET late(k) == candidates[k].provider \in degraded
      before(j, k) == IF late(j) = late(k) THEN j < k ELSE late(k)
  IN  {s \in [1 .. Cardinality(S) -> S] : \A j, k \in DOMAIN s : j < k => before(s[j], s[k])}

BuildChain(candidates, up, degraded) ==
  {[k \in DOMAIN places |-> candidates[places[k]]] :
     places \in Banded(candidates, eligible(candidates, up), degraded)}

\* selectCandidate: the first of the tier's chain whose breaker is not open, or the
\* first; none if the tier is unknown or holds nothing permitted.  To let a degraded
\* provider wait comes to the same here as an open breaker.
selectCandidate(t, up, tripped) ==
  LET usable == eligible(tiers[t], up)
      closed == {k \in usable : tiers[t][k].provider \notin tripped}
      preferred == IF closed = {} THEN usable ELSE closed
  IN  IF preferred = {} THEN {} ELSE {tiers[t][Min(preferred)]}

topTierModel == IF tiers[Complex] = <<>> THEN "" ELSE Head(tiers[Complex]).model

\* Mutant of escalation: a pinned tier escalates too.
escalationAlways == Escalate(PlanTier)

\* The tier route looks in when the planned one has nothing for the team.
escalation == IF Pinned THEN {} ELSE Escalate(PlanTier)

Routed(up, tripped) ==
  LET holds(t) == selectCandidate(t, up, tripped) # {}
      found == IF holds(PlanTier) THEN {PlanTier} ELSE {t \in escalation : holds(t)}
  IN  \/ /\ found = {}
         /\ Refuse(IF tiers[PlanTier] = <<>> THEN "500" ELSE "403")
         /\ UNCHANGED <<model, tier, m>>
      \/ \E t \in found : \E c \in selectCandidate(t, up, tripped) :
           /\ model' = c.model /\ tier' = t
           /\ m' = [m EXCEPT !.baseline = topTierModel]
           /\ Goto("authorize") /\ UNCHANGED reply

Route ==
  /\ pc = "route"
  /\ IF on.routing /\ Routes(model)
     THEN \E up, tripped \in SUBSET Providers : Routed(up, tripped)
     ELSE Goto("authorize") /\ UNCHANGED <<model, tier, m, reply>>
  /\ UNCHANGED <<settings, team, ask, walk, flow, ledger, gone, panicked, outcome, heard, chaos>>

AuthorizeModel ==
  /\ pc = "authorize"
  /\ IF model \in Teams[team].models THEN Goto("resolve") /\ UNCHANGED reply ELSE Refuse("403")
  /\ UNCHANGED <<settings, query, walk, flow, m, ledger, gone, panicked, outcome, heard, chaos>>

candidate(mod) == [provider |-> Serves[mod], model |-> mod]
requested == candidate(model)

\* chainFor: the tier the model belongs to, the model itself first.
TierFor(mod) ==
  LET containing == {t \in DOMAIN tiers : candidate(mod) \in ToSet(tiers[t])}
  IN  IF containing = {} THEN <<>> ELSE tiers[CHOOSE t \in containing : TRUE]
options == <<requested>> \o TierFor(model)
chainFor(up, degraded) == BuildChain(options, up, degraded)

Resolve ==
  /\ pc = "resolve"
  /\ IF model \notin DOMAIN Serves
     THEN Refuse("404") /\ UNCHANGED chain
     ELSE \E up \in SUBSET Providers : \E degraded \in SUBSET up :
            /\ chain' \in chainFor(up, degraded)
            /\ IF chain' = <<>> THEN Refuse("403") ELSE Goto("cache") /\ UNCHANGED reply
  /\ UNCHANGED <<settings, query, i, n, spent, failed, err, flow, m, ledger, gone, panicked,
                 outcome, heard, chaos>>

-----------------------------------------------------------------------------
(* The cache, and a hit served from it.                                    *)

\* considerQuality: any answer that is not empty is put to the sampler.
considerQuality(answer) == offered' = (answer > 0)

\* A hit is a whole stored answer.  As a stream it is replayed piece by piece.
ConsultCache ==
  /\ pc = "cache"
  /\ \/ /\ Goto("tokens")
        /\ UNCHANGED <<m, text, reply, offered>>
     \/ /\ on.cache
        /\ m' = [m EXCEPT !.tokens = 1 + Pieces, !.served = model]
        /\ text' = WholeText
        /\ \/ ask.stream /\ Goto("replay") /\ UNCHANGED <<reply, offered>>
           \/ ~ ask.stream /\ Say("body", "json") /\ considerQuality(WholeText) /\ Goto("unwind")
  /\ UNCHANGED <<settings, query, walk, at, input, finish, usage, sent, ledger, gone, panicked,
                 stored, row, heard, chaos>>

\* serveStreamFromCache: the parts, the finish, the terminator.
replayed == [k \in 1 .. Pieces + 2 |-> IF k <= Pieces + 1 THEN "chunk" ELSE "done"]

Replay ==
  /\ pc = "replay"
  /\ Say(replayed[i], "sse")
  /\ i' = i + 1
  /\ IF i = Len(replayed) THEN Goto("unwind") /\ considerQuality(text)
                          ELSE Goto("replay") /\ UNCHANGED offered
  /\ UNCHANGED <<settings, query, chain, n, spent, failed, err, flow, m, ledger, gone, panicked,
                 stored, row, heard, chaos>>

\* A write fails: the replay ends, and the answer is still put to the sampler.
ReplayCut ==
  /\ pc = "replay" /\ gone
  /\ considerQuality(text)
  /\ Goto("unwind")
  /\ UNCHANGED <<settings, query, walk, flow, m, ledger, reply, gone, panicked, stored, row, heard, chaos>>

-----------------------------------------------------------------------------
(* The reservations.                                                       *)

estimateInputTokens == 1
estimateOutputCeiling == translateMaxTokens(ask.max, DefaultMax[Serves[model]])
estimateTokens == estimateInputTokens + estimateOutputCeiling

\* The TPM bucket: Redis down admits without a reservation, and a batch team that is
\* shed gets its reservation back at once.
ReserveTokens ==
  /\ pc = "tokens"
  /\ \/ /\ defers' = {"tpm"}
        /\ Goto("budget")
        /\ UNCHANGED <<held, settled, reply>>
     \/ /\ Refuse("429")
        /\ UNCHANGED <<held, settled, defers>>
     \/ \E low \in BOOLEAN :
          /\ held' = [held EXCEPT !.tpm = {estimateTokens}]
          /\ IF shouldShedForPriority(low)
             THEN /\ settled' = [settled EXCEPT !.tpm = Append(@, 0)]
                  /\ Refuse("429")
                  /\ UNCHANGED defers
             ELSE /\ defers' = {"tpm"}
                  /\ Goto("budget")
                  /\ UNCHANGED <<settled, reply>>
  /\ UNCHANGED <<settings, query, walk, flow, m, actual, gone, panicked, outcome, heard, chaos>>

\* The budget: Redis down refuses.
ReserveBudget ==
  /\ pc = "budget"
  /\ \/ /\ held' = [held EXCEPT !.budget = {Price[model] * estimateTokens}]
        /\ defers' = defers \cup {"budget"}
        /\ Goto("walk")
        /\ UNCHANGED reply
     \/ \E status \in {"402", "503"} : Refuse(status) /\ UNCHANGED <<held, defers>>
  /\ UNCHANGED <<settings, query, walk, flow, m, actual, settled, gone, panicked, outcome, heard, chaos>>

-----------------------------------------------------------------------------
(* Chaos: the rules, and what they do to a call.                           *)

validRule(r) ==
  /\ r.provider # "" \/ r.model # ""
  /\ r.mode \in {"error", "rate_limit", "drop", "panic"} => r.latency = 0
  /\ r.mode = "latency" => r.latency > 0
  /\ r.mode \in {"error", "rate_limit", "drop", "panic", "latency"}

matches(r, c) == r.provider \in {"", c.provider} /\ r.model \in {"", c.model}

\* The whole set is checked before any of it replaces the rules in force.
SetRules(new) == rules' = IF \A k \in DOMAIN new : validRule(new[k]) THEN new ELSE rules

\* POST and DELETE /admin/chaos, where the harness is available.  Rules are read only
\* by a call, so a change made earlier is the one made there.
PostChaos ==
  /\ on.chaos /\ orders > 0 /\ pc = "call"
  /\ orders' = orders - 1
  /\ \E new \in RuleSets : SetRules(new)
  /\ UNCHANGED <<pc, settings, query, walk, flow, m, ledger, reply, gone, panicked, outcome, heard>>

DeleteChaos ==
  /\ on.chaos /\ orders > 0 /\ pc = "call"
  /\ orders' = orders - 1
  /\ rules' = <<>>
  /\ UNCHANGED <<pc, settings, query, walk, flow, m, ledger, reply, gone, panicked, outcome, heard>>

\* Apply: the mode of the first rule that matches.
injected(c) ==
  LET hits == {k \in DOMAIN rules : matches(rules[k], c)}
  IN  IF hits = {} THEN "none" ELSE rules[Min(hits)].mode

chaosFault(mode) ==
  CASE mode = "rate_limit" -> Typed("rate_limited")
    [] mode = "drop" -> Typed("network_error")
    [] OTHER -> Typed("server_error")

-----------------------------------------------------------------------------
(* The walk along the chain.                                               *)

cand == chain[i]

\* The head of runChain's loop.
NextCandidate ==
  /\ pc = "walk"
  /\ n' = 0
  /\ Goto(IF i > Len(chain) \/ spent >= MaxTotalAttempts \/ (i > 1 /\ gone) THEN "exhausted" ELSE "admit")
  /\ UNCHANGED <<settings, query, chain, i, spent, failed, err, flow, m, ledger, reply, gone, panicked,
                 outcome, heard, chaos>>

\* The breaker is open, or a costlier model does not fit the budget.
Skip ==
  /\ pc = "admit"
  /\ \E why \in {"breaker"} \cup (IF Price[cand.model] > Price[model] THEN {"budget"} ELSE {}) :
       err' = [kind |-> why, retryable |-> FALSE]
  /\ failed' = failed + 1 /\ i' = i + 1
  /\ Goto("walk")
  /\ UNCHANGED <<settings, query, chain, n, spent, flow, m, ledger, reply, gone, panicked, outcome, heard, chaos>>

\* A costlier model is admitted with an extra hold.
Admit ==
  /\ pc = "admit"
  /\ held' = IF Price[cand.model] > Price[model] THEN [held EXCEPT !.extra = @ + 1] ELSE held
  /\ Goto("call")
  /\ UNCHANGED <<settings, query, walk, flow, m, actual, settled, defers, reply, gone, panicked, outcome, heard, chaos>>

limit == Min({MaxAttempts, n + MaxTotalAttempts - spent})

\* Do has given up on the candidate.
MoveOn(e) ==
  /\ failed' = failed + 1
  /\ IF ShouldFallback(e) THEN i' = i + 1 /\ Goto("walk") ELSE UNCHANGED i /\ Goto("exhausted")

\* An attempt ends in an error: health hears of it, and Do retries or gives up.
AttemptFails(e) ==
  /\ calls' = calls + 1
  /\ verdicts' = [verdicts EXCEPT !.bad = @ + 1]
  /\ spent' = spent + 1 /\ n' = n + 1 /\ err' = e
  /\ IF e.retryable /\ n + 1 < limit THEN Goto("backoff") /\ UNCHANGED <<i, failed>> ELSE MoveOn(e)
  /\ UNCHANGED <<settings, query, chain, flow, m, ledger, reply, gone, panicked, outcome, chaos>>

ChaosFault ==
  /\ pc = "call"
  /\ injected(cand) \in {"error", "rate_limit", "drop"}
  /\ AttemptFails(chaosFault(injected(cand)))

\* Injected latency loses the race against the client's context.
ChaosDelayCut ==
  /\ pc = "call"
  /\ injected(cand) = "latency" /\ gone
  /\ AttemptFails(Typed("timeout"))

ChaosPanic ==
  /\ pc = "call"
  /\ injected(cand) = "panic"
  /\ panicked' = TRUE
  /\ Goto("unwind")
  /\ UNCHANGED <<settings, query, walk, flow, m, ledger, reply, gone, outcome, heard, chaos>>

dialect == Dialect[cand.provider]
reached == injected(cand) \in {"none", "latency"}

\* The upstream cannot be reached, refuses, or answers with something unusable.
upstreamErrors ==
  {NewTransportError(cause) : cause \in {"deadline", "reset"}}
    \cup {classify(dialect, refusal[1], refusal[2]) : refusal \in Refusals}
    \cup (IF ask.stream THEN {} ELSE UNION {translateResponse(dialect, body) : body \in Bodies})

CallFails ==
  /\ pc = "call" /\ reached
  /\ \E e \in upstreamErrors : AttemptFails(e)

Retry ==
  /\ pc = "backoff"
  /\ Goto("call")
  /\ UNCHANGED <<settings, query, walk, flow, m, ledger, reply, gone, panicked, outcome, heard, chaos>>

\* The client leaves during the pause.
RetryCut ==
  /\ pc = "backoff" /\ gone
  /\ MoveOn(err)
  /\ UNCHANGED <<settings, query, chain, n, spent, err, flow, m, ledger, reply, gone, panicked, outcome, heard, chaos>>

\* runChain returns with an answer or a reader: its tallies go with it.
Won == chain' = chain /\ i' = i /\ n' = 0 /\ spent' = 0 /\ failed' = 0 /\ err' = NoError

\* No candidate served: writeChainError.
Exhausted ==
  /\ pc = "exhausted"
  /\ Refuse(writeChainError)
  /\ UNCHANGED <<settings, query, walk, flow, m, ledger, gone, panicked, outcome, heard, chaos>>

-----------------------------------------------------------------------------
(* Cost.  A model without a price costs nothing and leaves a log line.     *)

Cost(mod, tokens) == IF mod \in DOMAIN Price THEN {Price[mod] * tokens} ELSE {}

\* recordCost, with the counterfactuals of routing and of a fallback.
recordCost(metrics, mod, tokens) ==
  LET cost == Cost(mod, tokens)
      priced(x) == [metrics EXCEPT !.cost = x,
                      !.savings = IF tier = "" THEN {} ELSE {b - x : b \in Cost(metrics.baseline, tokens)},
                      !.delta = IF metrics.fellBack /\ model # mod
                                THEN {x - b : b \in Cost(model, tokens)} ELSE {}]
  IN  IF cost = {} THEN metrics ELSE priced(CHOOSE x \in cost : TRUE)

metricsServed(name, tokens) ==
  [m EXCEPT !.served = name, !.fellBack = (cand # requested), !.tokens = tokens]

-----------------------------------------------------------------------------
(* A completion.                                                           *)

\* The cost is that of the model the upstream says it served.
Complete ==
  /\ pc = "call" /\ reached /\ ~ ask.stream
  /\ \E body \in Bodies :
       LET answer == Answer(dialect, body, cand.model)
           tokens == answer.in + answer.out
       IN  /\ translateResponse(dialect, body) = {}
           /\ m' = recordCost(metricsServed(answer.model, tokens), answer.model, tokens)
           /\ actual' = tokens
           /\ text' = answer.text /\ finish' = answer.finish
  /\ calls' = calls + 1
  /\ verdicts' = [verdicts EXCEPT !.ok = @ + 1]
  /\ Say("body", "json")
  /\ Won
  /\ Goto("store")
  /\ UNCHANGED <<settings, query, at, input, usage, sent, held, settled, defers, gone, panicked,
                 outcome, chaos>>

-----------------------------------------------------------------------------
(* A stream.  The upstream sends its script, and at any point may send an  *)
(* error event or garbage instead, break off, or fall silent.              *)

broken == {Event(type, 0, "", 0, 0) : type \in {"error", "malformed", "blocked"}}

\* Stream returns a reader; nothing has been read, and no verdict given.
Open ==
  /\ pc = "call" /\ reached /\ ask.stream
  /\ calls' = calls + 1
  /\ m' = metricsServed(cand.model, 0)
  /\ ctype' = "sse"
  /\ Won
  /\ Goto("recv")
  /\ UNCHANGED <<settings, query, flow, ledger, wire, wrote, gone, panicked,
                 outcome, verdicts, chaos>>

\* The upstream never answers: opening a stream has no deadline but the client's.
OpenStalls ==
  /\ pc = "call" /\ reached /\ ask.stream
  /\ Goto("stalled")
  /\ UNCHANGED <<settings, query, walk, flow, m, ledger, reply, gone, panicked, outcome, heard, chaos>>

OpenCut ==
  /\ pc = "stalled" /\ gone
  /\ AttemptFails(NewTransportError("cancelled"))

\* Mutant of streamedTokens: only what the provider reported counts.
streamedTokensReported(received, reported) ==
  IF reported = {} THEN 0 ELSE LET u == CHOOSE u \in reported : TRUE IN u.in + u.out

\* What a length in bytes is taken for: a token for every four, rounded up.
charsPerToken == 4
contentTokens(received) == (received + charsPerToken - 1) \div charsPerToken

\* What streamChatCompletions returns: the provider's last count, of whatever it
\* counted, or an estimate from the content when none came.
streamedTokens(received, reported) ==
  LET counted == IF reported = {} THEN 0 ELSE LET u == CHOOSE u \in reported : TRUE IN u.in + u.out
  IN  IF counted = 0 /\ received > 0 THEN estimateInputTokens + contentTokens(received) ELSE counted

Return(received, reported) == actual' = streamedTokens(received, reported) /\ Goto("unwind")

\* Mutant of StreamFails: a failure after the first chunk is not recorded.
StreamFailsUnheard(e) ==
  /\ IF gone THEN UNCHANGED <<reply, verdicts>>
     ELSE IF sent THEN Say("sse_error", "sse") /\ UNCHANGED verdicts
     ELSE /\ Say(writeProviderError(e), "json")
          /\ verdicts' = [verdicts EXCEPT !.bad = @ + 1]
  /\ Return(text, usage)

\* Recv failed.  A client that has left is told nothing and the provider not blamed;
\* before the first chunk the answer is an HTTP error, after it an error event.
StreamFails(e) ==
  /\ IF gone THEN UNCHANGED <<reply, verdicts>>
     ELSE /\ verdicts' = [verdicts EXCEPT !.bad = @ + 1]
          /\ IF sent THEN Say("sse_error", "sse") ELSE Say(writeProviderError(e), "json")
  /\ Return(text, usage)

\* A chunk is accumulated, and forwarded unless it is empty.
ReceiveEvent(event) ==
  LET decoded == decode(dialect, event, input)
  IN  /\ input' = inputAfter(dialect, event, input)
      /\ \/ /\ decoded.res = "skip"
            /\ UNCHANGED <<pc, text, finish, usage, sent, actual, reply, verdicts>>
         \/ /\ decoded.res = "done"
            /\ Goto("clean")
            /\ UNCHANGED <<text, finish, usage, sent, actual, reply, verdicts>>
         \/ /\ decoded.res = "fail"
            /\ StreamFails(decoded.err)
            /\ UNCHANGED <<text, finish, usage, sent>>
         \/ /\ decoded.res = "chunk"
            /\ text' = text + decoded.text
            /\ finish' = IF decoded.finish = "" THEN finish ELSE decoded.finish
            /\ usage' = IF decoded.usage = {} THEN usage ELSE decoded.usage
            /\ IF decoded.text = 0 /\ decoded.finish = ""
               THEN UNCHANGED <<pc, sent, actual, reply>>
               ELSE \/ Say("chunk", "sse") /\ sent' = TRUE /\ UNCHANGED <<pc, actual>>
                    \/ /\ gone            \* the write fails
                       /\ wrote' = TRUE
                       /\ Return(text', usage')
                       /\ UNCHANGED <<sent, wire, ctype>>
            /\ UNCHANGED verdicts

Receive ==
  /\ pc = "recv"
  /\ \/ at < Len(Script(dialect)) /\ ReceiveEvent(Script(dialect)[at + 1]) /\ at' = at + 1
     \/ \E event \in broken : ReceiveEvent(event) /\ UNCHANGED at
  /\ UNCHANGED <<settings, query, walk, m, held, settled, defers, gone, panicked, outcome, calls, chaos>>

\* The body ends; a reset is an error of no type.
ReceiveEnd ==
  /\ pc = "recv"
  /\ \/ Goto("clean") /\ UNCHANGED <<actual, reply, verdicts>>
     \/ StreamFails(Untyped)
  /\ UNCHANGED <<settings, query, walk, flow, m, held, settled, defers, gone, panicked, outcome, calls, chaos>>

\* The upstream falls silent: nothing in the gateway bounds the wait.
ReceiveStalls ==
  /\ pc = "recv"
  /\ Goto("silent")
  /\ UNCHANGED <<settings, query, walk, flow, m, ledger, reply, gone, panicked, outcome, heard, chaos>>

\* Mutant of ReceiveCut: the read is not bound to the client's context.
ReceiveCutNever == FALSE

\* The client's context ends the read, whatever the upstream does.
ReceiveCut ==
  /\ pc \in {"recv", "silent"} /\ gone
  /\ StreamFails(Untyped)
  /\ UNCHANGED <<settings, query, walk, flow, m, held, settled, defers, gone, panicked, outcome, calls, chaos>>

reportedTokens == streamedTokensReported(text, usage)

\* The end of the stream: health, cost, the terminator.
StreamEnds ==
  /\ pc = "clean"
  /\ verdicts' = [verdicts EXCEPT !.ok = @ + 1]
  /\ m' = recordCost([m EXCEPT !.tokens = reportedTokens], cand.model, reportedTokens)
  /\ \/ Say("done", "sse") /\ Goto("store") /\ UNCHANGED actual
     \/ gone /\ wrote' = TRUE /\ Return(text, usage) /\ UNCHANGED <<wire, ctype>>
  /\ UNCHANGED <<settings, query, walk, flow, held, settled, defers, gone, panicked, outcome, calls, chaos>>

\* Mutant of Cacheable: whatever there is of an answer is kept.
CacheableAnyway == text > 0

Cacheable == text > 0 /\ finish = "stop"

\* storeInCache (the lifetime policy may still say no), then considerQuality.
Store ==
  /\ pc = "store"
  /\ stored' \in (IF on.cache /\ Cacheable THEN BOOLEAN ELSE {FALSE})
  /\ considerQuality(text)
  /\ IF ask.stream THEN Return(text, usage) ELSE Goto("unwind") /\ UNCHANGED actual
  /\ UNCHANGED <<settings, query, walk, flow, m, held, settled, defers, reply, gone, panicked, row, heard, chaos>>

-----------------------------------------------------------------------------
(* The way out: the deferred settlements, last first, then the middleware. *)

settleAll(amounts, actually) == [k \in 1 .. Cardinality(amounts) |-> actually]

SettleBudget ==
  /\ pc = "unwind" /\ "budget" \in defers
  /\ settled' = [settled EXCEPT !.budget = @ \o settleAll(held.budget, m.cost), !.extra = held.extra]
  /\ defers' = defers \ {"budget"}
  /\ UNCHANGED <<pc, settings, query, walk, flow, m, actual, held, reply, gone, panicked, outcome, heard, chaos>>

\* Mutant of SettleTokens: a plain call at the end of the handler, which a panic skips.
SettleTokensOnReturn ==
  /\ pc = "unwind" /\ defers = {"tpm"}
  /\ settled' = IF panicked THEN settled
                ELSE [settled EXCEPT !.tpm = @ \o settleAll(held.tpm, actual)]
  /\ defers' = {}
  /\ UNCHANGED <<pc, settings, query, walk, flow, m, actual, held, reply, gone, panicked, outcome, heard, chaos>>

SettleTokens ==
  /\ pc = "unwind" /\ defers = {"tpm"}
  /\ settled' = [settled EXCEPT !.tpm = @ \o settleAll(held.tpm, actual)]
  /\ defers' = {}
  /\ UNCHANGED <<pc, settings, query, walk, flow, m, actual, held, reply, gone, panicked, outcome, heard, chaos>>

\* RequestLog: a row for a request that authenticated.
WriteRow ==
  /\ pc = "unwind" /\ defers = {} /\ ~ panicked
  /\ row' = IF team = NoTeam THEN {} ELSE {[cost |-> m.cost, tokens |-> m.tokens, served |-> m.served]}
  /\ Goto("end")
  /\ UNCHANGED <<settings, query, walk, flow, m, ledger, reply, gone, panicked, stored, offered, heard, chaos>>

\* Mutant of Recover: the error is written whatever has been sent.
RecoverBlindly ==
  /\ pc = "unwind" /\ defers = {} /\ panicked
  /\ Say("500", "json")
  /\ Goto("end")
  /\ UNCHANGED <<settings, query, walk, flow, m, ledger, gone, panicked, outcome, heard, chaos>>

\* Recoverer and respondToPanic: an error if nothing was written, an error event on a
\* stream, else nothing.  The middleware inside it never returns: no row.
Recover ==
  /\ pc = "unwind" /\ defers = {} /\ panicked
  /\ IF ~ wrote THEN Say("500", "json")
     ELSE IF ctype = "sse" THEN Say("sse_error", "sse")
     ELSE UNCHANGED reply
  /\ Goto("end")
  /\ UNCHANGED <<settings, query, walk, flow, m, ledger, gone, panicked, outcome, heard, chaos>>

\* Any step of the handler may panic.
Panic ==
  /\ pc \notin {"unwind", "end"}
  /\ panicked' = TRUE
  /\ Goto("unwind")
  /\ UNCHANGED <<settings, query, walk, flow, m, ledger, reply, gone, outcome, heard, chaos>>

\* The request's context ends.  Once the handler is unwinding nothing looks at it.
ClientLeaves ==
  /\ ~ gone /\ pc \notin {"unwind", "end"}
  /\ gone' = TRUE
  /\ UNCHANGED <<pc, settings, query, walk, flow, m, ledger, reply, panicked, outcome, heard, chaos>>

-----------------------------------------------------------------------------
Step ==
  \/ Auth \/ RateLimit \/ Decode \/ Route \/ AuthorizeModel \/ Resolve
  \/ ConsultCache \/ Replay \/ ReplayCut \/ ReserveTokens \/ ReserveBudget
  \/ NextCandidate \/ Skip \/ Admit \/ ChaosFault \/ ChaosDelayCut \/ ChaosPanic
  \/ CallFails \/ Retry \/ RetryCut \/ Exhausted
  \/ Complete \/ Open \/ OpenStalls \/ OpenCut
  \/ Receive \/ ReceiveEnd \/ ReceiveStalls \/ ReceiveCut \/ StreamEnds \/ Store
  \/ SettleBudget \/ SettleTokens \/ WriteRow \/ Recover

Next == Step \/ Panic \/ ClientLeaves \/ PostChaos \/ DeleteChaos

\* The handler's goroutine is scheduled, and what it waits for with a deadline answers
\* or times out.  Nothing is assumed of a stream: it may stall for good.
Spec == Init /\ [][Next]_vars /\ WF_vars(Step)

-----------------------------------------------------------------------------
ErrorStatuses == {"400", "401", "402", "403", "404", "413", "415", "429", "500", "502", "503", "504"}
chunksIn(w) == Cardinality({k \in DOMAIN w : w[k] = "chunk"})

\* However the handler is left (return, refusal, disconnect, panic), every reservation
\* is settled exactly once by the deferred calls of ChatCompletions, the budget with
\* the cost the request-log row reports.
SettledOnce ==
  pc = "end" =>
    /\ Len(settled.tpm) = Cardinality(held.tpm)
    /\ Len(settled.budget) = Cardinality(held.budget)
    /\ settled.extra = held.extra
    /\ \A r \in row, k \in DOMAIN settled.budget : settled.budget[k] = r.cost

\* The least that text received costs: the prompt, and a token for every four bytes of
\* content unless the provider's last word counted the prompt alone.
PromptOnly(reported) == \E u \in reported : u.in > 0 /\ u.out = 0
leastCharge(received, reported) ==
  IF received = 0 THEN 0
  ELSE estimateInputTokens + (IF PromptOnly(reported) THEN 0 ELSE contentTokens(received))

\* "Real generation still happened and still cost something" (streamChatCompletions):
\* unless the handler panicked, a stream that reached the client is never refunded
\* whole, however it ended: TPM is charged for the prompt and, unless a prompt-only
\* count took the estimate's place, for the content; and an answer that called no
\* provider is charged nothing.
WorkIsCharged ==
  pc = "end" =>
    /\ ~ panicked /\ chunksIn(wire) > 0 =>
         \A k \in DOMAIN settled.tpm : settled.tpm[k] >= leastCharge(text, usage)
    /\ calls = 0 => m.cost = 0 /\ \A k \in DOMAIN settled.tpm : settled.tpm[k] = 0

\* "No [DONE] follows an error", and no status follows a byte: a client is sent one
\* error, or one body, or chunks and then the terminator or an error event; one that
\* stays is always told the end.  Only a panic after the terminator adds to it.
OneEnding ==
  LET told == IF panicked /\ Len(wire) > 1 /\ wire[Len(wire)] = "sse_error" /\ wire[Len(wire) - 1] = "done"
              THEN Front(wire) ELSE wire
  IN  /\ \A k \in DOMAIN told : told[k] \in ErrorStatuses \cup {"body"} => Len(told) = 1
      /\ \A k \in DOMAIN told : told[k] \in {"done", "sse_error"} => k = Len(told)
      /\ pc = "end" /\ ~ gone => told # <<>> /\ told[Len(told)] # "chunk"

\* "A truncated response can never become a cache entry" (streamChatCompletions): only
\* a whole answer that the model ended itself is stored, in every dialect and however
\* the upstream stops.
CachedIsComplete == stored => text = WholeText /\ finish = "stop"

\* Health hears once of every call that came to an end (HealthRecorder: "once per real
\* provider call"), never twice, and of at most one success per request; only a call
\* that the client or a panic cut short may go unheard.
VerdictPerCall ==
  /\ verdicts.ok + verdicts.bad <= calls
  /\ pc = "end" /\ ~ gone /\ ~ panicked => verdicts.ok + verdicts.bad = calls
  /\ verdicts.ok <= 1

\* "An explicit model is never overridden", a pinned tier is never left, and "auto"
\* leaves the classifier's tier only upwards and only when the team may use nothing
\* in it.
RoutedWithinPolicy ==
  pc \in {"cache", "tokens", "budget", "walk"} =>
    /\ ~ on.routing \/ ask.model \notin Keywords => model = ask.model
    /\ tier # "" => /\ candidate(model) \in ToSet(tiers[tier])
                    /\ ask.model # AutoModel => tier = ask.model
                    /\ ask.model = AutoModel /\ tier # ask.level =>
                         /\ tier = Complex
                         /\ \A c \in ToSet(tiers[Simple]) : ~ allowed(c)

\* Once the client has left, the handler lets go of the upstream and of its
\* reservations, even if the upstream has stalled.
GoneReleases == gone ~> (pc = "end")

\* What the pricing rule says (handler.go: "every served model has a pricing entry by
\* construction"): an answer with tokens, logged as served, costs something.
ServedIsPriced == \A r \in row : calls > 0 /\ r.tokens > 0 => r.cost > 0
=============================================================================
