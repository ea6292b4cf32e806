------------------------------- MODULE Chain -------------------------------
(***************************************************************************)
(* One chat request on its way through model resolution, the fallback      *)
(* chain and the providers: proxy/handler.go (resolve, chainFor),          *)
(* resilience/fallback.go (BuildChain), proxy/fallback.go (runChain) and   *)
(* resilience/retry.go (Do).                                               *)
(*                                                                         *)
(* The request reads two things that change while it runs: the health      *)
(* monitor's verdict on a provider, read once per candidate and band, and  *)
(* the live configuration (cmd/gateway/reload.go), loaded anew by every    *)
(* lookup.  Breakers and the budget are seen through their verdicts, and   *)
(* may answer either way: Breaker and Budget model them.                   *)
(***************************************************************************)
EXTENDS Integers, Sequences, FiniteSets

CONSTANTS
  Providers, Models,
  NoProvider,         \* what a model no provider serves resolves to
  Config,             \* Config[m]: the provider of m when the request arrives
  Reconfigs,          \* configurations an operator may reload
  Requested,          \* the model asked for
  Tier,               \* its tier: a sequence of models, in declared order
  AllowedProviders, AllowedModels,   \* the team's allowlists
  MaxAttempts,        \* retry policy: calls per candidate
  MaxTotalAttempts,   \* and per request
  MaxFlaps,           \* health transitions while the request runs
  MaxReloads          \* configuration reloads while the request runs

ASSUME ChainAssumption ==
  /\ NoProvider \notin Providers
  /\ Config \in [Models -> Providers]
  /\ Reconfigs \subseteq [Models -> Providers \cup {NoProvider}]
  /\ Requested \in AllowedModels /\ AllowedModels \subseteq Models
  /\ Tier \in Seq(Models)
  /\ AllowedProviders \subseteq Providers
  /\ MaxAttempts \in Nat \ {0} /\ MaxTotalAttempts \in Nat \ {0}
  /\ MaxFlaps \in Nat /\ MaxReloads \in Nat

Statuses == {"healthy", "degraded", "down"}
Candidates == [provider : Providers \cup {NoProvider}, model : Models]

VARIABLES
  status,     \* status[p]: the health monitor's verdict
  config,     \* the live configuration
  pc,         \* the request's next step
  prov,       \* the provider the requested model resolved to
  permitted,  \* BuildChain: what the allowlists leave
  band, pos,  \* BuildChain: the status being collected, the next candidate to ask about
  chain,      \* the candidates to try, in order
  i,          \* the candidate being tried
  n,          \* Do: calls made to it
  err,        \* how its last call ended
  spent,      \* calls made to the candidates before it
  failures,   \* candidates recorded as failed or skipped
  gone,       \* the client has gone away
  flaps, reloads,  \* changes left
  seen,       \* history: seen[p]: verdicts on p since BuildChain began
  moved,      \* history: provider and model of every model a reload moved after the request
              \* had looked it up for the allowlist check
  called,     \* history: the provider and model of every call
  calls, tried,        \* history: calls made, candidates called at least once
  admitted, reported,  \* history: breaker admissions and reports
  late        \* history: candidates begun after the client had gone

walk == <<chain, i, n, err, spent, failures>>
build == <<permitted, band, pos>>
env == <<status, config, flaps, reloads, seen, moved>>
history == <<called, calls, tried, admitted, reported, late>>
vars == <<env, pc, prov, build, walk, gone, history>>

Steps == {"resolve", "tier", "band", "next", "allow", "admit", "call", "backoff", "report",
          "served", "failed", "forbidden", "unknown"}
Ended == {"served", "failed", "forbidden", "unknown"}
Outcomes == {"ok", "retryable", "final", "request"}

TypeOK ==
  /\ status \in [Providers -> Statuses]
  /\ config \in [Models -> Providers \cup {NoProvider}]
  /\ pc \in Steps
  /\ prov \in Providers \cup {NoProvider}
  /\ permitted \in Seq(Candidates) /\ chain \in Seq(Candidates)
  /\ band \in {"healthy", "degraded"} /\ pos \in 1 .. Len(permitted) + 1
  /\ i \in 0 .. Len(chain) + 1 /\ n \in 0 .. MaxAttempts
  /\ err \in Outcomes
  /\ spent \in 0 .. MaxTotalAttempts
  /\ failures \in 0 .. Len(chain)
  /\ gone \in BOOLEAN
  /\ flaps \in 0 .. MaxFlaps /\ reloads \in 0 .. MaxReloads
  /\ seen \in [Providers -> SUBSET Statuses]
  /\ moved \in SUBSET ((Providers \cup {NoProvider}) \X Models)
  /\ called \in SUBSET (Providers \X Models)
  /\ calls \in Nat /\ tried \in Nat /\ admitted \in Nat /\ reported \in Nat /\ late \in Nat

Init ==
  /\ status \in [Providers -> Statuses]
  /\ config = Config
  /\ pc = "resolve"
  /\ prov = NoProvider
  /\ permitted = <<>> /\ band = "healthy" /\ pos = 1
  /\ chain = <<>> /\ i = 0 /\ n = 0 /\ err = "ok" /\ spent = 0 /\ failures = 0
  /\ gone = FALSE
  /\ flaps = MaxFlaps /\ reloads = MaxReloads
  /\ seen = [p \in Providers |-> {}]
  /\ moved = {}
  /\ called = {} /\ calls = 0 /\ tried = 0 /\ admitted = 0 /\ reported = 0 /\ late = 0

-----------------------------------------------------------------------------
Goto(step) == pc' = step

\* resolve: ForModel on the live configuration.
Resolve ==
  /\ pc = "resolve"
  /\ prov' = config[Requested]
  /\ Goto(IF config[Requested] = NoProvider THEN "unknown" ELSE "tier")
  /\ UNCHANGED <<env, build, walk, gone, history>>

allowed(c) == c.provider \in AllowedProviders /\ c.model \in AllowedModels

\* The tier as the live configuration serves it: a model it dropped has no provider.
tierCandidates == [k \in DOMAIN Tier |-> [provider |-> config[Tier[k]], model |-> Tier[k]]]
options == <<[provider |-> prov, model |-> Requested]>> \o tierCandidates

\* The places of options that add takes: every candidate once, none without a provider.
ordered == {k \in DOMAIN options :
              options[k].provider # NoProvider /\ \A j \in 1 .. k - 1 : options[j] # options[k]}

\* Mutant of permit: the tier's candidates skip the allowlists.
permitAll == ordered

permit == {k \in ordered : allowed(options[k])}

Ascending(S) == {s \in [1 .. Cardinality(S) -> S] : \A j, k \in DOMAIN s : j < k => s[j] < s[k]}

\* chainFor and BuildChain, up to the health passes: the tier is looked up, the
\* requested candidate heads it, and the allowlists are applied.
BuildPermitted ==
  /\ pc = "tier"
  /\ \E places \in Ascending(permit) : permitted' = [k \in DOMAIN places |-> options[places[k]]]
  /\ Goto(IF permit = {} THEN "forbidden" ELSE "band")
  /\ seen' = [p \in Providers |-> {status[p]}]
  /\ UNCHANGED <<status, config, flaps, reloads, moved, prov, band, pos, walk, gone, history>>

\* One turn of BuildChain's two passes: one look at one provider's health.
CollectBand ==
  /\ pc = "band"
  /\ pos <= Len(permitted)
  /\ chain' = IF status[permitted[pos].provider] = band
              THEN Append(chain, permitted[pos]) ELSE chain
  /\ pos' = pos + 1
  /\ UNCHANGED <<env, pc, prov, permitted, band, i, n, err, spent, failures, gone, history>>

NextBand ==
  /\ pc = "band"
  /\ pos > Len(permitted)
  /\ band = "healthy"
  /\ band' = "degraded"
  /\ pos' = 1
  /\ UNCHANGED <<env, pc, prov, permitted, walk, gone, history>>

\* Nothing up: the permitted list comes back unfiltered.
finishedChain == IF chain = <<>> THEN permitted ELSE chain

FinishBuild ==
  /\ pc = "band"
  /\ pos > Len(permitted)
  /\ band = "degraded"
  /\ chain' = finishedChain
  /\ i' = 1
  /\ Goto("next")
  /\ UNCHANGED <<env, prov, build, n, err, spent, failures, gone, history>>

-----------------------------------------------------------------------------
remaining == MaxTotalAttempts - spent
callLimit == IF remaining < MaxAttempts THEN remaining ELSE MaxAttempts

\* The head of runChain's loop.
NextCandidate ==
  /\ pc = "next"
  /\ Goto(IF i > Len(chain) \/ remaining <= 0 \/ (i > 1 /\ gone) THEN "failed" ELSE "allow")
  /\ n' = 0
  /\ UNCHANGED <<env, prov, build, chain, i, err, spent, failures, gone, history>>

\* Mutant of Skip: the candidate is passed over without a word.
SkipSilently ==
  /\ i' = i + 1
  /\ Goto("next")
  /\ UNCHANGED failures

\* The candidate is recorded as skipped; the loop continues.
Skip ==
  /\ failures' = failures + 1
  /\ i' = i + 1
  /\ Goto("next")

BreakerRejects ==
  /\ pc = "allow"
  /\ Skip
  /\ UNCHANGED <<env, prov, build, chain, n, err, spent, gone, history>>

BreakerAdmits ==
  /\ pc = "allow"
  /\ admitted' = admitted + 1
  /\ late' = IF gone THEN late + 1 ELSE late
  /\ Goto("admit")
  /\ UNCHANGED <<env, prov, build, walk, gone, called, calls, tried, reported>>

\* chainBudget.admit refuses any model but the requested one, or the model does
\* not resolve: the breaker is not told.
CandidateSkipped ==
  /\ pc = "admit"
  /\ chain[i].model # Requested \/ config[chain[i].model] = NoProvider
  /\ Skip
  /\ UNCHANGED <<env, prov, build, chain, n, err, spent, gone, history>>

\* admit, then ForModel: the provider is looked up by the model alone.
CandidateReady ==
  /\ pc = "admit"
  /\ config[chain[i].model] # NoProvider
  /\ prov' = config[chain[i].model]
  /\ Goto("call")
  /\ UNCHANGED <<env, build, walk, gone, history>>

\* One attempt of Do: a retryable failure with calls left backs off.
ProviderCall ==
  /\ pc = "call"
  /\ n' = n + 1
  /\ called' = called \cup {<<prov, chain[i].model>>}
  /\ calls' = calls + 1
  /\ tried' = IF n = 0 THEN tried + 1 ELSE tried
  /\ err' \in Outcomes
  /\ Goto(IF err' = "retryable" /\ n' < callLimit THEN "backoff" ELSE "report")
  /\ UNCHANGED <<env, prov, build, chain, i, spent, failures, gone, admitted, reported, late>>

\* The sleep races the client's context.
BackoffOver ==
  /\ pc = "backoff"
  /\ Goto("call")
  /\ UNCHANGED <<env, prov, build, walk, gone, history>>

BackoffCut ==
  /\ pc = "backoff"
  /\ gone
  /\ Goto("report")
  /\ UNCHANGED <<env, prov, build, walk, gone, history>>

ShouldFallback == err # "request"

\* The breaker hears one verdict, and the walk ends or goes on.
Report ==
  /\ pc = "report"
  /\ spent' = spent + n
  /\ reported' = reported + 1
  /\ \/ /\ err = "ok"
        /\ Goto("served")
        /\ UNCHANGED <<failures, i>>
     \/ /\ err # "ok" /\ ShouldFallback
        /\ Skip
     \/ /\ err # "ok" /\ ~ ShouldFallback
        /\ failures' = failures + 1
        /\ Goto("failed")
        /\ UNCHANGED i
  /\ UNCHANGED <<env, prov, build, chain, n, err, gone, called, calls, tried, admitted, late>>

-----------------------------------------------------------------------------
\* The health monitor changes its mind about p.
Flap(p) ==
  /\ flaps > 0 /\ pc \notin Ended
  /\ flaps' = flaps - 1
  /\ \E s \in Statuses \ {status[p]} :
       /\ status' = [status EXCEPT ![p] = s]
       /\ seen' = IF pc = "band" THEN [seen EXCEPT ![p] = @ \cup {s}] ELSE seen
  /\ UNCHANGED <<config, reloads, moved, pc, prov, build, walk, gone, history>>

\* The request has the provider of m it will put to the allowlists: resolve takes the
\* requested model's, chainFor the others'.
LookedUp(m) == pc \notin IF m = Requested THEN {"resolve"} ELSE {"resolve", "tier"}

\* POST /admin/reload.
Reload ==
  /\ reloads > 0 /\ pc \notin Ended
  /\ reloads' = reloads - 1
  /\ config' \in Reconfigs
  /\ moved' = moved \cup {<<config'[m], m>> : m \in {k \in Models : LookedUp(k) /\ config'[k] # config[k]}}
  /\ UNCHANGED <<status, flaps, seen, pc, prov, build, walk, gone, history>>

ClientGone ==
  /\ ~ gone /\ pc \notin Ended
  /\ gone' = TRUE
  /\ UNCHANGED <<env, pc, prov, build, walk, history>>

\* Every step of the request.
Step ==
  \/ Resolve \/ BuildPermitted \/ CollectBand \/ NextBand \/ FinishBuild
  \/ NextCandidate \/ BreakerRejects \/ BreakerAdmits
  \/ CandidateSkipped \/ CandidateReady
  \/ ProviderCall \/ BackoffOver \/ BackoffCut \/ Report

Next == Step \/ (\E p \in Providers : Flap(p)) \/ Reload \/ ClientGone

Spec == Init /\ [][Next]_vars

-----------------------------------------------------------------------------
In(c, s) == \E k \in DOMAIN s : s[k] = c
Before(c, d, s) == \E k, l \in DOMAIN s : s[k] = c /\ s[l] = d /\ k < l
Steady(c, s) == seen[c.provider] = {s}

\* Rules 1 and 3 of BuildChain, as far as the verdicts stand still while it
\* runs: a provider that is up throughout is tried, one that is healthy
\* throughout comes before one that is degraded throughout, candidates of one
\* band keep their declared order, and one that is down throughout is dropped
\* while another is up.
HealthOrdersChain ==
  pc \in {"next", "allow"} /\ i = 1 =>
    \A k \in DOMAIN permitted :
      LET c == permitted[k]
      IN  /\ Steady(c, "healthy") \/ Steady(c, "degraded") => In(c, chain)
          /\ \A l \in DOMAIN permitted :
               LET d == permitted[l]
               IN  /\ Steady(c, "healthy") /\ Steady(d, "degraded") => Before(c, d, chain)
                   /\ k < l /\ seen[c.provider] = seen[d.provider]
                      /\ (Steady(c, "healthy") \/ Steady(c, "degraded"))
                        => Before(c, d, chain)
                   /\ Steady(c, "down") /\ ~ Steady(d, "down") /\ Cardinality(seen[d.provider]) = 1
                        => ~ In(c, chain)

\* Rules 2 and 4: whatever health says, and however the walk goes, no model outside
\* the team's allowlist is called, and a provider outside it only for a model that a
\* reload moved to it between the request's allowlist check and runChain's second
\* lookup, which asks for the model alone.  A candidate that was refused, one the
\* configuration put with such a provider all along, and one that a reload moved there
\* before the check are never called.
AvailabilityNeverOverridesAuthorization ==
  \A call \in called :
    call[2] \in AllowedModels /\ (call[1] \in AllowedProviders \/ call \in moved)

\* Config.MaxTotalAttempts bounds the calls of the whole request, however many
\* candidates and retries there are.
AttemptsBounded == calls <= MaxTotalAttempts

\* Every candidate the walk is past is in failures exactly once: the 503
\* breakdown is complete, and logFallback always has a previous failure to name.
FailuresAccountForWalk ==
  pc \in {"next", "allow", "admit", "call", "backoff", "report"} => failures = i - 1

\* "The breaker hears one verdict per candidate, not one per retry": by the end
\* as many verdicts as candidates that were called, and never one that was not
\* preceded by an admission.
OneVerdictPerCandidate ==
  /\ reported <= admitted
  /\ pc \in Ended => reported = tried

\* A gone client costs at most the candidate already past the check.
ClientGoneStopsWalk == late <= 1

\* The walk of runChain along the chain BuildChain made, as one invariant: order, bound
\* and bookkeeping hold together whatever health, the configuration and the client do.
WalkIsOrderly ==
  /\ HealthOrdersChain
  /\ AttemptsBounded
  /\ FailuresAccountForWalk
  /\ OneVerdictPerCandidate
  /\ ClientGoneStopsWalk
=============================================================================
