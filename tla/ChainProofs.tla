----------------------------- MODULE ChainProofs -----------------------------
(***************************************************************************)
(* Chain for any providers, models, tier, allowlists and attempt limits,   *)
(* and any number of health flaps and reloads: who is called, in which     *)
(* order, how often, and what is written down about it.                    *)
(***************************************************************************)
EXTENDS Chain, TeamStore, FiniteSetTheorems, TLAPS

Building == {"resolve", "tier", "band", "forbidden", "unknown"}
Choosing == {"next", "allow", "admit"}
Calling == {"call", "backoff", "report"}

-----------------------------------------------------------------------------
(* The walk: where it is, and how many calls it has made.                  *)

Counts ==
  /\ i \in Nat /\ n \in Nat /\ spent \in Nat /\ failures \in Nat /\ calls \in Nat
  /\ tried \in Nat /\ admitted \in Nat /\ reported \in Nat /\ late \in Nat

WalkIsSound ==
  /\ pc \in Steps /\ gone \in BOOLEAN /\ chain \in Seq(Candidates)
  /\ pc \in Building => /\ i = 0 /\ n = 0 /\ spent = 0 /\ failures = 0 /\ calls = 0
                        /\ tried = 0 /\ admitted = 0 /\ reported = 0 /\ late = 0
  /\ pc \in Choosing \cup Calling => i >= 1 /\ failures = i - 1
  /\ pc = "next" => i <= Len(chain) + 1
  /\ pc \in {"allow", "admit"} \cup Calling => i <= Len(chain) /\ spent < MaxTotalAttempts
  /\ pc \in {"allow", "admit"} => n = 0
  /\ pc \in Choosing \cup {"served", "failed"} => calls = spent /\ tried = reported
  /\ pc \in Calling => calls = spent + n
  /\ pc \in {"call", "backoff"} => n < MaxAttempts /\ spent + n < MaxTotalAttempts
  /\ pc \in {"backoff", "report"} => n >= 1
  /\ pc \in Calling => tried = (IF n = 0 THEN reported ELSE reported + 1)
  /\ pc \in {"admit"} \cup Calling => reported < admitted
  /\ calls <= MaxTotalAttempts /\ reported <= admitted
  /\ late <= 1
  /\ late = 1 => gone
  /\ pc = "next" /\ late = 1 => i > 1
  /\ pc = "allow" => late = 0

-----------------------------------------------------------------------------
(* The chain: what the passes of BuildChain have collected so far.         *)

pastHealthy(k) == band = "degraded" \/ k < pos
pastDegraded(k) == band = "degraded" /\ k < pos

Collected ==
  /\ \A p \in Providers : status[p] \in seen[p]
  /\ \A k \in DOMAIN chain : chain[k].provider \in Providers /\ ~ Steady(chain[k], "down")
  /\ \A k \in DOMAIN permitted :
       /\ pastHealthy(k) /\ Steady(permitted[k], "healthy") => In(permitted[k], chain)
       /\ pastDegraded(k) /\ Steady(permitted[k], "degraded") => In(permitted[k], chain)
  /\ \A k, l \in DOMAIN permitted :
       /\ k < l /\ pastHealthy(l) /\ Steady(permitted[k], "healthy") /\ Steady(permitted[l], "healthy")
            => Before(permitted[k], permitted[l], chain)
       /\ k < l /\ pastDegraded(l) /\ Steady(permitted[k], "degraded") /\ Steady(permitted[l], "degraded")
            => Before(permitted[k], permitted[l], chain)
       /\ pastDegraded(l) /\ Steady(permitted[k], "healthy") /\ Steady(permitted[l], "degraded")
            => Before(permitted[k], permitted[l], chain)

BuildIsSound ==
  /\ status \in [Providers -> Statuses] /\ seen \in [Providers -> SUBSET Statuses]
  /\ config \in [Models -> Providers \cup {NoProvider}] /\ prov \in Providers \cup {NoProvider}
  /\ permitted \in Seq([provider : Providers, model : Models])
  /\ band \in {"healthy", "degraded"} /\ pos \in Nat \ {0}
  /\ pc \in {"resolve", "tier", "unknown"} => chain = <<>> /\ band = "healthy" /\ pos = 1
  /\ pc = "band" => Collected
  /\ pc = "band" => permitted # <<>>

ChainInv == WalkIsSound /\ Counts /\ BuildIsSound /\ HealthOrdersChain

-----------------------------------------------------------------------------
LEMMA Constants ==
  /\ MaxAttempts \in Nat \ {0} /\ MaxTotalAttempts \in Nat \ {0}
  /\ AllowedProviders \subseteq Providers /\ AllowedModels \subseteq Models
  /\ Requested \in Models /\ Tier \in Seq(Models) /\ NoProvider \notin Providers
BY ChainAssumption

LEMMA ElementsOf ==
  ASSUME NEW S, NEW s \in Seq(S)
  PROVE  Len(s) \in Nat /\ DOMAIN s = 1 .. Len(s) /\ \A k \in DOMAIN s : s[k] \in S
OBVIOUS

LEMMA ListOf ==
  ASSUME NEW S, NEW m \in Nat, NEW s \in [1 .. m -> S]
  PROVE  s \in Seq(S) /\ DOMAIN s = 1 .. m
OBVIOUS

LEMMA EmptyList ==
  ASSUME NEW S
  PROVE  <<>> \in Seq(S)
OBVIOUS

LEMMA PermittedAreCandidates ==
  ASSUME BuildIsSound
  PROVE  /\ permitted \in Seq(Candidates) /\ Len(permitted) \in Nat
         /\ \A k \in DOMAIN permitted : permitted[k] \in Candidates
                                        /\ permitted[k].provider \in Providers
<1>1. permitted \in Seq([provider : Providers, model : Models])
  BY DEF BuildIsSound
<1>2. Len(permitted) \in Nat /\ DOMAIN permitted = 1 .. Len(permitted)
  BY <1>1
<1>3. \A k \in DOMAIN permitted : permitted[k] \in [provider : Providers, model : Models]
  BY <1>1, ElementsOf
<1>4. \A k \in DOMAIN permitted : permitted[k] \in Candidates /\ permitted[k].provider \in Providers
  BY <1>3 DEF Candidates
<1>5. permitted \in [1 .. Len(permitted) -> Candidates]
  BY <1>1, <1>2, <1>4
<1> QED  BY <1>2, <1>4, <1>5

LEMMA CountsKept ==
  ASSUME ChainInv, [Next]_vars
  PROVE  Counts'
<1> USE DEF env, build, walk, history, Goto
<1>1. Counts /\ WalkIsSound
  BY DEF ChainInv
<1>2. CASE Resolve \/ BuildPermitted \/ CollectBand \/ NextBand \/ FinishBuild \/ NextCandidate
  BY <1>1, <1>2 DEF Resolve, BuildPermitted, CollectBand, NextBand, FinishBuild, NextCandidate, Counts
<1>3. CASE BreakerRejects \/ BreakerAdmits \/ CandidateSkipped \/ CandidateReady
  BY <1>1, <1>3 DEF BreakerRejects, BreakerAdmits, CandidateSkipped, CandidateReady, Skip, Counts
<1>4. CASE ProviderCall \/ BackoffOver \/ BackoffCut
  BY <1>1, <1>4 DEF ProviderCall, BackoffOver, BackoffCut, Counts
<1>5. CASE Report
  BY <1>1, <1>5 DEF Report, Skip, Counts
<1>6. CASE (\E p \in Providers : Flap(p)) \/ Reload \/ ClientGone \/ UNCHANGED vars
  BY <1>1, <1>6 DEF Flap, Reload, ClientGone, vars, Counts
<1> QED  BY <1>2, <1>3, <1>4, <1>5, <1>6 DEF Next, Step

LEMMA WalkKept ==
  ASSUME ChainInv, [Next]_vars
  PROVE  WalkIsSound'
<1> USE DEF env, build, walk, history, Goto, Building, Choosing, Calling, Steps
<1>1. Counts /\ WalkIsSound /\ BuildIsSound /\ Len(chain) \in Nat
      /\ MaxAttempts \in Nat \ {0} /\ MaxTotalAttempts \in Nat \ {0}
  BY Constants DEF ChainInv, WalkIsSound
<1>2. CASE Resolve
  BY <1>1, <1>2 DEF Resolve, Counts, WalkIsSound
<1>3. CASE BuildPermitted
  BY <1>1, <1>3 DEF BuildPermitted, Counts, WalkIsSound
<1>4. CASE CollectBand
  <2>1. permitted[pos] \in Candidates /\ chain \in Seq(Candidates)
    BY <1>1, <1>4, PermittedAreCandidates DEF CollectBand, BuildIsSound, WalkIsSound
  <2>2. chain' \in Seq(Candidates)
    BY <1>4, <2>1 DEF CollectBand
  <2> QED  BY <1>1, <1>4, <2>2 DEF CollectBand, Counts, WalkIsSound
<1>5. CASE NextBand
  BY <1>1, <1>5 DEF NextBand, Counts, WalkIsSound
<1>6. CASE FinishBuild
  <2>1. chain' \in Seq(Candidates)
    BY <1>1, <1>6, PermittedAreCandidates DEF FinishBuild, finishedChain, WalkIsSound
  <2>2. Len(chain') \in Nat
    BY <2>1
  <2> QED  BY <1>1, <1>6, <2>1, <2>2 DEF FinishBuild, Counts, WalkIsSound
<1>7. CASE NextCandidate
  BY <1>1, <1>7 DEF NextCandidate, remaining, Counts, WalkIsSound
<1>8. CASE BreakerRejects
  BY <1>1, <1>8 DEF BreakerRejects, Skip, Counts, WalkIsSound
<1>9. CASE BreakerAdmits
  BY <1>1, <1>9 DEF BreakerAdmits, Counts, WalkIsSound
<1>10. CASE CandidateSkipped
  BY <1>1, <1>10 DEF CandidateSkipped, Skip, Counts, WalkIsSound
<1>11. CASE CandidateReady
  BY <1>1, <1>11 DEF CandidateReady, Counts, WalkIsSound
<1>12. CASE ProviderCall
  BY <1>1, <1>12 DEF ProviderCall, callLimit, remaining, Counts, WalkIsSound
<1>13. CASE BackoffOver
  BY <1>1, <1>13 DEF BackoffOver, Counts, WalkIsSound
<1>14. CASE BackoffCut
  BY <1>1, <1>14 DEF BackoffCut, Counts, WalkIsSound
<1>15. CASE Report
  BY <1>1, <1>15 DEF Report, Skip, Counts, WalkIsSound
<1>16. CASE \E p \in Providers : Flap(p)
  BY <1>1, <1>16 DEF Flap, WalkIsSound
<1>17. CASE Reload
  BY <1>1, <1>17 DEF Reload, WalkIsSound
<1>18. CASE ClientGone
  BY <1>1, <1>18 DEF ClientGone, WalkIsSound
<1>19. CASE UNCHANGED vars
  BY <1>1, <1>19 DEF vars, WalkIsSound
<1> QED  BY <1>2, <1>3, <1>4, <1>5, <1>6, <1>7, <1>8, <1>9, <1>10, <1>11, <1>12, <1>13, <1>14, <1>15,
            <1>16, <1>17, <1>18, <1>19 DEF Next, Step

-----------------------------------------------------------------------------
(* What the two passes collect.                                            *)

LEMMA InAppend ==
  ASSUME NEW s \in Seq(Candidates), NEW x \in Candidates
  PROVE  /\ In(x, Append(s, x))
         /\ \A c : In(c, s) => In(c, Append(s, x)) /\ Before(c, x, Append(s, x))
         /\ \A c, d : Before(c, d, s) => Before(c, d, Append(s, x))
         /\ \A k \in DOMAIN Append(s, x) : Append(s, x)[k] = x \/ In(Append(s, x)[k], s)
<1> DEFINE t == Append(s, x)
<1>1. /\ DOMAIN s = 1 .. Len(s) /\ DOMAIN t = 1 .. Len(s) + 1 /\ Len(s) \in Nat
      /\ \A k \in DOMAIN s : t[k] = s[k]
      /\ t[Len(s) + 1] = x
  OBVIOUS
<1> HIDE DEF t
<1>2. \A k \in DOMAIN s : k \in DOMAIN t /\ k < Len(s) + 1
  BY <1>1
<1>3. Len(s) + 1 \in DOMAIN t
  BY <1>1
<1>4. In(x, t)
  BY <1>1, <1>3 DEF In
<1>5. ASSUME NEW c, In(c, s)
      PROVE  In(c, t) /\ Before(c, x, t)
  <2>1. PICK k \in DOMAIN s : s[k] = c
    BY <1>5 DEF In
  <2>2. k \in DOMAIN t /\ t[k] = c /\ k < Len(s) + 1
    BY <1>1, <1>2, <2>1
  <2> QED  BY <1>1, <1>3, <2>2 DEF In, Before
<1>6. ASSUME NEW c, NEW d, Before(c, d, s)
      PROVE  Before(c, d, t)
  BY <1>1, <1>2, <1>6 DEF Before
<1>7. ASSUME NEW k \in DOMAIN t
      PROVE  t[k] = x \/ In(t[k], s)
  <2>1. k \in DOMAIN s \/ k = Len(s) + 1
    BY <1>1
  <2> QED  BY <1>1, <2>1 DEF In
<1> QED  BY <1>4, <1>5, <1>6, <1>7 DEF t

\* The verdicts' history of a flapping provider only grows past one verdict.
LEMMA FlapUnsteadies ==
  ASSUME BuildIsSound, Collected, pc = "band", NEW p \in Providers, Flap(p)
  PROVE  /\ \A q \in Providers : status'[q] \in seen'[q]
         /\ \A q \in Providers, s \in Statuses : seen'[q] = {s} => seen[q] = {s}
<1>1. PICK s \in Statuses \ {status[p]} : status' = [status EXCEPT ![p] = s]
                                        /\ seen' = [seen EXCEPT ![p] = @ \cup {s}]
  BY DEF Flap
<1>2. status \in [Providers -> Statuses] /\ seen \in [Providers -> SUBSET Statuses]
      /\ \A q \in Providers : status[q] \in seen[q]
  BY DEF BuildIsSound, Collected
<1>3. status'[p] = s /\ seen'[p] = seen[p] \cup {s} /\ status[p] \in seen[p] /\ s # status[p]
  BY <1>1, <1>2
<1>4. \A q \in Providers \ {p} : status'[q] = status[q] /\ seen'[q] = seen[q]
  BY <1>1, <1>2
<1> QED  BY <1>2, <1>3, <1>4

LEMMA CollectBandKeeps ==
  ASSUME WalkIsSound, BuildIsSound, CollectBand
  PROVE  Collected'
<1>1. pc = "band" /\ Collected /\ chain \in Seq(Candidates) /\ pos \in Nat \ {0}
      /\ band \in {"healthy", "degraded"} /\ pos <= Len(permitted)
  BY DEF CollectBand, BuildIsSound, WalkIsSound
<1>2. UNCHANGED <<status, seen, permitted, band>> /\ pos' = pos + 1
  BY DEF CollectBand, env
<1>3. DOMAIN permitted = 1 .. Len(permitted) /\ Len(permitted) \in Nat
      /\ \A k \in DOMAIN permitted : permitted[k] \in Candidates /\ permitted[k].provider \in Providers
  BY PermittedAreCandidates, ElementsOf DEF BuildIsSound
<1> DEFINE x == permitted[pos]
<1>4. pos \in DOMAIN permitted
  BY <1>1, <1>3
<1>5. x \in Candidates /\ x.provider \in Providers /\ status[x.provider] \in seen[x.provider]
  BY <1>1, <1>3, <1>4 DEF Collected
<1>6. chain' = IF status[x.provider] = band THEN Append(chain, x) ELSE chain
  BY DEF CollectBand
<1> HIDE DEF x
<1>7. /\ \A c : In(c, chain) => In(c, chain')
      /\ \A c, d : Before(c, d, chain) => Before(c, d, chain')
  BY <1>1, <1>5, <1>6, InAppend
<1>8. Steady(x, band) => In(x, chain') /\ \A c : In(c, chain) => Before(c, x, chain')
  BY <1>1, <1>5, <1>6, InAppend DEF Steady
<1>9. \A k \in DOMAIN chain' : chain'[k].provider \in Providers /\ ~ Steady(chain'[k], "down")
  <2>1. CASE status[x.provider] = band
    <3>1. seen[x.provider] # {"down"}
      BY <1>1, <1>5, <2>1
    <3>2. \A k \in DOMAIN chain' : chain'[k] = x \/ In(chain'[k], chain)
      BY <1>1, <1>5, <1>6, <2>1, InAppend
    <3>3. \A c : In(c, chain) => c.provider \in Providers /\ ~ Steady(c, "down")
      BY <1>1 DEF Collected, In
    <3> QED  BY <1>5, <3>1, <3>2, <3>3 DEF Steady
  <2>2. CASE status[x.provider] # band
    BY <1>1, <1>6, <2>2 DEF Collected
  <2> QED  BY <2>1, <2>2
<1>10. \A k \in DOMAIN permitted : (k < pos + 1) <=> (k < pos \/ k = pos)
  BY <1>1, <1>3
<1>11. ASSUME NEW k \in DOMAIN permitted
       PROVE  /\ pastHealthy(k)' /\ Steady(permitted[k], "healthy") => In(permitted[k], chain')
              /\ pastDegraded(k)' /\ Steady(permitted[k], "degraded") => In(permitted[k], chain')
  <2>1. /\ pastHealthy(k) /\ Steady(permitted[k], "healthy") => In(permitted[k], chain')
        /\ pastDegraded(k) /\ Steady(permitted[k], "degraded") => In(permitted[k], chain')
    BY <1>1, <1>7 DEF Collected
  <2>2. /\ pastHealthy(k)' => pastHealthy(k) \/ (band = "healthy" /\ k = pos)
        /\ pastDegraded(k)' => pastDegraded(k) \/ (band = "degraded" /\ k = pos)
    BY <1>1, <1>2, <1>10 DEF pastHealthy, pastDegraded
  <2> QED  BY <1>8, <2>1, <2>2 DEF x
<1>12. ASSUME NEW k \in DOMAIN permitted, NEW l \in DOMAIN permitted
       PROVE  /\ k < l /\ pastHealthy(l)' /\ Steady(permitted[k], "healthy") /\ Steady(permitted[l], "healthy")
                   => Before(permitted[k], permitted[l], chain')
              /\ k < l /\ pastDegraded(l)' /\ Steady(permitted[k], "degraded") /\ Steady(permitted[l], "degraded")
                   => Before(permitted[k], permitted[l], chain')
              /\ pastDegraded(l)' /\ Steady(permitted[k], "healthy") /\ Steady(permitted[l], "degraded")
                   => Before(permitted[k], permitted[l], chain')
  <2>1. /\ k < l /\ pastHealthy(l) /\ Steady(permitted[k], "healthy") /\ Steady(permitted[l], "healthy")
             => Before(permitted[k], permitted[l], chain')
        /\ k < l /\ pastDegraded(l) /\ Steady(permitted[k], "degraded") /\ Steady(permitted[l], "degraded")
             => Before(permitted[k], permitted[l], chain')
        /\ pastDegraded(l) /\ Steady(permitted[k], "healthy") /\ Steady(permitted[l], "degraded")
             => Before(permitted[k], permitted[l], chain')
    BY <1>1, <1>7 DEF Collected
  <2>2. /\ pastHealthy(l)' => pastHealthy(l) \/ (band = "healthy" /\ l = pos)
        /\ pastDegraded(l)' => pastDegraded(l) \/ (band = "degraded" /\ l = pos)
    BY <1>1, <1>2, <1>10 DEF pastHealthy, pastDegraded
  <2>3. /\ pastHealthy(k) /\ Steady(permitted[k], "healthy") => In(permitted[k], chain)
        /\ pastDegraded(k) /\ Steady(permitted[k], "degraded") => In(permitted[k], chain)
    BY <1>1 DEF Collected
  <2>4. /\ band = "healthy" /\ k < pos => pastHealthy(k)
        /\ band = "degraded" => pastHealthy(k)
        /\ band = "degraded" /\ k < pos => pastDegraded(k)
    BY DEF pastHealthy, pastDegraded
  <2>5. l = pos => (Steady(permitted[l], band) => \A c : In(c, chain) => Before(c, permitted[l], chain'))
    BY <1>8 DEF x
  <2> QED  BY <2>1, <2>2, <2>3, <2>4, <2>5
<1> QED  BY <1>1, <1>2, <1>9, <1>11, <1>12 DEF Collected, Steady

LEMMA BuildPermittedKeeps ==
  ASSUME WalkIsSound, BuildIsSound, BuildPermitted
  PROVE  /\ permitted' \in Seq([provider : Providers, model : Models])
         /\ permit # {} => permitted' # <<>>
         /\ \A k \in DOMAIN permitted' : \E l \in permit : permitted'[k] = options[l]
<1>1. config \in [Models -> Providers \cup {NoProvider}] /\ prov \in Providers \cup {NoProvider}
      /\ Tier \in Seq(Models) /\ Requested \in Models
  BY Constants DEF BuildIsSound
<1>2. Len(Tier) \in Nat /\ DOMAIN Tier = 1 .. Len(Tier) /\ \A k \in DOMAIN Tier : Tier[k] \in Models
  BY <1>1, ElementsOf
<1>3. tierCandidates \in Seq(Candidates)
  <2>1. \A k \in 1 .. Len(Tier) : [provider |-> config[Tier[k]], model |-> Tier[k]] \in Candidates
    BY <1>1, <1>2 DEF Candidates
  <2> QED  BY <1>2, <2>1 DEF tierCandidates
<1>4. options \in Seq(Candidates)
  <2>1. [provider |-> prov, model |-> Requested] \in Candidates
    BY <1>1 DEF Candidates
  <2> QED  BY <1>3, <2>1 DEF options
<1>5. Len(options) \in Nat /\ DOMAIN options = 1 .. Len(options)
      /\ \A k \in DOMAIN options : options[k] \in Candidates
  BY <1>4, ElementsOf
<1>6. permit \subseteq 1 .. Len(options)
      /\ \A k \in permit : options[k] \in [provider : Providers, model : Models]
  BY <1>5 DEF permit, ordered, Candidates
<1>7. IsFiniteSet(permit) /\ Cardinality(permit) \in Nat /\ (permit # {} => Cardinality(permit) # 0)
  <2>1. IsFiniteSet(1 .. Len(options))
    BY <1>5, FS_Interval
  <2>2. IsFiniteSet(permit)
    BY <1>6, <2>1, FS_Subset
  <2> QED  BY <2>2, FS_CardinalityType, FS_EmptySet
<1> DEFINE c == Cardinality(permit)
<1>8. PICK places \in [1 .. c -> permit] : permitted' = [k \in 1 .. c |-> options[places[k]]]
  BY DEF BuildPermitted, Ascending
<1>9. c \in Nat /\ (permit # {} => c # 0)
  BY <1>7
<1> HIDE DEF c
<1>10. \A k \in 1 .. c : places[k] \in permit
               /\ options[places[k]] \in [provider : Providers, model : Models]
  BY <1>6, <1>8
<1>11. permitted' \in [1 .. c -> [provider : Providers, model : Models]]
  BY <1>8, <1>10
<1>12. permitted' \in Seq([provider : Providers, model : Models]) /\ DOMAIN permitted' = 1 .. c
  BY <1>9, <1>11, ListOf
<1>13. permit # {} => permitted' # <<>>
  <2>1. SUFFICES ASSUME permit # {}
                 PROVE  1 \in DOMAIN permitted'
    OBVIOUS
  <2> QED  BY <1>9, <1>12, <2>1
<1>14. ASSUME NEW k \in DOMAIN permitted'
       PROVE  \E l \in permit : permitted'[k] = options[l]
  BY <1>8, <1>10, <1>12
<1> QED  BY <1>12, <1>13, <1>14

LEMMA BuildKept ==
  ASSUME ChainInv, [Next]_vars
  PROVE  BuildIsSound'
<1> USE DEF env, build, walk, history, Goto
<1>1. Counts /\ WalkIsSound /\ BuildIsSound
  BY DEF ChainInv
<1>2. CASE Resolve
  <2>1. config[Requested] \in Providers \cup {NoProvider}
    BY <1>1, Constants DEF BuildIsSound
  <2>2. UNCHANGED <<status, seen, config, permitted, band, pos, chain>> /\ pc = "resolve"
        /\ prov' = config[Requested] /\ pc' \in {"tier", "unknown"}
    BY <1>2 DEF Resolve
  <2> QED  BY <1>1, <2>1, <2>2 DEF BuildIsSound
<1>3. CASE BuildPermitted
  <2>1. /\ UNCHANGED <<status, config, prov, band, pos, chain>> /\ pc = "tier"
        /\ seen' = [p \in Providers |-> {status[p]}]
        /\ pc' = IF permit = {} THEN "forbidden" ELSE "band"
    BY <1>3 DEF BuildPermitted
  <2>2. status \in [Providers -> Statuses] /\ chain = <<>> /\ band = "healthy" /\ pos = 1
    BY <1>1, <2>1 DEF BuildIsSound
  <2>3. seen' \in [Providers -> SUBSET Statuses] /\ \A p \in Providers : status'[p] \in seen'[p]
    BY <2>1, <2>2
  <2>4. permitted' \in Seq([provider : Providers, model : Models]) /\ (pc' = "band" => permitted' # <<>>)
    BY <1>1, <1>3, <2>1, BuildPermittedKeeps
  <2>5. Collected'
    <3>1. \A k \in DOMAIN permitted' : ~ pastHealthy(k)' /\ ~ pastDegraded(k)'
      <4>1. DOMAIN permitted' = 1 .. Len(permitted') /\ Len(permitted') \in Nat
        BY <2>4, ElementsOf
      <4>2. \A k \in DOMAIN permitted' : ~ (k < 1)
        BY <4>1
      <4> QED  BY <2>1, <2>2, <4>2 DEF pastHealthy, pastDegraded
    <3>2. DOMAIN chain' = {}
      BY <2>1, <2>2
    <3> QED  BY <2>3, <3>1, <3>2 DEF Collected
  <2> QED  BY <1>1, <2>1, <2>3, <2>4, <2>5 DEF BuildIsSound
<1>4. CASE CollectBand
  <2>1. UNCHANGED <<status, seen, config, prov, permitted, band>> /\ pos' = pos + 1
        /\ pc = "band" /\ pc' = "band"
    BY <1>4 DEF CollectBand
  <2> QED  BY <1>1, <1>4, <2>1, CollectBandKeeps DEF BuildIsSound
<1>5. CASE NextBand
  <2>1. UNCHANGED <<status, seen, config, prov, permitted, chain>> /\ pos' = 1 /\ band' = "degraded"
        /\ pc = "band" /\ pc' = "band" /\ band = "healthy" /\ pos > Len(permitted)
    BY <1>5 DEF NextBand
  <2>2. \A k \in DOMAIN permitted : pastHealthy(k) /\ ~ pastDegraded(k)'
    <3>1. DOMAIN permitted = 1 .. Len(permitted) /\ Len(permitted) \in Nat /\ pos \in Nat
      BY <1>1, ElementsOf DEF BuildIsSound
    <3>2. \A k \in DOMAIN permitted : k < pos /\ ~ (k < 1)
      BY <2>1, <3>1
    <3> QED  BY <2>1, <3>2 DEF pastHealthy, pastDegraded
  <2>3. Collected
    BY <1>1, <2>1 DEF BuildIsSound
  <2>4. Collected'
    BY <2>1, <2>2, <2>3 DEF Collected, Steady
  <2> QED  BY <1>1, <2>1, <2>4 DEF BuildIsSound
<1>6. CASE FinishBuild
  BY <1>1, <1>6 DEF FinishBuild, BuildIsSound
<1>7. CASE NextCandidate \/ BreakerRejects \/ BreakerAdmits \/ CandidateSkipped
  BY <1>1, <1>7 DEF NextCandidate, BreakerRejects, BreakerAdmits, CandidateSkipped, Skip, BuildIsSound
<1>8. CASE CandidateReady
  <2>1. chain[i].model \in Models
    <3>1. i \in Nat /\ i >= 1 /\ i <= Len(chain) /\ chain \in Seq(Candidates)
      BY <1>1, <1>8 DEF CandidateReady, WalkIsSound, Counts, Choosing
    <3>2. chain[i] \in Candidates
      BY <3>1
    <3> QED  BY <3>2 DEF Candidates
  <2>2. config[chain[i].model] \in Providers \cup {NoProvider}
    BY <1>1, <2>1 DEF BuildIsSound
  <2>3. UNCHANGED <<status, seen, config, permitted, band, pos, chain>> /\ pc' = "call"
        /\ prov' = config[chain[i].model]
    BY <1>8 DEF CandidateReady
  <2> QED  BY <1>1, <2>2, <2>3 DEF BuildIsSound
<1>9. CASE ProviderCall \/ BackoffOver \/ BackoffCut \/ Report
  BY <1>1, <1>9 DEF ProviderCall, BackoffOver, BackoffCut, Report, Skip, BuildIsSound
<1>10. ASSUME NEW p \in Providers, Flap(p)
       PROVE  BuildIsSound'
  <2>1. PICK s \in Statuses \ {status[p]} :
          /\ status' = [status EXCEPT ![p] = s]
          /\ seen' = IF pc = "band" THEN [seen EXCEPT ![p] = @ \cup {s}] ELSE seen
    BY <1>10 DEF Flap
  <2>2. status' \in [Providers -> Statuses] /\ seen' \in [Providers -> SUBSET Statuses]
    BY <1>1, <2>1 DEF BuildIsSound
  <2>3. UNCHANGED <<config, prov, permitted, band, pos, chain, pc>>
    BY <1>10 DEF Flap
  <2>4. ASSUME pc = "band"
        PROVE  Collected'
    <3>1. Collected
      BY <1>1, <2>4 DEF BuildIsSound
    <3>2. /\ \A q \in Providers : status'[q] \in seen'[q]
          /\ \A q \in Providers, v \in Statuses : seen'[q] = {v} => seen[q] = {v}
      BY <1>1, <1>10, <2>4, <3>1, FlapUnsteadies
    <3>3. \A k \in DOMAIN permitted : permitted[k].provider \in Providers
      BY <1>1, PermittedAreCandidates
    <3>4. \A k \in DOMAIN permitted, v \in Statuses : Steady(permitted[k], v)' => Steady(permitted[k], v)
      BY <2>3, <3>2, <3>3 DEF Steady
    <3>5. \A k \in DOMAIN chain : chain[k].provider \in Providers /\ ~ Steady(chain[k], "down")'
      BY <2>3, <3>1, <3>2 DEF Collected, Steady, Statuses
    <3> QED  BY <2>3, <3>1, <3>2, <3>4, <3>5 DEF Collected, pastHealthy, pastDegraded, Statuses
  <2> QED  BY <1>1, <2>2, <2>3, <2>4 DEF BuildIsSound
<1>11. CASE Reload
  <2>1. config' \in [Models -> Providers \cup {NoProvider}]
    BY <1>11, ChainAssumption DEF Reload
  <2>2. UNCHANGED <<status, seen, prov, permitted, band, pos, chain, pc>>
    BY <1>11 DEF Reload
  <2>3. Collected <=> Collected'
    BY <2>2 DEF Collected, pastHealthy, pastDegraded, Steady
  <2> QED  BY <1>1, <2>1, <2>2, <2>3 DEF BuildIsSound
<1>12. CASE ClientGone \/ UNCHANGED vars
  <2>1. UNCHANGED <<status, seen, config, prov, permitted, band, pos, chain, pc>>
    BY <1>12 DEF ClientGone, vars
  <2>2. Collected <=> Collected'
    BY <2>1 DEF Collected, pastHealthy, pastDegraded, Steady
  <2> QED  BY <1>1, <2>1, <2>2 DEF BuildIsSound
<1> QED  BY <1>2, <1>3, <1>4, <1>5, <1>6, <1>7, <1>8, <1>9, <1>10, <1>11, <1>12 DEF Next, Step

-----------------------------------------------------------------------------
(* The order of the finished chain.                                        *)

\* A provider of which one verdict was seen was steady throughout.
LEMMA OneVerdictIsSteady ==
  ASSUME NEW S, S \subseteq Statuses, Cardinality(S) = 1
  PROVE  S = {"healthy"} \/ S = {"degraded"} \/ S = {"down"}
<1>1. IsFiniteSet(Statuses)
  <2>1. IsFiniteSet({}) /\ IsFiniteSet({} \cup {"healthy"})
    BY FS_EmptySet, FS_AddElement
  <2>2. IsFiniteSet(({} \cup {"healthy"}) \cup {"degraded"})
    BY <2>1, FS_AddElement
  <2>3. IsFiniteSet((({} \cup {"healthy"}) \cup {"degraded"}) \cup {"down"})
    BY <2>2, FS_AddElement
  <2>4. Statuses = (({} \cup {"healthy"}) \cup {"degraded"}) \cup {"down"}
    BY DEF Statuses
  <2> QED  BY <2>3, <2>4
<1>2. IsFiniteSet(S)
  BY <1>1, FS_Subset
<1>3. PICK v : S = {v}
  BY <1>2, FS_Singleton
<1> QED  BY <1>3 DEF Statuses

LEMMA FinishOrders ==
  ASSUME WalkIsSound, BuildIsSound, FinishBuild
  PROVE  HealthOrdersChain'
<1>1. pc = "band" /\ Collected /\ chain \in Seq(Candidates) /\ seen \in [Providers -> SUBSET Statuses]
  BY DEF FinishBuild, BuildIsSound, WalkIsSound
<1>2. UNCHANGED <<seen, permitted>> /\ chain' = finishedChain
  BY DEF FinishBuild, env, build
<1>3. DOMAIN permitted = 1 .. Len(permitted) /\ Len(permitted) \in Nat
      /\ \A k \in DOMAIN permitted : permitted[k].provider \in Providers
  BY PermittedAreCandidates, ElementsOf DEF BuildIsSound
<1>4. \A k \in DOMAIN permitted : pastHealthy(k) /\ pastDegraded(k)
  <2>1. pos \in Nat /\ pos > Len(permitted) /\ band = "degraded"
    BY DEF FinishBuild, BuildIsSound
  <2>2. \A k \in DOMAIN permitted : k < pos
    BY <1>3, <2>1
  <2> QED  BY <2>1, <2>2 DEF pastHealthy, pastDegraded
<1>5. \A k \in DOMAIN permitted :
        Steady(permitted[k], "healthy") \/ Steady(permitted[k], "degraded") => In(permitted[k], chain)
  BY <1>1, <1>4 DEF Collected
<1>6. \A k \in DOMAIN permitted : Cardinality(seen[permitted[k].provider]) = 1 =>
        \/ Steady(permitted[k], "healthy")
        \/ Steady(permitted[k], "degraded")
        \/ Steady(permitted[k], "down")
  BY <1>1, <1>3, OneVerdictIsSteady DEF Steady
<1>7. CASE chain = <<>>
  <2>1. \A c : ~ In(c, chain)
    BY <1>7 DEF In
  <2>2. \A k \in DOMAIN permitted :
          ~ Steady(permitted[k], "healthy") /\ ~ Steady(permitted[k], "degraded")
    BY <1>5, <2>1
  <2> QED  BY <1>2, <1>6, <2>2 DEF HealthOrdersChain, Steady
<1>8. CASE chain # <<>>
  <2>1. chain' = chain
    BY <1>2, <1>8 DEF finishedChain
  <2>2. \A c : In(c, chain) => ~ Steady(c, "down")
    BY <1>1 DEF Collected, In
  <2>3. ASSUME NEW k \in DOMAIN permitted, NEW l \in DOMAIN permitted
        PROVE  /\ Steady(permitted[k], "healthy") /\ Steady(permitted[l], "degraded")
                    => Before(permitted[k], permitted[l], chain)
               /\ k < l /\ seen[permitted[k].provider] = seen[permitted[l].provider]
                  /\ (Steady(permitted[k], "healthy") \/ Steady(permitted[k], "degraded"))
                    => Before(permitted[k], permitted[l], chain)
    BY <1>1, <1>4 DEF Collected, Steady
  <2> QED  BY <1>2, <1>5, <2>1, <2>2, <2>3 DEF HealthOrdersChain, Steady
<1> QED  BY <1>7, <1>8

LEMMA HealthOrdersKept ==
  ASSUME ChainInv, [Next]_vars
  PROVE  HealthOrdersChain'
<1> USE DEF env, build, walk, history, Goto
<1>1. Counts /\ WalkIsSound /\ BuildIsSound /\ HealthOrdersChain
  BY DEF ChainInv
<1>2. CASE FinishBuild
  BY <1>1, <1>2, FinishOrders
<1>3. CASE \/ pc' \notin {"next", "allow"}
           \/ i' # 1
  BY <1>3 DEF HealthOrdersChain
<1>4. CASE pc \in {"next", "allow"} /\ i = 1 /\ UNCHANGED <<permitted, chain, seen>>
  BY <1>1, <1>4 DEF HealthOrdersChain, Steady
<1>5. CASE Resolve \/ BuildPermitted \/ CollectBand \/ NextBand
  BY <1>3, <1>5 DEF Resolve, BuildPermitted, CollectBand, NextBand
<1>6. CASE NextCandidate
  BY <1>3, <1>4, <1>6 DEF NextCandidate
<1>7. CASE BreakerRejects \/ BreakerAdmits \/ CandidateSkipped \/ CandidateReady
  BY <1>1, <1>3, <1>7 DEF BreakerRejects, BreakerAdmits, CandidateSkipped, CandidateReady, Skip,
                          Counts, WalkIsSound, Choosing
<1>8. CASE ProviderCall \/ BackoffOver \/ BackoffCut
  BY <1>3, <1>8 DEF ProviderCall, BackoffOver, BackoffCut
<1>9. CASE Report
  BY <1>1, <1>3, <1>9 DEF Report, Skip, Counts, WalkIsSound, Calling
<1>10. CASE \E p \in Providers : Flap(p)
  BY <1>3, <1>4, <1>10 DEF Flap
<1>11. CASE Reload \/ ClientGone \/ UNCHANGED vars
  BY <1>3, <1>4, <1>11 DEF Reload, ClientGone, vars
<1> QED  BY <1>2, <1>5, <1>6, <1>7, <1>8, <1>9, <1>10, <1>11 DEF Next, Step

-----------------------------------------------------------------------------
LEMMA ChainInvInit == Init => ChainInv
<1> SUFFICES ASSUME Init PROVE ChainInv
  OBVIOUS
<1>1. Counts
  BY DEF Init, Counts
<1>2. WalkIsSound
  <2>1. 0 <= MaxTotalAttempts
    BY Constants
  <2>2. chain \in Seq(Candidates) /\ gone \in BOOLEAN
    BY EmptyList DEF Init
  <2> QED  BY <2>1, <2>2 DEF Init, WalkIsSound, Building, Choosing, Calling, Steps
<1>3. BuildIsSound
  <2>1. seen \in [Providers -> SUBSET Statuses]
    BY DEF Init
  <2>2. config \in [Models -> Providers \cup {NoProvider}]
    BY ChainAssumption DEF Init
  <2> QED  BY <2>1, <2>2 DEF Init, BuildIsSound
<1>4. HealthOrdersChain
  BY DEF Init, HealthOrdersChain
<1> QED  BY <1>1, <1>2, <1>3, <1>4 DEF ChainInv

\* Along every run of resolve, BuildChain and runChain the walk's position, its counts
\* of calls, failures and verdicts, and what the two health passes have collected are
\* consistent, for any tier and limits and any number of flaps and reloads.
THEOREM ChainCorrect == Spec => []ChainInv
<1>1. Init => ChainInv
  BY ChainInvInit
<1>2. ChainInv /\ [Next]_vars => ChainInv'
  BY CountsKept, WalkKept, BuildKept, HealthOrdersKept DEF ChainInv
<1> QED  BY <1>1, <1>2, PTL DEF Spec

\* The walk of runChain is orderly: steady verdicts order the chain, MaxTotalAttempts
\* bounds the calls, every candidate passed is in the 503 breakdown once, the breaker
\* hears one verdict per candidate called, and a gone client costs one candidate at most.
THEOREM TheWalkIsOrderly == Spec => []WalkIsOrderly
<1>1. ChainInv => WalkIsOrderly
  BY DEF ChainInv, WalkIsSound, Counts, WalkIsOrderly, AttemptsBounded, FailuresAccountForWalk,
         OneVerdictPerCandidate, ClientGoneStopsWalk, Building, Choosing, Calling, Ended
<1> QED  BY <1>1, ChainCorrect, PTL

-----------------------------------------------------------------------------
(* Who is called.                                                          *)

\* A model of the allowlist whose provider is on the list too, unless a reload has
\* moved the model since the check.
Authorized(m) ==
  m \in AllowedModels /\ (config[m] \in AllowedProviders \cup {NoProvider} \/ <<config[m], m>> \in moved)

AuthorizationInv ==
  /\ pc \in {"resolve", "tier"} => DOMAIN permitted = {} /\ DOMAIN chain = {}
  /\ pc = "tier" => prov = config[Requested] \/ <<config[Requested], Requested>> \in moved
  /\ \A k \in DOMAIN permitted : Authorized(permitted[k].model)
  /\ \A k \in DOMAIN chain : Authorized(chain[k].model)
  /\ pc \in {"call", "backoff"} => prov \in AllowedProviders \/ <<prov, chain[i].model>> \in moved
  /\ AvailabilityNeverOverridesAuthorization

LEMMA AuthorizationKept ==
  ASSUME ChainInv, AuthorizationInv, [Next]_vars
  PROVE  AuthorizationInv'
<1> USE DEF env, build, walk, history, Goto
<1>1. Counts /\ WalkIsSound /\ BuildIsSound
  BY DEF ChainInv
<1>2. ASSUME pc \in {"admit", "call"}
      PROVE  Authorized(chain[i].model)
  <2>1. i \in Nat /\ i >= 1 /\ i <= Len(chain) /\ chain \in Seq(Candidates)
    BY <1>1, <1>2 DEF WalkIsSound, Counts, Choosing, Calling
  <2>2. i \in DOMAIN chain
    BY <2>1
  <2> QED  BY <2>2 DEF AuthorizationInv
<1>3. CASE Resolve
  BY <1>3 DEF Resolve, Authorized, AuthorizationInv, AvailabilityNeverOverridesAuthorization
<1>4. CASE BuildPermitted
  <2>1. /\ UNCHANGED <<config, moved, prov, chain, called>> /\ pc = "tier"
        /\ pc' \notin {"resolve", "tier", "call", "backoff"}
    BY <1>4 DEF BuildPermitted
  <2>2. \A k \in DOMAIN permitted' : \E l \in permit : permitted'[k] = options[l]
    BY <1>1, <1>4, BuildPermittedKeeps
  <2>3. ASSUME NEW l \in permit
        PROVE  Authorized(options[l].model)
    <3> DEFINE head == [provider |-> prov, model |-> Requested]
    <3>1. l \in DOMAIN options /\ options[l].provider \in AllowedProviders /\ options[l].model \in AllowedModels
      BY DEF permit, ordered, allowed
    <3>2. Len(Tier) \in Nat /\ DOMAIN tierCandidates = 1 .. Len(Tier)
      BY Constants, ElementsOf DEF tierCandidates
    <3>3. \A k \in 1 .. Len(Tier) : tierCandidates[k].provider = config[tierCandidates[k].model]
      BY Constants, ElementsOf DEF tierCandidates
    <3>4. tierCandidates \in Seq(Candidates) /\ head \in Candidates
      <4>1. config \in [Models -> Providers \cup {NoProvider}] /\ prov \in Providers \cup {NoProvider}
        BY <1>1 DEF BuildIsSound
      <4>2. \A k \in 1 .. Len(Tier) : [provider |-> config[Tier[k]], model |-> Tier[k]] \in Candidates
        BY <4>1, Constants, ElementsOf DEF Candidates
      <4>3. head \in Candidates
        BY <4>1, Constants DEF Candidates
      <4> QED  BY <3>2, <4>2, <4>3, Constants, ElementsOf DEF tierCandidates
    <3>5. head.provider = prov /\ head.model = Requested
      OBVIOUS
    <3>6. options = <<head>> \o tierCandidates
      BY DEF options
    <3> HIDE DEF head
    <3>7. Len(tierCandidates) = Len(Tier)
      BY <3>2, <3>4
    <3>8. options[l] = head \/ \E k \in 1 .. Len(Tier) : options[l] = tierCandidates[k]
      BY <3>1, <3>2, <3>4, <3>6, <3>7
    <3>9. CASE options[l] = head
      <4>1. prov = config[Requested] \/ <<config[Requested], Requested>> \in moved
        BY <2>1 DEF AuthorizationInv
      <4> QED  BY <3>1, <3>5, <3>9, <4>1 DEF Authorized
    <3>10. CASE \E k \in 1 .. Len(Tier) : options[l] = tierCandidates[k]
      BY <3>1, <3>3, <3>10 DEF Authorized
    <3> QED  BY <3>8, <3>9, <3>10
  <2>a. \A m : Authorized(m) => Authorized(m)'
    BY <2>1 DEF Authorized
  <2>4. (\A k \in DOMAIN permitted : Authorized(permitted[k].model))'
    BY <2>2, <2>3, <2>a
  <2>5. (\A k \in DOMAIN chain : Authorized(chain[k].model))'
    BY <2>1 DEF AuthorizationInv, Authorized
  <2> QED  BY <2>1, <2>4, <2>5 DEF AuthorizationInv, AvailabilityNeverOverridesAuthorization
<1>5. CASE CollectBand
  <2>1. UNCHANGED <<config, moved, prov, permitted, called>> /\ pc' = "band" /\ pos <= Len(permitted)
    BY <1>5 DEF CollectBand
  <2>2. permitted[pos] \in Candidates /\ chain \in Seq(Candidates) /\ pos \in DOMAIN permitted
    BY <1>1, <2>1, PermittedAreCandidates DEF BuildIsSound, WalkIsSound
  <2>3. chain' = Append(chain, permitted[pos]) \/ chain' = chain
    BY <1>5 DEF CollectBand
  <2>4. \A k \in DOMAIN chain' : chain'[k] = permitted[pos] \/ In(chain'[k], chain)
    BY <2>2, <2>3, InAppend DEF In
  <2>5. \A k \in DOMAIN chain' : Authorized(chain'[k].model)
    BY <2>2, <2>4 DEF AuthorizationInv, In
  <2>6. \A m : Authorized(m) => Authorized(m)'
    BY <2>1 DEF Authorized
  <2> QED  BY <2>1, <2>5, <2>6 DEF AuthorizationInv, AvailabilityNeverOverridesAuthorization
<1>6. CASE NextBand \/ FinishBuild
  BY <1>6 DEF NextBand, FinishBuild, finishedChain, Authorized, AuthorizationInv, AvailabilityNeverOverridesAuthorization
<1>7. CASE NextCandidate \/ BreakerRejects \/ BreakerAdmits \/ CandidateSkipped
  BY <1>7 DEF NextCandidate, BreakerRejects, BreakerAdmits, CandidateSkipped, Skip,
              Authorized, AuthorizationInv, AvailabilityNeverOverridesAuthorization
<1>8. CASE CandidateReady
  <2>1. Authorized(chain[i].model) /\ prov' = config[chain[i].model] /\ prov' # NoProvider
    BY <1>2, <1>8 DEF CandidateReady
  <2>2. UNCHANGED <<config, moved, permitted, chain, i, called>> /\ pc' = "call"
    BY <1>8 DEF CandidateReady
  <2>3. prov' \in AllowedProviders \/ <<prov', chain'[i'].model>> \in moved'
    BY <2>1, <2>2 DEF Authorized
  <2> QED  BY <2>2, <2>3 DEF Authorized, AuthorizationInv, AvailabilityNeverOverridesAuthorization
<1>9. CASE ProviderCall
  <2>1. (prov \in AllowedProviders \/ <<prov, chain[i].model>> \in moved) /\ chain[i].model \in AllowedModels
    BY <1>2, <1>9 DEF ProviderCall, AuthorizationInv, Authorized
  <2>2. UNCHANGED <<config, moved, prov, permitted, chain, i>> /\ pc' \in {"backoff", "report"}
        /\ called' = called \cup {<<prov, chain[i].model>>}
    BY <1>9 DEF ProviderCall
  <2>3. AvailabilityNeverOverridesAuthorization'
    BY <2>1, <2>2 DEF AuthorizationInv, AvailabilityNeverOverridesAuthorization
  <2> QED  BY <2>1, <2>2, <2>3 DEF AuthorizationInv, Authorized
<1>10. CASE BackoffOver \/ BackoffCut \/ Report
  BY <1>10 DEF BackoffOver, BackoffCut, Report, Skip, Authorized, AuthorizationInv,
               AvailabilityNeverOverridesAuthorization
<1>11. CASE (\E p \in Providers : Flap(p)) \/ ClientGone \/ UNCHANGED vars
  BY <1>11 DEF Flap, ClientGone, vars, Authorized, AuthorizationInv, AvailabilityNeverOverridesAuthorization
<1>12. CASE Reload
  <2>1. /\ UNCHANGED <<pc, prov, permitted, chain, i, called>> /\ moved \subseteq moved'
        /\ \A m \in Models : LookedUp(m) /\ config'[m] # config[m] => <<config'[m], m>> \in moved'
    BY <1>12 DEF Reload
  <2>2. AllowedModels \subseteq Models /\ Requested \in Models
    BY ChainAssumption
  <2>3. ASSUME NEW m, Authorized(m), LookedUp(m)  PROVE Authorized(m)'
    BY <2>1, <2>2, <2>3 DEF Authorized
  <2>4. pc \notin {"resolve", "tier"} => \A m : LookedUp(m)
    BY DEF LookedUp
  <2>5. /\ (\A k \in DOMAIN permitted : Authorized(permitted[k].model))'
        /\ (\A k \in DOMAIN chain : Authorized(chain[k].model))'
    <3>1. CASE pc \in {"resolve", "tier"}
      BY <2>1, <3>1 DEF AuthorizationInv
    <3>2. CASE pc \notin {"resolve", "tier"}
      BY <2>1, <2>3, <2>4, <3>2 DEF AuthorizationInv
    <3> QED  BY <3>1, <3>2
  <2>6. pc = "tier" => LookedUp(Requested)
    BY DEF LookedUp
  <2>7. pc' = "tier" => prov' = config'[Requested] \/ <<config'[Requested], Requested>> \in moved'
    BY <2>1, <2>2, <2>6 DEF AuthorizationInv
  <2>8. AvailabilityNeverOverridesAuthorization'
    BY <2>1 DEF AuthorizationInv, AvailabilityNeverOverridesAuthorization
  <2> QED  BY <2>1, <2>5, <2>7, <2>8 DEF AuthorizationInv
<1> QED  BY <1>3, <1>4, <1>5, <1>6, <1>7, <1>8, <1>9, <1>10, <1>11, <1>12 DEF Next, Step

\* Rules 2 and 4 of BuildChain carried through runChain's second lookup: whatever
\* health says and however the walk goes, no call leaves the team's allowlists, except
\* to the very provider a reload moved the model to after the check, for any
\* configurations an operator may load and any number of reloads.
THEOREM NobodyUnauthorizedIsCalled == Spec => []AvailabilityNeverOverridesAuthorization
<1>1. Init => AuthorizationInv
  BY DEF Init, AuthorizationInv, AvailabilityNeverOverridesAuthorization
<1>2. ChainInv /\ AuthorizationInv /\ [Next]_vars => AuthorizationInv'
  BY AuthorizationKept
<1>3. AuthorizationInv => AvailabilityNeverOverridesAuthorization
  BY DEF AuthorizationInv
<1> QED  BY <1>1, <1>2, <1>3, ChainCorrect, PTL DEF Spec

-----------------------------------------------------------------------------
(* Whose allowlists those are: TeamStore, for any teams, replicas and      *)
(* requests.  A key is committed for one team, once and for good           *)
(* (OneTeamPerKey); that is what keeps the two indexes of a snapshot from  *)
(* disagreeing.                                                            *)

\* A team of a row, of a registry or of a request.
IsTeam(t) == DOMAIN t = {"id", "key", "rpm", "tpm"} /\ t.id \in Teams /\ t.key \in Keys \cup {NoKey}

\* A registry whose indexes agree and whose keys were committed for their teams.
SoundRegistry(g, ever) ==
  /\ DOMAIN g.byID \subseteq Teams
  /\ \A t \in DOMAIN g.byID :
       /\ IsTeam(g.byID[t]) /\ g.byID[t].id = t
       /\ g.byID[t].key # NoKey => g.byID[t].key \in DOMAIN g.byHash /\ <<g.byID[t].key, t>> \in ever
  /\ \A k \in DOMAIN g.byHash \ {NoKey} :
       /\ g.byHash[k].key = k /\ g.byHash[k].id \in DOMAIN g.byID
       /\ g.byID[g.byHash[k].id] = g.byHash[k]

\* A key belongs to one team for good.
OneTeamPerKey(ever) == \A k \in Keys, t, u \in Teams : <<k, t>> \in ever /\ <<k, u>> \in ever => t = u

RowsAreSound ==
  /\ DOMAIN db = Teams
  /\ \A t \in Teams :
       /\ DOMAIN db[t] = {"status", "team"} /\ IsTeam(db[t].team) /\ db[t].team.id = t
       /\ db[t].status = "live" /\ db[t].team.key # NoKey => <<db[t].team.key, t>> \in issued

InFlight(a) == req[a].pc \in {"exec", "apply"}

\* A minted key is nobody's before its statement, and after it its row's, unless
\* another request came in between.
ChangesAreSound ==
  /\ DOMAIN req = Requests
  /\ \A a \in Requests :
       /\ DOMAIN req[a] = {"pc", "op", "home", "patch", "new"} /\ req[a].pc \in AdminSteps
       /\ req[a].pc \in {"idle", "exec"} => \A t \in Teams : <<a, t>> \notin issued
       /\ InFlight(a) =>
            /\ req[a].op \in Ops /\ req[a].home \in Replicas /\ IsTeam(req[a].new)
            /\ req[a].op \in {"create", "rotate"} => req[a].new.key = a
            /\ req[a].op \in {"revoke", "delete"} => req[a].new.key = NoKey
       /\ req[a].pc = "apply" /\ req[a].op \in {"create", "rotate"} =>
            /\ <<a, req[a].new.id>> \in issued
            /\ req[a].new.id \notin overlapped =>
                 db[req[a].new.id].status = "live" /\ db[req[a].new.id].team.key = a
  /\ \A a, b \in Requests :
       a # b /\ InFlight(a) /\ InFlight(b) /\ req[a].new.id = req[b].new.id => req[a].new.id \in overlapped

SnapshotsAreSound ==
  /\ DOMAIN snap = Replicas /\ DOMAIN loading = Replicas /\ DOMAIN dead = Replicas /\ DOMAIN loadedDead = Replicas
  /\ \A r \in Replicas :
       /\ DOMAIN snap[r] = {"registry", "degraded"} /\ SoundRegistry(snap[r].registry, issued)
       /\ \A g \in loading[r] : SoundRegistry(g, issued) /\ DOMAIN g.byHash \cap loadedDead[r] = {}
       /\ dead[r] \subseteq Gone(db, issued) /\ loadedDead[r] \subseteq Gone(db, issued)

StoreInv == OneTeamPerKey(issued) /\ RowsAreSound /\ ChangesAreSound /\ SnapshotsAreSound /\ RevocationHolds

\* The five changes of a registry.
LEMMA OwnerOfKey ==
  ASSUME WellFormed, NEW ever, OneTeamPerKey(ever), NEW g, SoundRegistry(g, ever), NEW t \in DOMAIN g.byID,
         g.byID[t].key # NoKey
  PROVE  /\ g.byID[t].key \in DOMAIN g.byHash /\ g.byHash[g.byID[t].key] = g.byID[t]
         /\ \A u \in DOMAIN g.byID : g.byID[u].key = g.byID[t].key => u = t
         /\ \A k \in DOMAIN g.byHash \ {NoKey} : g.byHash[k].id = t => k = g.byID[t].key
<1>1. g.byID[t].key \in Keys /\ g.byID[t].key \in DOMAIN g.byHash /\ <<g.byID[t].key, t>> \in ever
  BY DEF SoundRegistry, IsTeam
<1>2. \A u \in DOMAIN g.byID : g.byID[u].key = g.byID[t].key => u = t
  BY <1>1 DEF SoundRegistry, OneTeamPerKey
<1> QED BY <1>1, <1>2 DEF SoundRegistry

LEMMA AddSound ==
  ASSUME WellFormed, NEW ever, OneTeamPerKey(ever), NEW g, SoundRegistry(g, ever),
         NEW t, IsTeam(t), t.id \notin DOMAIN g.byID, t.key # NoKey, <<t.key, t.id>> \in ever
  PROVE  SoundRegistry(Add(g, t), ever)
<1> DEFINE h == Add(g, t)
<1>1. /\ DOMAIN h.byID = DOMAIN g.byID \cup {t.id} /\ h.byID[t.id] = t
      /\ \A u \in DOMAIN g.byID : h.byID[u] = g.byID[u]
      /\ DOMAIN h.byHash = DOMAIN g.byHash \cup {t.key} /\ h.byHash[t.key] = t
      /\ \A k \in DOMAIN g.byHash \ {t.key} : h.byHash[k] = g.byHash[k]
  BY DEF Add, put, drop, Restrict
<1> HIDE DEF h
<1>2. DOMAIN h.byID \subseteq Teams BY <1>1 DEF SoundRegistry, IsTeam
<1>3. ASSUME NEW u \in DOMAIN h.byID
      PROVE  /\ IsTeam(h.byID[u]) /\ h.byID[u].id = u
             /\ h.byID[u].key # NoKey => h.byID[u].key \in DOMAIN h.byHash /\ <<h.byID[u].key, u>> \in ever
  <2>1. CASE u = t.id BY <1>1, <2>1
  <2>2. CASE u # t.id BY <1>1, <2>2 DEF SoundRegistry
  <2> QED BY <2>1, <2>2
<1>4. ASSUME NEW k \in DOMAIN h.byHash \ {NoKey}
      PROVE  h.byHash[k].key = k /\ h.byHash[k].id \in DOMAIN h.byID /\ h.byID[h.byHash[k].id] = h.byHash[k]
  <2>1. CASE k = t.key BY <1>1, <2>1
  <2>2. CASE k # t.key BY <1>1, <2>2 DEF SoundRegistry
  <2> QED BY <2>1, <2>2
<1>5. SoundRegistry(h, ever) BY <1>2, <1>3, <1>4 DEF SoundRegistry
<1> QED BY <1>5 DEF h

LEMMA UpdateSound ==
  ASSUME WellFormed, NEW ever, OneTeamPerKey(ever), NEW g, SoundRegistry(g, ever),
         NEW id \in DOMAIN g.byID, NEW p
  PROVE  /\ SoundRegistry(Update(g, id, p), ever)
         /\ DOMAIN Update(g, id, p).byHash \ {NoKey} = DOMAIN g.byHash \ {NoKey}
         /\ \A k \in DOMAIN g.byHash \ {NoKey} : /\ Update(g, id, p).byHash[k].id = g.byHash[k].id
                                                 /\ Update(g, id, p).byHash[k].key = g.byHash[k].key
<1> DEFINE h == Update(g, id, p)
           t == merged(p, g.byID[id])
<1>0. IsTeam(g.byID[id]) /\ g.byID[id].id = id BY DEF SoundRegistry
<1>1. IsTeam(t) /\ t.id = id /\ t.key = g.byID[id].key BY <1>0 DEF merged, IsTeam
<1>2. /\ DOMAIN h.byID = DOMAIN g.byID /\ h.byID[id] = t
      /\ \A u \in DOMAIN g.byID \ {id} : h.byID[u] = g.byID[u]
      /\ DOMAIN h.byHash = DOMAIN g.byHash \cup {t.key} /\ h.byHash[t.key] = t
      /\ \A k \in DOMAIN g.byHash \ {t.key} : h.byHash[k] = g.byHash[k]
  BY DEF Update, put, drop, Restrict
<1>3. t.key # NoKey => t.key \in DOMAIN g.byHash /\ g.byHash[t.key] = g.byID[id] /\ <<t.key, id>> \in ever
  BY <1>1, OwnerOfKey DEF SoundRegistry
<1>8. \A k \in DOMAIN g.byHash \ {NoKey} : g.byHash[k].id = id => k = t.key
  BY <1>1 DEF SoundRegistry
<1> HIDE DEF h, t
<1>4. DOMAIN h.byID \subseteq Teams BY <1>2 DEF SoundRegistry
<1>5. ASSUME NEW u \in DOMAIN h.byID
      PROVE  /\ IsTeam(h.byID[u]) /\ h.byID[u].id = u
             /\ h.byID[u].key # NoKey => h.byID[u].key \in DOMAIN h.byHash /\ <<h.byID[u].key, u>> \in ever
  <2>1. CASE u = id BY <1>1, <1>2, <1>3, <2>1
  <2>2. CASE u # id BY <1>2, <2>2 DEF SoundRegistry
  <2> QED BY <2>1, <2>2
<1>6. ASSUME NEW k \in DOMAIN h.byHash \ {NoKey}
      PROVE  h.byHash[k].key = k /\ h.byHash[k].id \in DOMAIN h.byID /\ h.byID[h.byHash[k].id] = h.byHash[k]
  <2>1. CASE k = t.key BY <1>1, <1>2, <2>1
  <2>2. CASE k # t.key BY <1>2, <1>8, <2>2 DEF SoundRegistry
  <2> QED BY <2>1, <2>2
<1>7. SoundRegistry(h, ever) BY <1>4, <1>5, <1>6 DEF SoundRegistry
<1>9. DOMAIN h.byHash \ {NoKey} = DOMAIN g.byHash \ {NoKey} BY <1>2, <1>3
<1>10. ASSUME NEW k \in DOMAIN g.byHash \ {NoKey}
       PROVE  h.byHash[k].id = g.byHash[k].id /\ h.byHash[k].key = g.byHash[k].key
  <2>1. CASE k = t.key BY <2>1, <1>0, <1>1, <1>2, <1>3
  <2>2. CASE k # t.key BY <2>2, <1>2
  <2> QED BY <2>1, <2>2
<1> QED BY <1>7, <1>9, <1>10 DEF h

LEMMA RotateSound ==
  ASSUME WellFormed, NEW ever, OneTeamPerKey(ever), NEW g, SoundRegistry(g, ever),
         NEW id \in DOMAIN g.byID, NEW key \in Keys, <<key, id>> \in ever
  PROVE  /\ SoundRegistry(RotateKey(g, id, key), ever)
         /\ DOMAIN RotateKey(g, id, key).byHash = (DOMAIN g.byHash \ {g.byID[id].key}) \cup {key}
         /\ RotateKey(g, id, key).byHash[key].id = id
         /\ \A k \in DOMAIN g.byHash \ {g.byID[id].key, key} : RotateKey(g, id, key).byHash[k] = g.byHash[k]
<1> DEFINE h == RotateKey(g, id, key)
           t == [g.byID[id] EXCEPT !.key = key]
           old == g.byID[id].key
<1>0. IsTeam(g.byID[id]) /\ g.byID[id].id = id BY DEF SoundRegistry
<1>1. IsTeam(t) /\ t.id = id /\ t.key = key BY <1>0 DEF IsTeam
<1>2. /\ DOMAIN h.byID = DOMAIN g.byID /\ h.byID[id] = t
      /\ \A u \in DOMAIN g.byID \ {id} : h.byID[u] = g.byID[u]
  BY DEF RotateKey, put, drop, Restrict
<1>3. /\ DOMAIN h.byHash = (DOMAIN g.byHash \ {old}) \cup {key} /\ h.byHash[key] = t
      /\ \A k \in DOMAIN g.byHash \ {old, key} : h.byHash[k] = g.byHash[k]
  <2> DEFINE f == drop(g.byHash, old)
  <2>1. DOMAIN f = DOMAIN g.byHash \ {old} /\ \A k \in DOMAIN g.byHash \ {old} : f[k] = g.byHash[k]
    BY DEF drop, Restrict
  <2>2. h.byHash = put(f, key, t) BY DEF RotateKey
  <2> HIDE DEF f, h, t
  <2> QED BY <2>1, <2>2 DEF put
<1>4. \A k \in DOMAIN g.byHash \ {NoKey} : g.byHash[k].id = id => k = old
  BY DEF SoundRegistry
<1>5. \A u \in DOMAIN g.byID : g.byID[u].key # NoKey /\ g.byID[u].key \in {old, key} => u = id
  <2>1. ASSUME NEW u \in DOMAIN g.byID, g.byID[u].key # NoKey, g.byID[u].key = old PROVE u = id
    BY <2>1, OwnerOfKey
  <2>2. ASSUME NEW u \in DOMAIN g.byID, g.byID[u].key # NoKey, g.byID[u].key = key PROVE u = id
    BY <2>2 DEF SoundRegistry, OneTeamPerKey
  <2> QED BY <2>1, <2>2
<1> HIDE DEF h, t, old
<1>6. ASSUME NEW u \in DOMAIN h.byID
      PROVE  /\ IsTeam(h.byID[u]) /\ h.byID[u].id = u
             /\ h.byID[u].key # NoKey => h.byID[u].key \in DOMAIN h.byHash /\ <<h.byID[u].key, u>> \in ever
  <2>1. CASE u = id BY <1>1, <1>2, <1>3, <2>1
  <2>2. CASE u # id BY <1>2, <1>3, <1>5, <2>2 DEF SoundRegistry
  <2> QED BY <2>1, <2>2
<1>7. ASSUME NEW k \in DOMAIN h.byHash \ {NoKey}
      PROVE  h.byHash[k].key = k /\ h.byHash[k].id \in DOMAIN h.byID /\ h.byID[h.byHash[k].id] = h.byHash[k]
  <2>1. CASE k = key BY <1>1, <1>2, <1>3, <2>1
  <2>2. CASE k # key BY <1>2, <1>3, <1>4, <2>2 DEF SoundRegistry
  <2> QED BY <2>1, <2>2
<1>8. SoundRegistry(h, ever) BY <1>2, <1>6, <1>7 DEF SoundRegistry
<1> QED BY <1>1, <1>3, <1>8 DEF h, old

\* Revoking forgets the key; removing forgets the team too.
LEMMA RevokeSound ==
  ASSUME WellFormed, NEW ever, OneTeamPerKey(ever), NEW g, SoundRegistry(g, ever),
         NEW id \in DOMAIN g.byID
  PROVE  /\ SoundRegistry(RevokeKey(g, id), ever)
         /\ DOMAIN RevokeKey(g, id).byHash = DOMAIN g.byHash \ {g.byID[id].key}
         /\ \A k \in DOMAIN g.byHash \ {g.byID[id].key} : RevokeKey(g, id).byHash[k] = g.byHash[k]
<1> DEFINE h == RevokeKey(g, id)
           t == [g.byID[id] EXCEPT !.key = NoKey]
           old == g.byID[id].key
<1>0. IsTeam(g.byID[id]) /\ g.byID[id].id = id BY DEF SoundRegistry
<1>1. IsTeam(t) /\ t.id = id /\ t.key = NoKey BY <1>0 DEF IsTeam
<1>2. /\ DOMAIN h.byID = DOMAIN g.byID /\ h.byID[id] = t
      /\ \A u \in DOMAIN g.byID \ {id} : h.byID[u] = g.byID[u]
      /\ DOMAIN h.byHash = DOMAIN g.byHash \ {old}
      /\ \A k \in DOMAIN g.byHash \ {old} : h.byHash[k] = g.byHash[k]
  BY DEF RevokeKey, put, drop, Restrict
<1>4. \A k \in DOMAIN g.byHash \ {NoKey} : g.byHash[k].id = id => k = old
  BY DEF SoundRegistry
<1>5. \A u \in DOMAIN g.byID : g.byID[u].key # NoKey /\ g.byID[u].key = old => u = id
  BY OwnerOfKey
<1> HIDE DEF h, t, old
<1>6. ASSUME NEW u \in DOMAIN h.byID
      PROVE  /\ IsTeam(h.byID[u]) /\ h.byID[u].id = u
             /\ h.byID[u].key # NoKey => h.byID[u].key \in DOMAIN h.byHash /\ <<h.byID[u].key, u>> \in ever
  <2>1. CASE u = id BY <1>1, <1>2, <2>1
  <2>2. CASE u # id BY <1>2, <1>5, <2>2 DEF SoundRegistry
  <2> QED BY <2>1, <2>2
<1>7. ASSUME NEW k \in DOMAIN h.byHash \ {NoKey}
      PROVE  h.byHash[k].key = k /\ h.byHash[k].id \in DOMAIN h.byID /\ h.byID[h.byHash[k].id] = h.byHash[k]
  BY <1>2, <1>4 DEF SoundRegistry
<1>8. SoundRegistry(h, ever) BY <1>2, <1>6, <1>7 DEF SoundRegistry
<1> QED BY <1>2, <1>8 DEF h, old

LEMMA RemoveSound ==
  ASSUME WellFormed, NEW ever, OneTeamPerKey(ever), NEW g, SoundRegistry(g, ever),
         NEW id \in DOMAIN g.byID
  PROVE  /\ SoundRegistry(Remove(g, id), ever)
         /\ DOMAIN Remove(g, id).byHash \ {NoKey} = DOMAIN g.byHash \ {g.byID[id].key, NoKey}
         /\ \A k \in DOMAIN g.byHash \ {g.byID[id].key, NoKey} : Remove(g, id).byHash[k] = g.byHash[k]
<1> DEFINE h == Remove(g, id)
           old == g.byID[id].key
<1>2. /\ DOMAIN h.byID = DOMAIN g.byID \ {id}
      /\ \A u \in DOMAIN g.byID \ {id} : h.byID[u] = g.byID[u]
      /\ DOMAIN h.byHash \ {NoKey} = DOMAIN g.byHash \ {old, NoKey}
      /\ \A k \in DOMAIN g.byHash \ {old, NoKey} : h.byHash[k] = g.byHash[k]
  BY DEF Remove, put, drop, Restrict
<1>4. \A k \in DOMAIN g.byHash \ {NoKey} : g.byHash[k].id = id => k = old
  BY DEF SoundRegistry
<1>5. \A u \in DOMAIN g.byID : g.byID[u].key # NoKey /\ g.byID[u].key = old => u = id
  BY OwnerOfKey
<1> HIDE DEF h, old
<1>6. ASSUME NEW u \in DOMAIN h.byID
      PROVE  /\ IsTeam(h.byID[u]) /\ h.byID[u].id = u
             /\ h.byID[u].key # NoKey => h.byID[u].key \in DOMAIN h.byHash /\ <<h.byID[u].key, u>> \in ever
  BY <1>2, <1>5 DEF SoundRegistry
<1>7. ASSUME NEW k \in DOMAIN h.byHash \ {NoKey}
      PROVE  h.byHash[k].key = k /\ h.byHash[k].id \in DOMAIN h.byID /\ h.byID[h.byHash[k].id] = h.byHash[k]
  BY <1>2, <1>4 DEF SoundRegistry
<1>8. SoundRegistry(h, ever) BY <1>2, <1>6, <1>7 DEF SoundRegistry
<1> QED BY <1>2, <1>8 DEF h, old

LEMMA LoadSound ==
  ASSUME WellFormed, NEW ever, OneTeamPerKey(ever), NEW teams,
         \A t \in teams : IsTeam(t) /\ (t.key # NoKey => <<t.key, t.id>> \in ever),
         \A t, u \in teams : t.id = u.id => t = u
  PROVE  /\ SoundRegistry(NewRegistry(teams), ever)
         /\ DOMAIN NewRegistry(teams).byHash = {t.key : t \in {u \in teams : u.key # NoKey}}
<1> DEFINE h == NewRegistry(teams)
           keyed == {t \in teams : t.key # NoKey}
<1>1. DOMAIN h.byID = {t.id : t \in teams} /\ DOMAIN h.byHash = {t.key : t \in keyed}
  BY DEF NewRegistry
<1>2. ASSUME NEW t \in teams PROVE h.byID[t.id] = t
  <2>1. h.byID[t.id] = CHOOSE u \in teams : u.id = t.id BY DEF NewRegistry
  <2>2. \E u \in teams : u.id = t.id OBVIOUS
  <2> QED BY <2>1, <2>2
<1>3. ASSUME NEW t \in keyed PROVE h.byHash[t.key] = t
  <2>1. h.byHash[t.key] = CHOOSE u \in keyed : u.key = t.key BY DEF NewRegistry
  <2>2. \A u \in keyed : u.key = t.key => u = t
    <3> TAKE u \in keyed
    <3> HAVE u.key = t.key
    <3>1. /\ t.key \in Keys /\ t.id \in Teams /\ u.id \in Teams
          /\ <<t.key, t.id>> \in ever /\ <<t.key, u.id>> \in ever
      BY DEF IsTeam
    <3>2. t.id = u.id BY <3>1 DEF OneTeamPerKey
    <3> QED BY <3>2
  <2> QED BY <2>1, <2>2
<1> HIDE DEF h
<1>4. ASSUME NEW u \in DOMAIN h.byID
      PROVE  /\ u \in Teams /\ IsTeam(h.byID[u]) /\ h.byID[u].id = u
             /\ h.byID[u].key # NoKey => h.byID[u].key \in DOMAIN h.byHash /\ <<h.byID[u].key, u>> \in ever
  <2>1. PICK t \in teams : u = t.id BY <1>1
  <2>2. h.byID[u] = t BY <2>1, <1>2
  <2>3. t.key # NoKey => t.key \in DOMAIN h.byHash BY <1>1
  <2> QED BY <2>1, <2>2, <2>3 DEF IsTeam
<1>5. ASSUME NEW k \in DOMAIN h.byHash \ {NoKey}
      PROVE  h.byHash[k].key = k /\ h.byHash[k].id \in DOMAIN h.byID /\ h.byID[h.byHash[k].id] = h.byHash[k]
  <2>1. PICK t \in keyed : k = t.key BY <1>1
  <2>2. h.byHash[k] = t BY <2>1, <1>3
  <2>3. t.id \in DOMAIN h.byID /\ h.byID[t.id] = t BY <1>1, <1>2
  <2> QED BY <2>1, <2>2, <2>3
<1>6. SoundRegistry(h, ever) BY <1>4, <1>5 DEF SoundRegistry
<1> QED BY <1>1, <1>6 DEF h

\* What a write-through may add to a registry is the key it minted.
LEMMA AppliedSound ==
  ASSUME WellFormed, NEW ever, OneTeamPerKey(ever), NEW g, SoundRegistry(g, ever),
         NEW q, NEW a \in Requests, IsTeam(q.new), q.op \in Ops,
         q.op \in {"create", "rotate"} => q.new.key = a /\ <<a, q.new.id>> \in ever
  PROVE  /\ SoundRegistry(applied(q, g), ever)
         /\ \A k \in Keys : k \in DOMAIN applied(q, g).byHash =>
              \/ k = a /\ q.op \in {"create", "rotate"} /\ applied(q, g).byHash[k].id = q.new.id
              \/ /\ k \in DOMAIN g.byHash /\ applied(q, g).byHash[k].id = g.byHash[k].id
                 /\ q.op \in {"rotate", "revoke", "delete"} => g.byHash[k].id # q.new.id
<1> DEFINE h == applied(q, g)
           id == q.new.id
<1>0. NoKey \notin Keys /\ a \in Keys BY DEF WellFormed, Keys
<1>1. \A k \in DOMAIN g.byHash \ {NoKey} : g.byHash[k].id \in DOMAIN g.byID /\ (g.byHash[k].id = id => k = g.byID[id].key)
  BY DEF SoundRegistry
<1>2. CASE Get(g, id) = (q.op = "create")
  <2>1. h = g BY <1>2 DEF applied
  <2>2. q.op # "create" => id \notin DOMAIN g.byID BY <1>2 DEF Get
  <2> HIDE DEF h
  <2> QED BY <2>1, <2>2, <1>0, <1>1 DEF h
<1>3. CASE Get(g, id) # (q.op = "create") /\ q.op = "create"
  <2>1. id \notin DOMAIN g.byID /\ h = Add(g, q.new) BY <1>3 DEF applied, Get
  <2>2. /\ DOMAIN Add(g, q.new).byHash = DOMAIN g.byHash \cup {a} /\ Add(g, q.new).byHash[a] = q.new
        /\ \A k \in DOMAIN g.byHash \ {a} : Add(g, q.new).byHash[k] = g.byHash[k]
    BY <1>3 DEF Add, put
  <2>3. SoundRegistry(Add(g, q.new), ever) BY <1>0, <1>3, <2>1, AddSound
  <2> HIDE DEF h
  <2> QED BY <2>1, <2>2, <2>3, <1>3 DEF h
<1>4. CASE Get(g, id) # (q.op = "create") /\ q.op = "patch"
  <2>1. id \in DOMAIN g.byID /\ h = Update(g, id, q.patch) BY <1>4 DEF applied, Get
  <2>2. /\ SoundRegistry(h, ever) /\ DOMAIN h.byHash \ {NoKey} = DOMAIN g.byHash \ {NoKey}
        /\ \A k \in DOMAIN g.byHash \ {NoKey} : h.byHash[k].id = g.byHash[k].id
    BY <2>1, UpdateSound
  <2> HIDE DEF h
  <2> QED BY <2>2, <1>0, <1>4 DEF h
<1>5. CASE Get(g, id) # (q.op = "create") /\ q.op = "rotate"
  <2>1. id \in DOMAIN g.byID /\ h = RotateKey(g, id, a) BY <1>5 DEF applied, Get
  <2>2. /\ SoundRegistry(h, ever) /\ DOMAIN h.byHash = (DOMAIN g.byHash \ {g.byID[id].key}) \cup {a}
        /\ h.byHash[a].id = id
        /\ \A k \in DOMAIN g.byHash \ {g.byID[id].key, a} : h.byHash[k] = g.byHash[k]
    BY <2>1, <1>0, <1>5, RotateSound
  <2> HIDE DEF h
  <2> QED BY <2>2, <1>0, <1>1, <1>5 DEF h
<1>6. CASE Get(g, id) # (q.op = "create") /\ q.op = "revoke"
  <2>1. id \in DOMAIN g.byID /\ h = RevokeKey(g, id) BY <1>6 DEF applied, Get
  <2>2. /\ SoundRegistry(h, ever) /\ DOMAIN h.byHash = DOMAIN g.byHash \ {g.byID[id].key}
        /\ \A k \in DOMAIN g.byHash \ {g.byID[id].key} : h.byHash[k] = g.byHash[k]
    BY <2>1, RevokeSound
  <2> HIDE DEF h
  <2> QED BY <2>2, <1>0, <1>1, <1>6 DEF h
<1>7. CASE Get(g, id) # (q.op = "create") /\ q.op = "delete"
  <2>1. id \in DOMAIN g.byID /\ h = Remove(g, id) BY <1>7 DEF applied, Get
  <2>2. /\ SoundRegistry(h, ever) /\ DOMAIN h.byHash \ {NoKey} = DOMAIN g.byHash \ {g.byID[id].key, NoKey}
        /\ \A k \in DOMAIN g.byHash \ {g.byID[id].key, NoKey} : h.byHash[k] = g.byHash[k]
    BY <2>1, RemoveSound
  <2> HIDE DEF h
  <2> QED BY <2>2, <1>0, <1>1, <1>7 DEF h
<1> QED BY <1>2, <1>3, <1>4, <1>5, <1>6, <1>7 DEF Ops

LEMMA StoreStart ==
  ASSUME WellFormed, StoreInit
  PROVE  StoreInv
<1>1. Seeded \subseteq Teams /\ Teams \cap Requests = {} /\ NoKey \notin Keys BY DEF WellFormed, Keys
<1>2. \A t \in Teams : IsTeam(Seed(t)) /\ Seed(t).id = t /\ Seed(t).key = t
  BY DEF Seed, IsTeam, Keys
<1>3. \A k, t : <<k, t>> \in issued <=> k \in Seeded /\ t = k
  <2>1. issued = {<<t, t>> : t \in Seeded} BY DEF StoreInit
  <2> QED BY <2>1
<1>4. OneTeamPerKey(issued) BY <1>3 DEF OneTeamPerKey
<1>5. RowsAreSound
  <2>1. db = [t \in Teams |-> [status |-> IF t \in Seeded THEN "live" ELSE "absent", team |-> Seed(t)]] BY DEF StoreInit
  <2> QED BY <2>1, <1>2, <1>3 DEF RowsAreSound
<1>6. ChangesAreSound
  <2>1. req = [a \in Requests |-> Idle] BY DEF StoreInit
  <2>2. DOMAIN Idle = {"pc", "op", "home", "patch", "new"} /\ Idle.pc = "idle" BY DEF Idle
  <2> HIDE DEF Idle
  <2> QED BY <2>1, <2>2, <1>1, <1>3 DEF ChangesAreSound, InFlight, AdminSteps
<1>7. SnapshotsAreSound /\ RevocationHolds
  <2> DEFINE teams == {Seed(t) : t \in Seeded}
  <2>1. \A t \in teams : IsTeam(t) /\ (t.key # NoKey => <<t.key, t.id>> \in issued)
    BY <1>1, <1>2, <1>3
  <2>2. \A t, u \in teams : t.id = u.id => t = u
    BY <1>1, <1>2
  <2> HIDE DEF teams
  <2>3. SoundRegistry(NewRegistry(teams), issued) BY <2>1, <2>2, <1>4, LoadSound
  <2>4. /\ snap = [r \in Replicas |-> [registry |-> NewRegistry(teams), degraded |-> FALSE]]
        /\ loading = [r \in Replicas |-> {}] /\ dead = [r \in Replicas |-> {}] /\ loadedDead = [r \in Replicas |-> {}]
    BY DEF StoreInit, teams
  <2> QED BY <2>3, <2>4 DEF SnapshotsAreSound, RevocationHolds
<1> QED BY <1>4, <1>5, <1>6, <1>7 DEF StoreInv

\* A request begins.
LEMMA BeginStep ==
  ASSUME WellFormed, StoreInv, NEW a \in Requests, NEW r \in Replicas, NEW op \in Ops, NEW p, NEW new,
         IsTeam(new), op \in {"create", "rotate"} => new.key = a, op \in {"revoke", "delete"} => new.key = NoKey,
         Begin(a, r, op, p, new)
  PROVE  StoreInv'
<1> DEFINE q == [pc |-> "exec", op |-> op, home |-> r, patch |-> p, new |-> new]
<1>1. UNCHANGED <<db, snap, loading, issued, dead, loadedDead>> BY DEF Begin
<1>2. /\ req[a].pc = "idle" /\ DOMAIN req = Requests
      /\ req' = [req EXCEPT ![a] = q]
      /\ overlapped \subseteq overlapped'
      /\ (\E b \in Requests : InFlight(b) /\ req[b].new.id = new.id) => new.id \in overlapped'
  BY DEF Begin, StoreInv, ChangesAreSound, InFlight
<1>3. req'[a] = q /\ \A b \in Requests \ {a} : req'[b] = req[b] BY <1>2
<1>4. ChangesAreSound'
  <2>1. DOMAIN req' = Requests BY <1>2
  <2>2. ASSUME NEW b \in Requests
        PROVE  /\ DOMAIN req'[b] = {"pc", "op", "home", "patch", "new"} /\ req'[b].pc \in AdminSteps
               /\ req'[b].pc \in {"idle", "exec"} => \A t \in Teams : <<b, t>> \notin issued'
               /\ InFlight(b)' =>
                    /\ req'[b].op \in Ops /\ req'[b].home \in Replicas /\ IsTeam(req'[b].new)
                    /\ req'[b].op \in {"create", "rotate"} => req'[b].new.key = b
                    /\ req'[b].op \in {"revoke", "delete"} => req'[b].new.key = NoKey
               /\ req'[b].pc = "apply" /\ req'[b].op \in {"create", "rotate"} =>
                    /\ <<b, req'[b].new.id>> \in issued'
                    /\ req'[b].new.id \notin overlapped' =>
                         db'[req'[b].new.id].status = "live" /\ db'[req'[b].new.id].team.key = b
    <3>1. CASE b = a
      <4>1. \A t \in Teams : <<a, t>> \notin issued BY <1>2 DEF StoreInv, ChangesAreSound
      <4> QED BY <3>1, <4>1, <1>1, <1>3 DEF InFlight, AdminSteps
    <3>2. CASE b # a
      <4>1. req'[b] = req[b] BY <3>2, <1>3
      <4> QED BY <4>1, <1>1, <1>2 DEF StoreInv, ChangesAreSound, InFlight
    <3> QED BY <3>1, <3>2
  <2>3. ASSUME NEW b \in Requests, NEW c \in Requests, b # c, InFlight(b)', InFlight(c)', req'[b].new.id = req'[c].new.id
        PROVE  req'[b].new.id \in overlapped'
    <3>1. CASE b = a
      <4>1. req'[c] = req[c] /\ req'[b].new.id = new.id BY <2>3, <3>1, <1>3
      <4> QED BY <4>1, <2>3, <1>2 DEF InFlight
    <3>2. CASE c = a
      <4>1. req'[b] = req[b] /\ req'[c].new.id = new.id BY <2>3, <3>2, <1>3
      <4> QED BY <4>1, <2>3, <1>2 DEF InFlight
    <3>3. CASE b # a /\ c # a
      <4>1. req'[b] = req[b] /\ req'[c] = req[c] BY <3>3, <1>3
      <4> QED BY <4>1, <2>3, <1>2 DEF StoreInv, ChangesAreSound, InFlight
    <3> QED BY <3>1, <3>2, <3>3
  <2> QED BY <2>1, <2>2, <2>3 DEF ChangesAreSound, InFlight
<1>5. SnapshotsAreSound' BY <1>1 DEF StoreInv, SnapshotsAreSound
<1>6. RevocationHolds' BY <1>1, <1>2 DEF StoreInv, RevocationHolds, Authenticate
<1> QED BY <1>1, <1>4, <1>5, <1>6 DEF StoreInv, RowsAreSound, OneTeamPerKey

\* A key that is gone does not come back: no row gets one but the key its request minted.
LEMMA GoneStays ==
  ASSUME WellFormed, RowsAreSound, NEW t \in Teams, NEW table, NEW ever,
         issued \subseteq ever,
         \A u \in Teams \ {t} : table[u] = db[u],
         table[t].status = "live" =>
           \/ db[t].status = "live" /\ table[t].team.key = db[t].team.key
           \/ table[t].team.key = NoKey
           \/ \A u \in Teams : <<table[t].team.key, u>> \notin issued
  PROVE  Gone(db, issued) \subseteq Gone(table, ever)
<1> SUFFICES ASSUME NEW k \in Gone(db, issued) PROVE k \in Gone(table, ever) OBVIOUS
<1>1. k \in Keys /\ k # NoKey /\ (\E u \in Teams : <<k, u>> \in issued)
      /\ \A u \in Teams : db[u].status = "live" => db[u].team.key # k
  BY DEF Gone, WellFormed, Keys
<1>2. \A u \in Teams : table[u].status = "live" => table[u].team.key # k BY <1>1
<1> QED BY <1>1, <1>2 DEF Gone

LEMMA MoreIssued ==
  ASSUME NEW g, NEW ever, NEW more, ever \subseteq more, SoundRegistry(g, ever)
  PROVE  SoundRegistry(g, more)
BY DEF SoundRegistry

\* The row a statement leaves.
LEMMA WrittenRow ==
  ASSUME NEW q, NEW a, NEW row, q.op \in Ops, IsTeam(q.new),
         q.op \in {"create", "rotate"} => q.new.key = a,
         q.op \in {"revoke", "delete"} => q.new.key = NoKey,
         DOMAIN row = {"status", "team"}, IsTeam(row.team), row.team.id = q.new.id,
         row.status = IF q.op = "create" THEN "absent" ELSE "live"
  PROVE  LET w == written(q, row)
         IN  /\ DOMAIN w = {"status", "team"} /\ IsTeam(w.team) /\ w.team.id = q.new.id
             /\ q.op \in {"create", "rotate"} => w.status = "live" /\ w.team.key = a
             /\ q.op = "patch" => row.status = "live" /\ w.status = "live" /\ w.team.key = row.team.key
             /\ q.op \in {"revoke", "delete"} => w.team.key = NoKey
<1>1. CASE q.op = "create" BY <1>1 DEF written
<1>2. CASE q.op = "patch" BY <1>2 DEF written, IsTeam
<1>3. CASE q.op = "delete" BY <1>3 DEF written, IsTeam
<1>4. CASE q.op = "rotate" BY <1>4 DEF written, IsTeam
<1>5. CASE q.op = "revoke" BY <1>5 DEF written, IsTeam
<1> QED BY <1>1, <1>2, <1>3, <1>4, <1>5 DEF Ops

LEMMA ExecStep ==
  ASSUME WellFormed, StoreInv, NEW a \in Requests, NEW out, Exec(a, out)
  PROVE  StoreInv'
<1> DEFINE t == req[a].new.id
           mints == req[a].op \in {"create", "rotate"}
<1>1. UNCHANGED <<snap, loading, overlapped, dead, loadedDead>> BY DEF Exec
<1>2. /\ req[a].pc = "exec" /\ InFlight(a) /\ DOMAIN req = Requests
      /\ DOMAIN req[a] = {"pc", "op", "home", "patch", "new"}
      /\ req[a].op \in Ops /\ req[a].home \in Replicas /\ IsTeam(req[a].new) /\ t \in Teams
      /\ mints => req[a].new.key = a
      /\ req[a].op \in {"revoke", "delete"} => req[a].new.key = NoKey
      /\ \A u \in Teams : <<a, u>> \notin issued
  BY DEF Exec, StoreInv, ChangesAreSound, InFlight, IsTeam
<1>3. NoKey \notin Keys /\ a \in Keys BY DEF WellFormed, Keys
<1>4. /\ DOMAIN db = Teams /\ DOMAIN db[t] = {"status", "team"} /\ IsTeam(db[t].team) /\ db[t].team.id = t
      /\ db[t].status = "live" /\ db[t].team.key # NoKey => <<db[t].team.key, t>> \in issued
  BY <1>2 DEF StoreInv, RowsAreSound
\* Nothing is written, or the row and what it issues.
<1>5. /\ \/ db' = db /\ issued' = issued
         \/ /\ db[t].status = IF req[a].op = "create" THEN "absent" ELSE "live"
            /\ db' = [db EXCEPT ![t] = written(req[a], db[t])]
            /\ issued' = IF db'[t].team.key = NoKey THEN issued ELSE issued \cup {<<db'[t].team.key, t>>}
      /\ \/ req' = [req EXCEPT ![a] = Done]
         \/ /\ req' = [req EXCEPT ![a] = [req[a] EXCEPT !.pc = "apply"]]
            /\ db[t].status = IF req[a].op = "create" THEN "absent" ELSE "live"
            /\ db' = [db EXCEPT ![t] = written(req[a], db[t])]
            /\ issued' = IF db'[t].team.key = NoKey THEN issued ELSE issued \cup {<<db'[t].team.key, t>>}
  BY DEF Exec, matches
<1>6. ASSUME db[t].status = IF req[a].op = "create" THEN "absent" ELSE "live",
             db' = [db EXCEPT ![t] = written(req[a], db[t])],
             issued' = IF db'[t].team.key = NoKey THEN issued ELSE issued \cup {<<db'[t].team.key, t>>}
      PROVE  /\ DOMAIN db' = Teams /\ DOMAIN db'[t] = {"status", "team"} /\ IsTeam(db'[t].team) /\ db'[t].team.id = t
             /\ \A u \in Teams \ {t} : db'[u] = db[u]
             /\ mints => db'[t].status = "live" /\ db'[t].team.key = a /\ issued' = issued \cup {<<a, t>>}
             /\ ~ mints => issued' = issued
             /\ db'[t].status = "live" =>
                  \/ db[t].status = "live" /\ db'[t].team.key = db[t].team.key
                  \/ db'[t].team.key = NoKey
                  \/ mints /\ db'[t].team.key = a
  <2> DEFINE w == written(req[a], db[t])
  <2>1. /\ DOMAIN w = {"status", "team"} /\ IsTeam(w.team) /\ w.team.id = t
        /\ mints => w.status = "live" /\ w.team.key = a
        /\ req[a].op = "patch" => db[t].status = "live" /\ w.status = "live" /\ w.team.key = db[t].team.key
        /\ req[a].op \in {"revoke", "delete"} => w.team.key = NoKey
    <3>1. PICK q, row : q = req[a] /\ row = db[t] OBVIOUS
    <3>2. /\ q.op \in Ops /\ IsTeam(q.new)
          /\ q.op \in {"create", "rotate"} => q.new.key = a
          /\ q.op \in {"revoke", "delete"} => q.new.key = NoKey
          /\ DOMAIN row = {"status", "team"} /\ IsTeam(row.team) /\ row.team.id = q.new.id
          /\ row.status = IF q.op = "create" THEN "absent" ELSE "live"
      BY <3>1, <1>2, <1>4, <1>6
    <3>3. LET v == written(q, row)
          IN  /\ DOMAIN v = {"status", "team"} /\ IsTeam(v.team) /\ v.team.id = q.new.id
              /\ q.op \in {"create", "rotate"} => v.status = "live" /\ v.team.key = a
              /\ q.op = "patch" => row.status = "live" /\ v.status = "live" /\ v.team.key = row.team.key
              /\ q.op \in {"revoke", "delete"} => v.team.key = NoKey
      BY <3>2, WrittenRow
    <3> QED BY <3>1, <3>3
  <2>2. db'[t] = w /\ DOMAIN db' = Teams /\ \A u \in Teams \ {t} : db'[u] = db[u]
    BY <1>2, <1>4, <1>6
  <2> HIDE DEF w
  <2>3. mints => issued' = issued \cup {<<a, t>>} BY <2>1, <2>2, <1>3, <1>6
  <2>4. ~ mints => issued' = issued
    <3>1. CASE req[a].op = "patch" BY <3>1, <2>1, <2>2, <1>4, <1>6, ZenonT(60)
    <3>2. CASE req[a].op \in {"revoke", "delete"} BY <3>2, <2>1, <2>2, <1>6
    <3> QED BY <3>1, <3>2, <1>2 DEF Ops
  <2>5. w.status = "live" =>
                  \/ db[t].status = "live" /\ w.team.key = db[t].team.key
                  \/ w.team.key = NoKey
                  \/ mints /\ w.team.key = a
    BY <2>1, <1>2 DEF Ops
  <2> QED BY <2>1, <2>2, <2>3, <2>4, <2>5
<1> DEFINE wrote == /\ db[t].status = IF req[a].op = "create" THEN "absent" ELSE "live"
                    /\ db' = [db EXCEPT ![t] = written(req[a], db[t])]
                    /\ issued' = IF db'[t].team.key = NoKey THEN issued ELSE issued \cup {<<db'[t].team.key, t>>}
<1>7. issued \subseteq issued' /\ issued' \subseteq issued \cup {<<a, t>>}
  BY <1>5, <1>6
<1>8. OneTeamPerKey(issued)'
  <2> SUFFICES ASSUME NEW k \in Keys, NEW u \in Teams, NEW v \in Teams, <<k, u>> \in issued', <<k, v>> \in issued'
               PROVE  u = v
    BY DEF OneTeamPerKey
  <2>1. CASE k = a
    <3>1. <<k, u>> = <<a, t>> /\ <<k, v>> = <<a, t>> BY <2>1, <1>2, <1>7
    <3> QED BY <3>1
  <2>2. CASE k # a
    <3>1. <<k, u>> \in issued /\ <<k, v>> \in issued BY <2>2, <1>7
    <3> QED BY <3>1 DEF StoreInv, OneTeamPerKey
  <2> QED BY <2>1, <2>2
<1>9. /\ DOMAIN db' = Teams
      /\ \A u \in Teams \ {t} : db'[u] = db[u]
      /\ DOMAIN db'[t] = {"status", "team"} /\ IsTeam(db'[t].team) /\ db'[t].team.id = t
      /\ db'[t].status = "live" =>
                  \/ db[t].status = "live" /\ db'[t].team.key = db[t].team.key
                  \/ db'[t].team.key = NoKey
                  \/ mints /\ db'[t].team.key = a /\ <<a, t>> \in issued'
  BY <1>4, <1>5, <1>6
<1>10. RowsAreSound'
  <2> SUFFICES ASSUME NEW u \in Teams
               PROVE  /\ DOMAIN db'[u] = {"status", "team"} /\ IsTeam(db'[u].team) /\ db'[u].team.id = u
                      /\ db'[u].status = "live" /\ db'[u].team.key # NoKey => <<db'[u].team.key, u>> \in issued'
    BY <1>9 DEF RowsAreSound
  <2>1. CASE u = t BY <2>1, <1>4, <1>7, <1>9
  <2>2. CASE u # t BY <2>2, <1>7, <1>9 DEF StoreInv, RowsAreSound
  <2> QED BY <2>1, <2>2
<1>11. Gone(db, issued) \subseteq Gone(db, issued)'
  <2>1. \A u \in Teams : <<a, u>> \notin issued BY <1>2
  <2>2. Gone(db, issued) \subseteq Gone(db', issued')
    BY <2>1, <1>2, <1>7, <1>9, GoneStays DEF StoreInv
  <2> QED BY <2>2 DEF Gone
<1>12. SnapshotsAreSound'
  <2>1. \A r \in Replicas : /\ SoundRegistry(snap[r].registry, issued')
                            /\ \A g \in loading[r] : SoundRegistry(g, issued')
    BY <1>7, MoreIssued DEF StoreInv, SnapshotsAreSound
  <2>2. \A r \in Replicas : dead[r] \subseteq Gone(db, issued)' /\ loadedDead[r] \subseteq Gone(db, issued)'
    BY <1>11 DEF StoreInv, SnapshotsAreSound
  <2> QED BY <2>1, <2>2, <1>1 DEF StoreInv, SnapshotsAreSound
<1>13. RevocationHolds' BY <1>1 DEF StoreInv, RevocationHolds, Authenticate
<1>14. DOMAIN Done = {"pc", "op", "home", "patch", "new"} /\ Done.pc = "done" BY DEF Done, Idle
<1>15. /\ DOMAIN req' = Requests /\ \A b \in Requests \ {a} : req'[b] = req[b]
       /\ \/ req'[a] = Done
          \/ req'[a] = [req[a] EXCEPT !.pc = "apply"] /\ wrote
  BY <1>2, <1>5
<1>16. ChangesAreSound'
  <2>1. ASSUME NEW b \in Requests
        PROVE  /\ DOMAIN req'[b] = {"pc", "op", "home", "patch", "new"} /\ req'[b].pc \in AdminSteps
               /\ req'[b].pc \in {"idle", "exec"} => \A u \in Teams : <<b, u>> \notin issued'
               /\ InFlight(b)' =>
                    /\ req'[b].op \in Ops /\ req'[b].home \in Replicas /\ IsTeam(req'[b].new)
                    /\ req'[b].op \in {"create", "rotate"} => req'[b].new.key = b
                    /\ req'[b].op \in {"revoke", "delete"} => req'[b].new.key = NoKey
               /\ req'[b].pc = "apply" /\ req'[b].op \in {"create", "rotate"} =>
                    /\ <<b, req'[b].new.id>> \in issued'
                    /\ req'[b].new.id \notin overlapped' =>
                         db'[req'[b].new.id].status = "live" /\ db'[req'[b].new.id].team.key = b
    <3>1. CASE b = a /\ req'[a] = Done BY <3>1, <1>14 DEF InFlight, AdminSteps
    <3>2. CASE b = a /\ req'[a] = [req[a] EXCEPT !.pc = "apply"] /\ wrote
      <4>1. /\ req'[a].op = req[a].op /\ req'[a].home = req[a].home /\ req'[a].new = req[a].new
            /\ req'[a].pc = "apply" /\ DOMAIN req'[a] = {"pc", "op", "home", "patch", "new"}
        BY <3>2, <1>2
      <4>2. mints => db'[t].status = "live" /\ db'[t].team.key = a /\ <<a, t>> \in issued'
        BY <3>2, <1>6
      <4> QED BY <4>1, <4>2, <3>2, <1>2 DEF AdminSteps
    <3>3. CASE b # a
      <4>1. req'[b] = req[b] BY <3>3, <1>15
      <4>2. req[b].pc \in {"idle", "exec"} => \A u \in Teams : <<b, u>> \notin issued'
        <5>1. \A u \in Teams : <<b, u>> # <<a, t>> BY <3>3
        <5> QED BY <5>1, <1>7 DEF StoreInv, ChangesAreSound
      <4>3. req[b].pc = "apply" /\ req[b].new.id \notin overlapped => req[b].new.id \in Teams \ {t}
        BY <3>3, <1>2 DEF StoreInv, ChangesAreSound, InFlight, IsTeam
      <4>4. /\ DOMAIN req[b] = {"pc", "op", "home", "patch", "new"} /\ req[b].pc \in AdminSteps
            /\ InFlight(b) =>
                    /\ req[b].op \in Ops /\ req[b].home \in Replicas /\ IsTeam(req[b].new)
                    /\ req[b].op \in {"create", "rotate"} => req[b].new.key = b
                    /\ req[b].op \in {"revoke", "delete"} => req[b].new.key = NoKey
            /\ req[b].pc = "apply" /\ req[b].op \in {"create", "rotate"} =>
                    /\ <<b, req[b].new.id>> \in issued
                    /\ req[b].new.id \notin overlapped =>
                         db[req[b].new.id].status = "live" /\ db[req[b].new.id].team.key = b
        BY DEF StoreInv, ChangesAreSound
      <4> QED BY <4>1, <4>2, <4>3, <4>4, <1>1, <1>7, <1>9 DEF InFlight
    <3> QED BY <3>1, <3>2, <3>3, <1>15
  <2>2. ASSUME NEW b \in Requests, InFlight(b)' PROVE InFlight(b) /\ req'[b].new = req[b].new
    <3>1. CASE b = a BY <3>1, <2>2, <1>2, <1>14, <1>15 DEF InFlight
    <3>2. CASE b # a BY <3>2, <2>2, <1>15 DEF InFlight
    <3> QED BY <3>1, <3>2
  <2>3. ASSUME NEW b \in Requests, NEW c \in Requests, b # c, InFlight(b)', InFlight(c)', req'[b].new.id = req'[c].new.id
        PROVE  req'[b].new.id \in overlapped'
    BY <2>2, <2>3, <1>1 DEF StoreInv, ChangesAreSound
  <2> QED BY <2>1, <2>3, <1>15 DEF ChangesAreSound, InFlight
<1> QED BY <1>8, <1>10, <1>12, <1>13, <1>16 DEF StoreInv

LEMMA WriteThroughStep ==
  ASSUME WellFormed, StoreInv, NEW a \in Requests, WriteThrough(a)
  PROVE  StoreInv'
<1> DEFINE q == req[a]
           id == q.new.id
           r == q.home
           g == snap[r].registry
           h == applied(q, g)
           mints == q.op \in {"create", "rotate"}
           former == {k \in Gone(db, issued) : <<k, id>> \in issued}
<1>1. /\ q.pc = "apply" /\ InFlight(a)
      /\ snap' = [snap EXCEPT ![r].registry = h]
      /\ req' = [req EXCEPT ![a] = Done]
      /\ dead' = IF q.op \in {"create", "patch"} THEN dead ELSE [dead EXCEPT ![r] = @ \cup former]
      /\ UNCHANGED <<db, loading, issued, overlapped, loadedDead>>
  BY DEF WriteThrough, InFlight
<1>2. /\ DOMAIN req = Requests /\ q.op \in Ops /\ r \in Replicas /\ IsTeam(q.new) /\ id \in Teams
      /\ mints => /\ q.new.key = a /\ <<a, id>> \in issued
                  /\ id \notin overlapped => db[id].status = "live" /\ db[id].team.key = a
  BY <1>1 DEF StoreInv, ChangesAreSound, IsTeam
<1>3. /\ DOMAIN snap = Replicas /\ DOMAIN dead = Replicas /\ DOMAIN snap[r] = {"registry", "degraded"}
      /\ SoundRegistry(g, issued)
  BY <1>2 DEF StoreInv, SnapshotsAreSound
<1>4. /\ SoundRegistry(h, issued)
      /\ \A k \in Keys : k \in DOMAIN h.byHash =>
           \/ k = a /\ mints /\ h.byHash[k].id = id
           \/ /\ k \in DOMAIN g.byHash /\ h.byHash[k].id = g.byHash[k].id
              /\ q.op \in {"rotate", "revoke", "delete"} => g.byHash[k].id # id
  <2>1. PICK x, f : x = req[a] /\ f = g OBVIOUS
  <2>2. /\ OneTeamPerKey(issued) /\ SoundRegistry(f, issued) /\ IsTeam(x.new) /\ x.op \in Ops
        /\ x.op \in {"create", "rotate"} => x.new.key = a /\ <<a, x.new.id>> \in issued
    BY <2>1, <1>2, <1>3 DEF StoreInv
  <2>3. /\ SoundRegistry(applied(x, f), issued)
        /\ \A k \in Keys : k \in DOMAIN applied(x, f).byHash =>
             \/ k = a /\ x.op \in {"create", "rotate"} /\ applied(x, f).byHash[k].id = x.new.id
             \/ /\ k \in DOMAIN f.byHash /\ applied(x, f).byHash[k].id = f.byHash[k].id
                /\ x.op \in {"rotate", "revoke", "delete"} => f.byHash[k].id # x.new.id
    BY <2>2, AppliedSound
  <2> QED BY <2>1, <2>3
<1> HIDE DEF h
<1>5. /\ DOMAIN snap' = Replicas /\ snap'[r].registry = h /\ DOMAIN snap'[r] = {"registry", "degraded"}
      /\ \A s \in Replicas \ {r} : snap'[s] = snap[s]
  BY <1>1, <1>2, <1>3
<1>6. /\ DOMAIN dead' = Replicas /\ \A s \in Replicas \ {r} : dead'[s] = dead[s]
      /\ dead'[r] \subseteq dead[r] \cup former
      /\ q.op \in {"create", "patch"} => dead'[r] = dead[r]
  BY <1>1, <1>2, <1>3
<1>7. \A s \in Replicas : dead'[s] \subseteq Gone(db, issued)
  BY <1>6, <1>2 DEF StoreInv, SnapshotsAreSound
<1>8. SnapshotsAreSound'
  <2>1. \A s \in Replicas : DOMAIN snap'[s] = {"registry", "degraded"} /\ SoundRegistry(snap'[s].registry, issued)
    BY <1>4, <1>5 DEF StoreInv, SnapshotsAreSound
  <2>2. Gone(db, issued)' = Gone(db, issued) BY <1>1 DEF Gone
  <2> QED BY <2>1, <2>2, <1>1, <1>5, <1>6, <1>7 DEF StoreInv, SnapshotsAreSound
<1>9. RevocationHolds'
  <2> SUFFICES ASSUME NEW s \in Replicas, NEW k \in dead'[s], Authenticate(snap'[s].registry, k)
               PROVE  snap'[s].registry.byHash[k].id \in overlapped
    BY <1>1 DEF RevocationHolds
  <2>1. CASE s # r
    BY <2>1, <1>5, <1>6 DEF StoreInv, RevocationHolds
  <2>2. CASE s = r
    <3>1. k \in Gone(db, issued) BY <1>7
    <3>2. k \in Keys /\ k # NoKey /\ \A u \in Teams : db[u].status = "live" => db[u].team.key # k
      BY <3>1 DEF Gone, WellFormed, Keys
    <3>3. k \in DOMAIN h.byHash BY <2>2, <1>5 DEF Authenticate
    <3>4. CASE k = a /\ mints /\ h.byHash[k].id = id
      BY <3>4, <3>2, <2>2, <1>2, <1>5
    <3>5. CASE /\ k \in DOMAIN g.byHash /\ h.byHash[k].id = g.byHash[k].id
               /\ q.op \in {"rotate", "revoke", "delete"} => g.byHash[k].id # id
      <4>1. /\ g.byHash[k].key = k /\ g.byHash[k].id \in DOMAIN g.byID /\ g.byHash[k].id \in Teams
            /\ <<k, g.byHash[k].id>> \in issued
        BY <3>2, <3>5, <1>3, ZenonT(60) DEF SoundRegistry
      <4>2. k \in dead[r]
        <5>1. CASE q.op \in {"create", "patch"} BY <5>1, <2>2, <1>6
        <5>2. CASE q.op \in {"rotate", "revoke", "delete"}
          <6>1. <<k, id>> \notin issued BY <5>2, <4>1, <3>2, <3>5, <1>2 DEF StoreInv, OneTeamPerKey
          <6> QED BY <6>1, <2>2, <1>6
        <5> QED BY <5>1, <5>2, <1>2 DEF Ops
      <4>3. Authenticate(g, k) BY <4>1, <3>2, <3>5 DEF Authenticate
      <4>4. g.byHash[k].id \in overlapped BY <4>2, <4>3, <1>2 DEF StoreInv, RevocationHolds
      <4> QED BY <4>4, <3>5, <2>2, <1>5
    <3> QED BY <3>2, <3>3, <3>4, <3>5, <1>4
  <2> QED BY <2>1, <2>2
<1>10. DOMAIN Done = {"pc", "op", "home", "patch", "new"} /\ Done.pc = "done" BY DEF Done, Idle
<1>11. /\ DOMAIN req' = Requests /\ req'[a] = Done /\ \A b \in Requests \ {a} : req'[b] = req[b]
  BY <1>1, <1>2
<1>12. ChangesAreSound'
  <2>1. ASSUME NEW b \in Requests
        PROVE  /\ DOMAIN req'[b] = {"pc", "op", "home", "patch", "new"} /\ req'[b].pc \in AdminSteps
               /\ req'[b].pc \in {"idle", "exec"} => \A u \in Teams : <<b, u>> \notin issued'
               /\ InFlight(b)' =>
                    /\ req'[b].op \in Ops /\ req'[b].home \in Replicas /\ IsTeam(req'[b].new)
                    /\ req'[b].op \in {"create", "rotate"} => req'[b].new.key = b
                    /\ req'[b].op \in {"revoke", "delete"} => req'[b].new.key = NoKey
               /\ req'[b].pc = "apply" /\ req'[b].op \in {"create", "rotate"} =>
                    /\ <<b, req'[b].new.id>> \in issued'
                    /\ req'[b].new.id \notin overlapped' =>
                         db'[req'[b].new.id].status = "live" /\ db'[req'[b].new.id].team.key = b
    <3>1. CASE b = a BY <3>1, <1>10, <1>11 DEF InFlight, AdminSteps
    <3>2. CASE b # a
      <4>1. req'[b] = req[b] BY <3>2, <1>11
      <4> QED BY <4>1, <1>1 DEF StoreInv, ChangesAreSound, InFlight
    <3> QED BY <3>1, <3>2
  <2>2. ASSUME NEW b \in Requests, InFlight(b)' PROVE InFlight(b) /\ req'[b] = req[b]
    BY <2>2, <1>10, <1>11 DEF InFlight
  <2>3. ASSUME NEW b \in Requests, NEW c \in Requests, b # c, InFlight(b)', InFlight(c)', req'[b].new.id = req'[c].new.id
        PROVE  req'[b].new.id \in overlapped'
    BY <2>2, <2>3, <1>1 DEF StoreInv, ChangesAreSound
  <2> QED BY <2>1, <2>3, <1>11 DEF ChangesAreSound, InFlight
<1>13. OneTeamPerKey(issued)' /\ RowsAreSound' BY <1>1 DEF StoreInv, RowsAreSound, OneTeamPerKey
<1> QED BY <1>8, <1>9, <1>12, <1>13 DEF StoreInv

LEMMA RefreshLoadStep ==
  ASSUME WellFormed, StoreInv, NEW r \in Replicas, NEW ok \in BOOLEAN, RefreshLoad(r, ok)
  PROVE  StoreInv'
<1>1. UNCHANGED <<db, req, issued, overlapped>> BY DEF RefreshLoad
<1>2. /\ ChangesAreSound' /\ OneTeamPerKey(issued)' /\ RowsAreSound'
      /\ Gone(db, issued)' = Gone(db, issued)
  BY <1>1 DEF StoreInv, RowsAreSound, OneTeamPerKey, ChangesAreSound, InFlight, Gone
<1>3. CASE markDegraded(r)
  <2>1. /\ DOMAIN snap' = Replicas /\ UNCHANGED <<loading, dead, loadedDead>>
        /\ \A s \in Replicas : DOMAIN snap'[s] = {"registry", "degraded"} /\ snap'[s].registry = snap[s].registry
    BY <1>3 DEF markDegraded, StoreInv, SnapshotsAreSound
  <2>2. SnapshotsAreSound' BY <2>1, <1>1, <1>2 DEF StoreInv, SnapshotsAreSound
  <2>3. RevocationHolds' BY <2>1, <1>1 DEF StoreInv, RevocationHolds
  <2> QED BY <2>2, <2>3, <1>2 DEF StoreInv
<1>4. CASE /\ loading' = [loading EXCEPT ![r] = {NewRegistry(selectTeams)}]
           /\ loadedDead' = [loadedDead EXCEPT ![r] = Gone(db, issued)]
           /\ UNCHANGED <<snap, dead>>
  <2> DEFINE h == NewRegistry(selectTeams)
  <2>1. \A t \in selectTeams : /\ IsTeam(t) /\ (t.key # NoKey => <<t.key, t.id>> \in issued)
                               /\ \E u \in Teams : db[u].status = "live" /\ t = db[u].team /\ t.id = u
    BY ZenonT(60) DEF selectTeams, Live, StoreInv, RowsAreSound
  <2>2. \A t, u \in selectTeams : t.id = u.id => t = u
    <3> SUFFICES ASSUME NEW t \in selectTeams, NEW u \in selectTeams, t.id = u.id PROVE t = u
      OBVIOUS
    <3>1. PICK v \in Teams : t = db[v].team /\ t.id = v BY <2>1
    <3>2. PICK w \in Teams : u = db[w].team /\ u.id = w BY <2>1
    <3> QED BY <3>1, <3>2
  <2>3. /\ SoundRegistry(h, issued)
        /\ DOMAIN h.byHash = {t.key : t \in {u \in selectTeams : u.key # NoKey}}
    BY <2>1, <2>2, LoadSound DEF StoreInv
  <2>4. \A k \in DOMAIN h.byHash : \E u \in Teams : db[u].status = "live" /\ db[u].team.key = k
    <3> SUFFICES ASSUME NEW k \in DOMAIN h.byHash
                 PROVE  \E u \in Teams : db[u].status = "live" /\ db[u].team.key = k
      OBVIOUS
    <3>1. PICK t \in selectTeams : k = t.key BY <2>3
    <3>2. PICK u \in Teams : db[u].status = "live" /\ t = db[u].team BY <2>1
    <3> QED BY <3>1, <3>2
  <2>5. DOMAIN h.byHash \cap Gone(db, issued) = {} BY <2>4 DEF Gone
  <2> HIDE DEF h
  <2>6. /\ DOMAIN loading' = Replicas /\ loading'[r] = {h} /\ DOMAIN loadedDead' = Replicas
        /\ loadedDead'[r] = Gone(db, issued)
        /\ \A s \in Replicas \ {r} : loading'[s] = loading[s] /\ loadedDead'[s] = loadedDead[s]
    BY <1>4 DEF h, StoreInv, SnapshotsAreSound
  <2>7. ASSUME NEW s \in Replicas
        PROVE  /\ \A g \in loading'[s] : SoundRegistry(g, issued) /\ DOMAIN g.byHash \cap loadedDead'[s] = {}
               /\ loadedDead'[s] \subseteq Gone(db, issued)
    <3>1. CASE s = r BY <3>1, <2>3, <2>5, <2>6
    <3>2. CASE s # r BY <3>2, <2>6 DEF StoreInv, SnapshotsAreSound
    <3> QED BY <3>1, <3>2
  <2>8. SnapshotsAreSound' BY <2>6, <2>7, <1>1, <1>2, <1>4 DEF StoreInv, SnapshotsAreSound
  <2>9. RevocationHolds' BY <1>1, <1>4 DEF StoreInv, RevocationHolds
  <2> QED BY <2>8, <2>9, <1>2 DEF StoreInv
<1> QED BY <1>3, <1>4 DEF RefreshLoad

LEMMA RefreshStoreStep ==
  ASSUME WellFormed, StoreInv, NEW r \in Replicas, RefreshStore(r)
  PROVE  StoreInv'
<1>1. UNCHANGED <<db, req, issued, overlapped>> BY DEF RefreshStore
<1>2. /\ ChangesAreSound' /\ OneTeamPerKey(issued)' /\ RowsAreSound'
      /\ Gone(db, issued)' = Gone(db, issued)
  BY <1>1 DEF StoreInv, RowsAreSound, OneTeamPerKey, ChangesAreSound, InFlight, Gone
<1>3. PICK g \in loading[r] : snap' = [snap EXCEPT ![r] = [registry |-> g, degraded |-> FALSE]]
  BY DEF RefreshStore
<1>4. SoundRegistry(g, issued) /\ DOMAIN g.byHash \cap loadedDead[r] = {}
  BY DEF StoreInv, SnapshotsAreSound
<1>5. /\ DOMAIN snap' = Replicas /\ DOMAIN snap'[r] = {"registry", "degraded"} /\ snap'[r].registry = g
      /\ \A s \in Replicas \ {r} : snap'[s] = snap[s]
  BY <1>3 DEF StoreInv, SnapshotsAreSound
<1>6. /\ DOMAIN loading' = Replicas /\ DOMAIN dead' = Replicas /\ DOMAIN loadedDead' = Replicas
      /\ loading'[r] = {} /\ dead'[r] = loadedDead[r] /\ loadedDead'[r] = {}
      /\ \A s \in Replicas \ {r} : loading'[s] = loading[s] /\ dead'[s] = dead[s] /\ loadedDead'[s] = loadedDead[s]
  BY DEF RefreshStore, StoreInv, SnapshotsAreSound
<1>7. SnapshotsAreSound'
  <2>1. ASSUME NEW s \in Replicas
        PROVE  /\ DOMAIN snap'[s] = {"registry", "degraded"} /\ SoundRegistry(snap'[s].registry, issued)
               /\ \A f \in loading'[s] : SoundRegistry(f, issued) /\ DOMAIN f.byHash \cap loadedDead'[s] = {}
               /\ dead'[s] \subseteq Gone(db, issued) /\ loadedDead'[s] \subseteq Gone(db, issued)
    <3>1. CASE s = r BY <3>1, <1>4, <1>5, <1>6 DEF StoreInv, SnapshotsAreSound
    <3>2. CASE s # r BY <3>2, <1>5, <1>6 DEF StoreInv, SnapshotsAreSound
    <3> QED BY <3>1, <3>2
  <2> QED BY <2>1, <1>1, <1>2, <1>5, <1>6 DEF SnapshotsAreSound
<1>8. RevocationHolds'
  <2> SUFFICES ASSUME NEW s \in Replicas, NEW k \in dead'[s], Authenticate(snap'[s].registry, k)
               PROVE  snap'[s].registry.byHash[k].id \in overlapped
    BY <1>1 DEF RevocationHolds
  <2>1. CASE s = r BY <2>1, <1>4, <1>5, <1>6 DEF Authenticate
  <2>2. CASE s # r BY <2>2, <1>5, <1>6 DEF StoreInv, RevocationHolds
  <2> QED BY <2>1, <2>2
<1> QED BY <1>2, <1>7, <1>8 DEF StoreInv

LEMMA StoreStep ==
  ASSUME WellFormed, StoreInv, [StoreNext]_storeVars
  PROVE  StoreInv'
<1>1. ASSUME NEW r \in Replicas, NEW t, Get(snap[r].registry, t)
      PROVE  IsTeam(snap[r].registry.byID[t]) /\ snap[r].registry.byID[t].id \in Teams
  BY <1>1, ZenonT(60) DEF StoreInv, SnapshotsAreSound, SoundRegistry, Get, IsTeam
<1>2. \A a \in Requests : a \in Keys BY DEF Keys
<1>3. ASSUME NEW a \in Requests, NEW r \in Replicas, NEW t \in Teams, NEW p \in Patches, PatchTeam(a, r, t, p)
      PROVE  StoreInv'
  <2>1. IsTeam(merged(p, snap[r].registry.byID[t])) BY <1>1, <1>3 DEF PatchTeam, merged, IsTeam
  <2> QED BY <2>1, <1>3, BeginStep DEF PatchTeam, Ops
<1>4. ASSUME NEW a \in Requests, NEW r \in Replicas, NEW t \in Teams, RotateTeamKey(a, r, t)
      PROVE  StoreInv'
  <2> DEFINE new == [snap[r].registry.byID[t] EXCEPT !.key = a]
  <2>1. IsTeam(new) /\ new.key = a BY <1>1, <1>2, <1>4 DEF RotateTeamKey, IsTeam
  <2>2. Begin(a, r, "rotate", NoPatch, new) BY <1>4 DEF RotateTeamKey
  <2> HIDE DEF new
  <2> QED BY <2>1, <2>2, BeginStep DEF Ops
<1>5. ASSUME NEW a \in Requests, NEW r \in Replicas, NEW t \in Teams, RevokeTeamKey(a, r, t)
      PROVE  StoreInv'
  <2> DEFINE new == [snap[r].registry.byID[t] EXCEPT !.key = NoKey]
  <2>1. IsTeam(new) /\ new.key = NoKey BY <1>1, <1>5 DEF RevokeTeamKey, IsTeam
  <2>2. Begin(a, r, "revoke", NoPatch, new) BY <1>5 DEF RevokeTeamKey
  <2> HIDE DEF new
  <2> QED BY <2>1, <2>2, BeginStep DEF Ops
<1>6. ASSUME NEW a \in Requests, NEW r \in Replicas, NEW t \in Teams, DeleteTeam(a, r, t)
      PROVE  StoreInv'
  <2> DEFINE new == [snap[r].registry.byID[t] EXCEPT !.key = NoKey]
  <2>1. IsTeam(new) /\ new.key = NoKey BY <1>1, <1>6 DEF DeleteTeam, IsTeam
  <2>2. Begin(a, r, "delete", NoPatch, new) BY <1>6 DEF DeleteTeam
  <2> HIDE DEF new
  <2> QED BY <2>1, <2>2, BeginStep DEF Ops
<1>7. ASSUME NEW a \in Requests, NEW r \in Replicas, NEW t \in Teams, CreateTeam(a, r, t)
      PROVE  StoreInv'
  <2> DEFINE new == [Seed(t) EXCEPT !.key = a]
  <2>1. IsTeam(new) /\ new.key = a BY <1>2 DEF Seed, IsTeam
  <2>2. Begin(a, r, "create", NoPatch, new) BY <1>7 DEF CreateTeam
  <2> HIDE DEF new
  <2> QED BY <2>1, <2>2, BeginStep DEF Ops
<1>8. CASE UNCHANGED storeVars
  <2>1. UNCHANGED <<db, snap, loading, req, issued, overlapped, dead, loadedDead>> BY <1>8 DEF storeVars
  <2>2. OneTeamPerKey(issued)' /\ RowsAreSound' /\ ChangesAreSound' /\ Gone(db, issued)' = Gone(db, issued)
    BY <2>1 DEF StoreInv, OneTeamPerKey, RowsAreSound, ChangesAreSound, InFlight, Gone
  <2>3. SnapshotsAreSound' BY <2>1, <2>2 DEF StoreInv, SnapshotsAreSound
  <2>4. RevocationHolds' BY <2>1 DEF StoreInv, RevocationHolds
  <2> QED BY <2>2, <2>3, <2>4 DEF StoreInv
<1>9. ASSUME NEW a \in Requests, (\E out \in StatementOutcomes : Exec(a, out)) \/ WriteThrough(a) PROVE StoreInv'
  BY <1>9, ExecStep, WriteThroughStep
<1>10. ASSUME NEW r \in Replicas, (\E ok \in BOOLEAN : RefreshLoad(r, ok)) \/ RefreshStore(r) PROVE StoreInv'
  BY <1>10, RefreshLoadStep, RefreshStoreStep
<1> QED BY <1>3, <1>4, <1>5, <1>6, <1>7, <1>8, <1>9, <1>10 DEF StoreNext

LEMMA StoreInvSuffices ==
  ASSUME WellFormed, StoreInv
  PROVE  SnapshotIsSound
<1>1. NoKey \notin Keys BY DEF WellFormed, Keys
<1>2. \A r \in Replicas : SoundRegistry(snap[r].registry, issued) BY DEF StoreInv, SnapshotsAreSound
<1>3. IndexesAgree BY <1>2 DEF IndexesAgree, SoundRegistry, Get
<1>4. AcceptedKeysWereWritten BY <1>1, <1>2 DEF AcceptedKeysWereWritten, SoundRegistry, Authenticate
<1> QED BY <1>3, <1>4 DEF SnapshotIsSound, StoreInv

\* Every snapshot's two indexes agree, what it accepts was committed for that team, and a
\* key it had to know was gone is refused, unless two requests changed that team at once:
\* for any teams, replicas and administrators' requests, and any statements that fail.
THEOREM SnapshotsHold == StoreSpec => []SnapshotIsSound
<1>0. WellFormed BY TeamStoreAssumption
<1>1. StoreInit => StoreInv BY <1>0, StoreStart
<1>2. StoreInv /\ [StoreNext]_storeVars => StoreInv' BY <1>0, StoreStep
<1>3. StoreInv => SnapshotIsSound BY <1>0, StoreInvSuffices
<1> QED BY <1>1, <1>2, <1>3, PTL DEF StoreSpec
=============================================================================
