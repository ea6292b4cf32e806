---------------------------- MODULE SemanticCache ----------------------------
(***************************************************************************)
(* The semantic cache: internal/cache, its use by internal/proxy and the   *)
(* purge endpoint.  Requests of several teams look up, miss, call upstream *)
(* and store; operators purge.  Every Redis command is a step, so that     *)
(* those of two requests interleave and any of them may fail.  The         *)
(* pipeline of Put is three steps (the hash, its lifetime, the indexes)    *)
(* and may be cut short anywhere.                                          *)
(*                                                                         *)
(* An answer is named by the request that fetched it.  Redis drops a key   *)
(* when its time comes (Tick).                                             *)
(***************************************************************************)
EXTENDS Integers, FiniteSets, Sequences, FiniteSetsExt, SequencesExt

CONSTANTS
  Requests, Teams, NoOrg, None,
  Warm, WarmAsk,   \* a request that has stored its answer at the start, and what it asked
  Org,             \* Org[t]: the team's organisation, or NoOrg
  Isolated,        \* teams with a cache of their own
  Prompts,         \* Prompts[p]: what its fingerprint covers, and the query
  Asks,            \* who may ask what: pairs <<team, prompt>>
  Sim, Threshold,  \* Sim[q1][q2]: similarity of two queries
  Headers,         \* values of X-Switchyard-Cache-TTL that occur
  Rules, DefaultTTL, MaxTTL,
  MaxCandidates, MaxScopeEntries,
  Callers,         \* operators: their organisation, and whether superadmin
  PurgedTeams, PurgedIds,  \* what is purged by team and by prefix
  MaxPurges, MaxTime,
  MaxFaults        \* commands that fail and pipelines that are cut

ASSUME SemanticCacheAssumption ==
  /\ {MaxCandidates, MaxScopeEntries, DefaultTTL} \subseteq Nat \ {0}
  /\ MaxTTL \in Nat /\ MaxTTL >= DefaultTTL
  /\ {MaxPurges, MaxTime, MaxFaults} \subseteq Nat
  /\ DOMAIN Rules \subseteq Nat /\ \A i \in DOMAIN Rules : Rules[i].ttl \in Nat
  /\ Warm \in Requests /\ WarmAsk \in Teams \X DOMAIN Prompts
  /\ Asks \subseteq Teams \X DOMAIN Prompts
  /\ IsFiniteSet(Requests) /\ {None, "hits"} \cap (Requests \cup Teams) = {}

Never == MaxTime + MaxTTL + 1
Queries == {Prompts[p].query : p \in DOMAIN Prompts}

VARIABLES
  entry,      \* entry[id]: the hash, its answer and when it expires
  index,      \* index[f]: the sorted set of a fingerprint, id to score, and its expiry
  teamIndex,  \* teamIndex[t]: the sorted set of a team, and its expiry
  scopeIndex, \* scopeIndex[s]: the sorted set of a scope; it does not expire
  req, purge, now, stamps, faults,
  unlisted,   \* history: answers whose team index lost them
  slipped     \* history: entries whose scope index lost them

redis == <<entry, index, teamIndex, scopeIndex>>
history == <<unlisted, slipped>>
vars == <<redis, req, purge, now, stamps, faults, history>>

-----------------------------------------------------------------------------
(* Keys.                                                                   *)

\* Mutant: an isolated team shares its organisation's cache.
ScopeIDShared(t) == IF Org[t] = NoOrg THEN <<"team", t>> ELSE <<"org", Org[t]>>

ScopeID(t) == IF t \in Isolated \/ Org[t] = NoOrg THEN <<"team", t>> ELSE <<"org", Org[t]>>
Scopes == {ScopeID(t) : t \in Teams}

Fingerprint(t, p) == <<ScopeID(t), Prompts[p].shape>>
EntryID(t, p) == <<Fingerprint(t, p), Prompts[p].query>>
Ids == {EntryID(a[1], a[2]) : a \in Asks \cup {WarmAsk}}
Fingerprints == {i[1] : i \in Ids}

\* The key of request r.
KeyOf(r) == EntryID(req[r].team, req[r].prompt)
ScopeOf(i) == i[1][1]

-----------------------------------------------------------------------------
(* Lifetimes.                                                              *)

clampTTL(d) == IF d > MaxTTL THEN MaxTTL ELSE d

\* A header that is not a number of seconds in range is ignored.
parseCacheTTLHeader(h) == IF h \in Nat THEN h ELSE None

matching(q) == {i \in DOMAIN Rules : q \in Rules[i].queries}

\* 0: not to be cached.
TTLFor(q, override) ==
  clampTTL(IF override # None THEN override
           ELSE IF matching(q) # {} THEN Rules[Min(matching(q))].ttl ELSE DefaultTTL)

-----------------------------------------------------------------------------
(* Sorted sets: functions from members to scores.                          *)

Empty == [i \in {} |-> 0]
ZSet(z) == DOMAIN z \subseteq Ids /\ z \in [DOMAIN z -> Nat]
zadd(z, i, score) == [j \in DOMAIN z \cup {i} |-> IF j = i THEN score ELSE z[j]]
zrem(z, S) == [j \in DOMAIN z \ S |-> z[j]]

\* The members from the newest to the oldest, and the n oldest: no two scores are
\* equal, so there is one such sequence and one such set.
zrevrange(z) ==
  {s \in [1 .. Cardinality(DOMAIN z) -> DOMAIN z] : \A j, k \in DOMAIN s : j < k => z[s[j]] > z[s[k]]}
zoldest(z, n) ==
  {S \in SUBSET DOMAIN z : /\ Cardinality(S) = Min({n, Cardinality(DOMAIN z)})
                           /\ \A i \in S, j \in DOMAIN z \ S : z[i] < z[j]}
first(s, n) == SubSeq(s, 1, Min({n, Len(s)}))

NoEntry == [val |-> None, expires |-> Never]
Husk(e) == e.val = "hits"       \* a hash with a hit counter and nothing else
Answer(e) == e.val \in Requests

Steps == {"idle", "candidates", "vectors", "prune", "fetch", "hit", "miss",
          "expire", "indexes", "zcard", "zrange", "del", "zrem", "done"}

Request == [pc : Steps, team : Teams \cup {None}, prompt : DOMAIN Prompts \cup {None},
            embedded : BOOLEAN, work : Seq(Ids), drop : SUBSET Ids, best : Ids \cup {None},
            n : Nat, served : Requests \cup {None},
            complete : BOOLEAN, ttl : Nat, stamp : Nat, expires : Nat,
            listed : BOOLEAN, failed : BOOLEAN, mixed : BOOLEAN]
Fresh == [pc |-> "idle", team |-> None, prompt |-> None, embedded |-> FALSE,
          work |-> <<>>, drop |-> {}, best |-> None, n |-> 0, served |-> None,
          complete |-> FALSE, ttl |-> 0, stamp |-> 0, expires |-> Never,
          listed |-> FALSE, failed |-> FALSE, mixed |-> FALSE]

NoKeys == [index |-> {}, team |-> {}, scope |-> {}]
NoPurge == [pc |-> "idle", kind |-> "none", team |-> None, ids |-> {}, keys |-> NoKeys, aimed |-> {}, left |-> MaxPurges]

TypeOK ==
  /\ entry \in [Ids -> [val : Requests \cup {None, "hits"}, expires : Nat]]
  /\ \A f \in Fingerprints : ZSet(index[f].members)
  /\ \A t \in Teams : ZSet(teamIndex[t].members)
  /\ \A s \in Scopes : ZSet(scopeIndex[s])
  /\ req \in [Requests -> Request]
  /\ now \in 0 .. MaxTime /\ stamps \in Nat /\ faults \in 0 .. MaxFaults
  /\ slipped \subseteq Ids /\ unlisted \subseteq Requests

NoIndex == [members |-> Empty, expires |-> Never]

\* NewStore, and one answer that was stored and kept for the default time.
Init ==
  LET w == EntryID(WarmAsk[1], WarmAsk[2])
      one(S, x) == [k \in S |-> IF k = x THEN [members |-> zadd(Empty, w, 1), expires |-> DefaultTTL] ELSE NoIndex]
  IN /\ entry = [i \in Ids |-> IF i = w THEN [val |-> Warm, expires |-> DefaultTTL] ELSE NoEntry]
     /\ index = one(Fingerprints, w[1]) /\ teamIndex = one(Teams, WarmAsk[1])
     /\ scopeIndex = [s \in Scopes |-> IF s = ScopeOf(w) THEN zadd(Empty, w, 1) ELSE Empty]
     /\ req = [r \in Requests |->
          IF r = Warm THEN [Fresh EXCEPT !.pc = "done", !.team = WarmAsk[1], !.prompt = WarmAsk[2], !.embedded = TRUE,
                                         !.complete = TRUE, !.expires = DefaultTTL, !.listed = TRUE]
          ELSE Fresh]
     /\ purge = NoPurge /\ now = 0 /\ stamps = 1 /\ faults = MaxFaults
     /\ unlisted = {} /\ slipped = {}

-----------------------------------------------------------------------------
(* Looking up.                                                             *)

\* Whether a command works; those that do not are counted.
Outcomes == IF faults > 0 THEN BOOLEAN ELSE {TRUE}
spend(ok) == faults' = IF ok THEN faults ELSE faults - 1

\* What is kept of a request that ends: what is to be known of an answer it stored.
Over == [Fresh EXCEPT !.pc = "done"]
ended(x) == [Over EXCEPT !.team = x.team, !.prompt = x.prompt, !.embedded = x.embedded, !.complete = x.complete,
                         !.expires = x.expires, !.listed = x.listed, !.mixed = x.mixed]
step(r, pc) == req' = [req EXCEPT ![r].pc = pc]
quiet == UNCHANGED <<redis, purge, now, stamps, history>>
calm == UNCHANGED <<redis, req, now, stamps, history>>

\* A hit fixes the answer that will be served; its hit is still to be counted.
serve(x, i) == [x EXCEPT !.pc = "hit", !.best = i, !.work = <<>>, !.served = entry[i].val]
missed(x) == [x EXCEPT !.pc = "miss", !.best = None, !.work = <<>>]

\* A request arrives and looks for its own entry.  A read that fails, and a hash that
\* does not decode, are misses without an embedding; so is a miss with the semantic
\* tier off or the embedding unavailable.
consultCache(r, a, ok, Embed) ==
  LET i == EntryID(a[1], a[2])
      x == [Fresh EXCEPT !.team = a[1], !.prompt = a[2]]
  IN /\ req[r].pc = "idle"
     /\ req' = [req EXCEPT ![r] =
          IF ok /\ Answer(entry[i]) THEN serve(x, i)
          ELSE IF ok /\ ~ Husk(entry[i]) /\ Embed THEN [x EXCEPT !.pc = "candidates", !.embedded = TRUE]
          ELSE missed(x)]
     /\ ok \/ Embed
     /\ spend(ok /\ Embed) /\ quiet

Bucket(r) == KeyOf(r)[1]

\* ZREVRANGE: the newest of the bucket.
Candidates(r, ok) ==
  /\ req[r].pc = "candidates"
  /\ \E s \in zrevrange(index[Bucket(r)].members) :
       LET ids == first(s, MaxCandidates)
       IN req' = [req EXCEPT ![r] =
            IF ok /\ ids # <<>> THEN [@ EXCEPT !.pc = "vectors", !.work = ids] ELSE missed(@)]
  /\ spend(ok) /\ quiet

\* Of the candidates that were stored with an embedding, the first of the most similar.
nearest(q, ids) ==
  LET S == {n \in DOMAIN ids : Answer(entry[ids[n]]) /\ req[entry[ids[n]].val].embedded}
      sim(n) == Sim[q][ids[n][2]]
      best == {n \in S : \A k \in S : sim(k) < sim(n) \/ (sim(k) = sim(n) /\ n <= k)}
  IN IF S = {} THEN {None} ELSE {ids[n] : n \in best}

\* What the threshold leaves of it.
acceptable(q, i) == IF i # None /\ Sim[q][i[2]] >= Threshold THEN i ELSE None

afterScan(best) == IF best = None THEN "miss" ELSE "fetch"

\* HMGET of the candidates: those without an embedding field are stale.
loadVectors(r, ok) ==
  LET q == KeyOf(r)[2]
      ids == req[r].work
      stale == {i \in ToSet(ids) : ~ Answer(entry[i])}
  IN /\ req[r].pc = "vectors"
     /\ \E i \in nearest(q, ids) : \E best \in {acceptable(q, i)} :
          req' = [req EXCEPT ![r] =
            IF ~ ok THEN missed(@)
            ELSE [@ EXCEPT !.pc = IF stale # {} THEN "prune" ELSE afterScan(best),
                           !.best = best, !.work = <<>>, !.drop = stale]]
     /\ spend(ok) /\ quiet

\* Candidates removes the stale ones from the bucket; a failure is ignored.
prune(r, ok) ==
  /\ req[r].pc = "prune"
  /\ index' = [index EXCEPT ![Bucket(r)].members = IF ok THEN zrem(@, req[r].drop) ELSE @]
  /\ req' = [req EXCEPT ![r].pc = afterScan(req[r].best), ![r].drop = {}]
  /\ spend(ok) /\ UNCHANGED <<entry, teamIndex, scopeIndex, purge, now, stamps, history>>

Fetch(r, ok) ==
  /\ req[r].pc = "fetch"
  /\ req' = [req EXCEPT ![r] = IF ok /\ Answer(entry[@.best]) THEN serve(@, @.best) ELSE missed(@)]
  /\ spend(ok) /\ quiet

\* HINCRBY leaves the lifetime alone, and makes a key that is gone.
hincrby(e) == IF e.val = None THEN [val |-> "hits", expires |-> Never] ELSE e

RecordHit(r, ok) ==
  /\ req[r].pc = "hit"
  /\ entry' = [entry EXCEPT ![req[r].best] = IF ok THEN hincrby(@) ELSE @]
  /\ req' = [req EXCEPT ![r] = Over]
  /\ spend(ok) /\ UNCHANGED <<index, teamIndex, scopeIndex, purge, now, stamps, history>>

-----------------------------------------------------------------------------
(* Storing.                                                                *)

Cacheable(resp) == resp = "stop"
Responses == {"stop", "length", "empty", "error"}

\* The upstream call, what storeInCache decides once the client has its answer, and
\* the first command of Put: HSET keeps whatever lifetime the key has.
storeInCache(r, resp, h, ok) ==
  LET i == KeyOf(r)
      ttl == TTLFor(i[2], parseCacheTTLHeader(h))
      keep == Cacheable(resp) /\ ttl > 0
  IN /\ req[r].pc = "miss"
     /\ keep \/ ok
     /\ IF keep /\ ok
        THEN /\ entry' = [entry EXCEPT ![i].val = r]
             /\ req' = [req EXCEPT ![r] =
                  [@ EXCEPT !.pc = "expire", !.complete = (resp = "stop"), !.ttl = ttl, !.stamp = stamps + 1,
                            !.mixed = \E x \in Requests : req[x].pc = "expire" /\ KeyOf(x) = i]]
             /\ stamps' = stamps + 1
             /\ slipped' = slipped \ {i}
        ELSE /\ req' = [req EXCEPT ![r] = Over]
             /\ UNCHANGED <<entry, stamps, slipped>>
     /\ spend(ok)
     /\ UNCHANGED <<index, teamIndex, scopeIndex, purge, now, unlisted>>

\* Mutant: a lifetime is set only where there is none.
lifetimeOnce(e, t) == IF e.val = None \/ e.expires # Never THEN e ELSE [e EXCEPT !.expires = t]

\* EXPIRE, which does nothing to a key that is gone.
lifetime(e, t) == IF e.val = None THEN e ELSE [e EXCEPT !.expires = t]

putExpire(r) ==
  /\ req[r].pc = "expire"
  /\ entry' = [entry EXCEPT ![KeyOf(r)] = lifetime(@, now + req[r].ttl)]
  /\ req' = [req EXCEPT ![r].pc = "indexes", ![r].expires = now + req[r].ttl]
  /\ UNCHANGED <<faults, index, teamIndex, scopeIndex, purge, now, stamps, history>>

\* ZADD, ZREMRANGEBYRANK and EXPIRE of the bucket.
putIndex(r) ==
  LET z == zadd(index[Bucket(r)].members, KeyOf(r), req[r].stamp)
      n == Cardinality(DOMAIN z) - MaxCandidates
  IN {[members |-> zrem(z, S), expires |-> now + req[r].ttl] : S \in zoldest(z, IF n > 0 THEN n ELSE 0)}

\* Mutant: the team index is written anew.
putTeamAnew(r) == [members |-> zadd(Empty, KeyOf(r), req[r].stamp), expires |-> now + req[r].ttl]

\* The team index takes the lifetime of the last entry.
putTeam(r) ==
  [members |-> zadd(teamIndex[req[r].team].members, KeyOf(r), req[r].stamp), expires |-> now + req[r].ttl]

putScope(r) == zadd(scopeIndex[ScopeOf(KeyOf(r))], KeyOf(r), req[r].stamp)

\* The first n of the three; the fourth part of the pipeline is its reply.
putIndexes(r, n) ==
  /\ req[r].pc = "indexes"
  /\ n < 4 => faults > 0
  /\ IF n > 0 THEN \E z \in putIndex(r) : index' = [index EXCEPT ![Bucket(r)] = z] ELSE UNCHANGED index
  /\ teamIndex' = IF n > 1 THEN [teamIndex EXCEPT ![req[r].team] = putTeam(r)] ELSE teamIndex
  /\ scopeIndex' = IF n > 2 THEN [scopeIndex EXCEPT ![ScopeOf(KeyOf(r))] = putScope(r)] ELSE scopeIndex
  /\ req' = [req EXCEPT ![r] =
       IF n = 4 THEN [@ EXCEPT !.pc = "zcard", !.listed = TRUE]
       ELSE [ended(@) EXCEPT !.listed = n > 1, !.failed = TRUE]]
  /\ spend(n = 4)
  /\ UNCHANGED <<entry, purge, now, stamps, history>>

\* Mutant: a scope is trimmed one entry too late.
overflowLate(z) ==
  IF Cardinality(DOMAIN z) > MaxScopeEntries + 1 THEN Cardinality(DOMAIN z) - MaxScopeEntries - 1 ELSE 0

\* trimScope: four commands, with those of others in between.
overflow(z) ==
  IF Cardinality(DOMAIN z) > MaxScopeEntries THEN Cardinality(DOMAIN z) - MaxScopeEntries ELSE 0

trimCount(r) ==
  LET n == overflow(scopeIndex[ScopeOf(KeyOf(r))])
  IN /\ req[r].pc = "zcard"
     /\ req' = [req EXCEPT ![r] = IF n = 0 THEN ended(@) ELSE [@ EXCEPT !.pc = "zrange", !.n = n]]
     /\ UNCHANGED faults /\ quiet

trimVictims(r) ==
  /\ req[r].pc = "zrange"
  /\ \E victims \in zoldest(scopeIndex[ScopeOf(KeyOf(r))], req[r].n) :
       req' = [req EXCEPT ![r] =
         IF victims = {} THEN ended(@) ELSE [@ EXCEPT !.pc = "del", !.drop = victims, !.n = 0]]
  /\ UNCHANGED faults /\ quiet

removed(S) == [i \in Ids |-> IF i \in S THEN NoEntry ELSE entry[i]]

trimDelete(r) ==
  /\ req[r].pc = "del"
  /\ entry' = removed(req[r].drop)
  /\ slipped' = slipped \ req[r].drop
  /\ step(r, "zrem")
  /\ UNCHANGED <<faults, index, teamIndex, scopeIndex, purge, now, stamps, unlisted>>

trimForget(r) ==
  LET s == ScopeOf(KeyOf(r))
      S == req[r].drop
  IN /\ req[r].pc = "zrem"
     /\ scopeIndex' = [scopeIndex EXCEPT ![s] = zrem(@, S)]
     /\ slipped' = slipped \cup {i \in S : entry[i].val # None}
     /\ req' = [req EXCEPT ![r] = ended(@)]
     /\ UNCHANGED <<faults, entry, index, teamIndex, purge, now, stamps, unlisted>>

\* A pipeline cut before EXPIRE, or a command of the trim that fails, ends the store.
degrade(r) ==
  /\ req[r].pc \in {"expire", "zcard", "zrange", "del", "zrem"}
  /\ req' = [req EXCEPT ![r] = [ended(@) EXCEPT !.failed = TRUE]]
  /\ faults > 0 /\ spend(FALSE) /\ quiet

-----------------------------------------------------------------------------
(* Purging.                                                                *)

\* Whoever may purge everything may purge any team; others a team of their own
\* organisation.
allowed(c, kind, t) == c.superadmin \/ (kind = "team" /\ Org[t] = c.org)

Stored == {r \in Requests : req[r].complete /\ entry[KeyOf(r)].val = r}

begin(kind, t, ids, aimed, pc) ==
  purge' = [NoPurge EXCEPT !.pc = pc, !.kind = kind, !.team = t, !.ids = ids, !.aimed = aimed, !.left = purge.left - 1]

mayPurge(kind, t) == purge.pc = "idle" /\ purge.left > 0 /\ \E c \in Callers : allowed(c, kind, t)

\* ZRANGE of the team index.  Aimed at: the team's stored answers that it ever listed and did not lose.
PurgeTeam(t) ==
  /\ mayPurge("team", t)
  /\ begin("team", t, DOMAIN teamIndex[t].members,
           {r \in Stored : req[r].team = t /\ req[r].listed} \ unlisted, "del")
  /\ UNCHANGED faults /\ calm

\* SCAN of the entries under a prefix: here, one of them, if there is one.
PurgePrefix(i) ==
  /\ mayPurge("prefix", None)
  /\ entry[i].val # None
  /\ begin("prefix", None, {i}, {r \in Stored : KeyOf(r) = i}, "del")
  /\ UNCHANGED faults /\ calm

PurgeAll ==
  /\ mayPurge("all", None)
  /\ begin("all", None, {j \in Ids : entry[j].val # None}, Stored, "scan")
  /\ UNCHANGED faults /\ calm

\* SCAN of the indexes.
scanKeys ==
  /\ purge.pc = "scan"
  /\ purge' = [purge EXCEPT !.pc = "del",
       !.keys = [index |-> {f \in Fingerprints : index[f] # NoIndex},
                 team |-> {t \in Teams : teamIndex[t] # NoIndex},
                 scope |-> {s \in Scopes : scopeIndex[s] # Empty}]]
  /\ UNCHANGED faults /\ calm

purged == purge' = [NoPurge EXCEPT !.left = purge.left]

deleteEntries ==
  /\ purge.pc = "del"
  /\ entry' = removed(purge.ids)
  /\ slipped' = slipped \ purge.ids
  /\ IF purge.kind = "prefix" THEN purged ELSE purge' = [purge EXCEPT !.pc = "keys", !.ids = {}]
  /\ UNCHANGED <<faults, index, teamIndex, scopeIndex, req, now, stamps, unlisted>>

\* Team indexes in T are gone: what they listed and is still stored is unlisted.
lose(T) == {r \in Requests : req[r].listed /\ req[r].team \in T /\ entry[KeyOf(r)].val = r}

\* DEL of the team index, or of every index that the scan saw.
deleteKeys ==
  LET T == IF purge.kind = "team" THEN {purge.team} ELSE purge.keys.team
      S == purge.keys.scope
  IN /\ purge.pc = "keys"
     /\ teamIndex' = [t \in Teams |-> IF t \in T THEN NoIndex ELSE teamIndex[t]]
     /\ index' = [f \in Fingerprints |-> IF f \in purge.keys.index THEN NoIndex ELSE index[f]]
     /\ scopeIndex' = [s \in Scopes |-> IF s \in S THEN Empty ELSE scopeIndex[s]]
     /\ unlisted' = (unlisted \cap Stored) \cup lose(T)
     /\ slipped' = slipped \cup {i \in Ids : ScopeOf(i) \in S /\ entry[i].val # None}
     /\ purged
     /\ UNCHANGED <<faults, entry, req, now, stamps>>

purgeFails ==
  /\ purge.pc # "idle"
  /\ purged
  /\ faults > 0 /\ spend(FALSE) /\ calm

-----------------------------------------------------------------------------
\* A key whose time has come is gone.
Tick ==
  LET due(e) == e.expires <= now + 1
      gone == {i \in Ids : due(entry[i])}
  IN /\ now < MaxTime
     /\ now' = now + 1
     /\ entry' = removed(gone)
     /\ index' = [f \in Fingerprints |-> IF due(index[f]) THEN NoIndex ELSE index[f]]
     /\ teamIndex' = [t \in Teams |-> IF due(teamIndex[t]) THEN NoIndex ELSE teamIndex[t]]
     /\ unlisted' = unlisted \cup lose({t \in Teams : due(teamIndex[t])})
     /\ slipped' = slipped \ gone
     /\ UNCHANGED <<faults, scopeIndex, req, purge, stamps>>

Is(r, pc) == req[r].pc = pc

Store(r) ==
  \/ Is(r, "miss") /\ \E resp \in Responses, h \in Headers, ok \in Outcomes : storeInCache(r, resp, h, ok)
  \/ putExpire(r) \/ (Is(r, "indexes") /\ \E n \in 0 .. 4 : putIndexes(r, n))
  \/ trimCount(r) \/ trimVictims(r) \/ trimDelete(r) \/ trimForget(r) \/ degrade(r)

Lookup(r) ==
  \/ Is(r, "idle") /\ \E a \in Asks, ok, Embed \in Outcomes : consultCache(r, a, ok, Embed)
  \/ \E ok \in Outcomes : Candidates(r, ok) \/ loadVectors(r, ok) \/ prune(r, ok) \/ Fetch(r, ok) \/ RecordHit(r, ok)

Next ==
  \/ \E r \in Requests : Lookup(r) \/ Store(r)
  \/ \E t \in PurgedTeams : PurgeTeam(t)
  \/ \E i \in PurgedIds : PurgePrefix(i)
  \/ PurgeAll \/ scanKeys \/ deleteEntries \/ deleteKeys \/ purgeFails
  \/ Tick

Spec == Init /\ [][Next]_vars

-----------------------------------------------------------------------------
\* A request is served only an answer that was complete, to a prompt with the same
\* model, parameters and history, to a query at least as similar as the threshold
\* asks, of its own team or of one that shares its organisation and is not isolated.
ServedIsShared ==
  \A r \in Requests :
    LET a == req[r].served
    IN a # None =>
         /\ req[a].complete
         /\ Prompts[req[a].prompt].shape = Prompts[req[r].prompt].shape
         /\ \/ Prompts[req[a].prompt].query = Prompts[req[r].prompt].query
            \/ Sim[Prompts[req[r].prompt].query][Prompts[req[a].prompt].query] >= Threshold
         /\ \/ req[a].team = req[r].team
            \/ {req[a].team, req[r].team} \cap Isolated = {} /\ Org[req[a].team] = Org[req[r].team] /\ Org[req[r].team] # NoOrg

\* An answer can be read no longer than its store gave it; when two stores of one
\* entry interleave, no longer than the longer of the two.  (An answer whose pipeline
\* was cut before EXPIRE was given no end.)
AnswersExpire ==
  \A i \in Ids : Answer(entry[i]) =>
    LET a == entry[i].val
    IN \/ entry[i].expires <= req[a].expires
       \/ req[a].mixed /\ \E x \in Requests \ {a} :
            req[x].complete /\ KeyOf(x) = i /\ entry[i].expires <= req[x].expires

\* A purge that reports success leaves none of the answers that it was for and that
\* were stored when it began.  A team's purge is for those of its answers that the
\* team's index has not lost.
PurgeHolds ==
  [][purge.pc # "idle" /\ purge'.pc = "idle" /\ faults' = faults
       => \A r \in purge.aimed : entry'[KeyOf(r)].val # r]_vars

\* A scope holds at most its cap and what the stores now under way, and those that
\* failed, have added, but for entries that were stored again under a trim or purge.
CapIsSoft ==
  \A s \in Scopes :
    LET over == {r \in Requests : req[r].complete /\ ScopeOf(KeyOf(r)) = s /\ (req[r].pc # "done" \/ req[r].failed)}
        held == {i \in Ids : ScopeOf(i) = s /\ Answer(entry[i])} \ slipped
    IN Cardinality(held) <= MaxScopeEntries + Cardinality(over)
=============================================================================
