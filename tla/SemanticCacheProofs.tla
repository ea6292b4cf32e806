------------------------ MODULE SemanticCacheProofs ------------------------
(***************************************************************************)
(* SemanticCache for any teams, scopes, prompts, requests, rules, caps and *)
(* failing Redis commands.                                                 *)
(*                                                                         *)
(* FlowInv says what a request has to show for where it is and what Redis  *)
(* may hold; each promise adds a part of its own: who overtook whom for    *)
(* the lifetimes, what the team indexes list for the purge, and for the    *)
(* cap an account of every scope in which each store that trims has a part *)
(* of the excess to answer for.                                            *)
(*                                                                         *)
(* Every step is one of five kinds (EveryStep): a lookup browses, a store  *)
(* begins with HSET, gives its key a lifetime with EXPIRE, or settles into *)
(* the indexes and trims its scope, and a purge or the passing of time     *)
(* sweeps entries away.                                                    *)
(***************************************************************************)
EXTENDS SemanticCache, FiniteSetTheorems, SequenceTheorems, WellFoundedInduction, NaturalsInduction, TLAPS

\* Where a request looks up, writes, and keeps its scope to the cap; and its fields.
Seeking == {"candidates", "vectors", "prune", "fetch", "hit", "miss"}
Writing == {"expire", "indexes"}
Trimming == {"zrange", "del", "zrem"}
Settling == {"zcard"} \cup Trimming
Fields == {"pc", "team", "prompt", "embedded", "work", "drop", "best", "n", "served", "complete",
           "ttl", "stamp", "expires", "listed", "failed", "mixed"}

\* The key of a request, from its record.
Key(x) == EntryID(x.team, x.prompt)
Asked(x) == x.team \in Teams /\ x.prompt \in DOMAIN Prompts /\ Key(x) \in Ids

\* The bucket of a key, and what of it may answer query q.
InBucket(f) == {i \in Ids : i[1] = f}
Fits(q, i) == i[2] = q \/ Sim[q][i[2]] >= Threshold

\* What a request has to show for where it is.
SoundRequest(x) ==
  /\ DOMAIN x = Fields /\ x.pc \in Steps /\ x.expires \in Nat /\ x.expires <= Never
  /\ x.pc \in Seeking \cup Writing \cup Settling \/ x.complete => Asked(x)
  /\ x.pc \in Writing \cup Settling => x.complete
  /\ x.pc \in Seeking \cup {"idle"} => ~ x.complete
  /\ x.pc \in Seeking \cup Writing \cup {"idle"} => ~ x.listed /\ ~ x.failed
  /\ x.pc \in Seeking \cup {"idle", "expire"} => x.expires = Never
  /\ x.pc \in Writing \cup Settling => x.ttl \in Nat /\ x.ttl <= MaxTTL
  /\ x.pc = "vectors" => \A k \in DOMAIN x.work : x.work[k] \in InBucket(Key(x)[1])
  /\ x.pc \in {"prune", "fetch"} /\ x.best # None =>
       x.best \in InBucket(Key(x)[1]) /\ Fits(Key(x)[2], x.best)
  /\ x.pc = "fetch" => x.best # None
  /\ x.pc = "hit" => x.best \in Ids
  /\ x.served # None => x.pc = "hit"

\* An answer is the complete answer to what its key asks.
SoundEntry(i, e) ==
  /\ DOMAIN e = {"val", "expires"} /\ e.expires \in Nat /\ e.expires <= Never
  /\ Answer(e) => req[e.val].complete /\ KeyOf(e.val) = i

\* What the keys of Redis hold.
KeysAreSound ==
  /\ DOMAIN entry = Ids /\ \A i \in Ids : SoundEntry(i, entry[i])
  /\ DOMAIN index = Fingerprints
  /\ \A f \in Fingerprints : /\ DOMAIN index[f] = {"members", "expires"}
                             /\ DOMAIN index[f].members \subseteq InBucket(f) /\ IsFiniteSet(DOMAIN index[f].members)

\* What every other part rests on; and what is served comes from the bucket and fits.
FlowInv ==
  /\ DOMAIN req = Requests /\ \A r \in Requests : SoundRequest(req[r])
  /\ now \in 0 .. MaxTime
  /\ KeysAreSound
  /\ \A r \in Requests : req[r].served # None =>
       /\ req[r].served \in Requests /\ req[req[r].served].complete
       /\ KeyOf(req[r].served)[1] = Bucket(r) /\ Fits(KeyOf(r)[2], KeyOf(req[r].served))

\* A store that was overtaken on its key before EXPIRE left word of it.
OvertakenIsMixed ==
  \A r \in Requests : req[r].pc = "expire" /\ Answer(entry[KeyOf(r)]) /\ entry[KeyOf(r)].val # r
    => req[entry[KeyOf(r)].val].mixed

\* What a team's index has not lost, it lists.
ListsItsOwn ==
  /\ DOMAIN teamIndex = Teams /\ \A t \in Teams : DOMAIN teamIndex[t] = {"members", "expires"}
  /\ \A r \in Stored \ unlisted : req[r].listed => KeyOf(r) \in DOMAIN teamIndex[req[r].team].members

\* What a purge is for and has not deleted, it is about to delete.
PurgeIsAimed ==
  /\ DOMAIN purge = DOMAIN NoPurge
  /\ purge.pc \in {"idle", "scan", "del", "keys"}
  /\ purge.pc # "idle" => purge.aimed \subseteq {r \in Requests : req[r].complete}
  /\ purge.pc \in {"scan", "del"} => \A r \in purge.aimed : KeyOf(r) \in purge.ids \/ entry[KeyOf(r)].val # r
  /\ purge.pc = "keys" => \A r \in purge.aimed : entry[KeyOf(r)].val # r

\* The stores of a scope by the records R, those over its cap, those that trim it, and
\* what the trims in T are about to take from its index.
StoresIn(R, s) == {r \in Requests : R[r].complete /\ ScopeOf(Key(R[r])) = s}
OverIn(R, s) == {r \in StoresIn(R, s) : R[r].pc # "done" \/ R[r].failed}
TrimmersIn(R, s) == {r \in StoresIn(R, s) : R[r].pc \in Trimming}
Condemned(R, T) == UNION {R[r].drop : r \in {t \in T : R[t].pc \in {"del", "zrem"}}}

\* The entries of scope s that its index has not lost.
HeldBy(s) == {i \in Ids : ScopeOf(i) = s /\ Answer(entry[i])} \ slipped

\* Were the trims in T to end now, the members D would be the cap and the stores left
\* in F; or one of them is about to take as many as it counted.
Trimmed(R, D, F, T) ==
  \/ Cardinality(D \ Condemned(R, T)) <= MaxScopeEntries + Cardinality(F \ T)
  \/ \E r \in T : R[r].pc = "zrange" /\ Cardinality(D) <= MaxScopeEntries + Cardinality(F \ T) + R[r].n

\* The scope's members D and its entries H, with F the stores that are over the cap and
\* have reached the scope's index.
CapFor(R, D, H, s, F) ==
  /\ F \subseteq OverIn(R, s)
  /\ \A r \in StoresIn(R, s) : R[r].pc \in Settling => r \in F
  /\ \A r \in F : R[r].pc \notin Writing
  /\ H \subseteq D \cup {Key(R[r]) : r \in OverIn(R, s) \ F}
  /\ \A T \in SUBSET TrimmersIn(R, s) : Trimmed(R, D, F, T)

\* A trim that is under way has something to take.
Counted(R) == \A r \in Requests : R[r].pc = "zrange" => R[r].n \in Nat \ {0}

\* The account of every scope.
CapInv ==
  /\ DOMAIN scopeIndex = Scopes /\ Counted(req)
  /\ \A s \in Scopes : /\ IsFiniteSet(DOMAIN scopeIndex[s])
                       /\ \E F \in SUBSET Requests : CapFor(req, DOMAIN scopeIndex[s], HeldBy(s), s, F)

-----------------------------------------------------------------------------
LEMMA Constants ==
  /\ MaxCandidates \in Nat \ {0} /\ MaxScopeEntries \in Nat \ {0} /\ DefaultTTL \in Nat \ {0}
  /\ MaxTTL \in Nat /\ DefaultTTL <= MaxTTL
  /\ MaxPurges \in Nat /\ MaxTime \in Nat /\ MaxFaults \in Nat
  /\ Never \in Nat /\ Never = MaxTime + MaxTTL + 1
  /\ IsFiniteSet(Requests) /\ None \notin Requests /\ "hits" \notin Requests
BY SemanticCacheAssumption DEF Never

LEMMA AskedIds ==
  ASSUME NEW a \in Asks \cup {WarmAsk}
  PROVE  a[1] \in Teams /\ a[2] \in DOMAIN Prompts /\ EntryID(a[1], a[2]) \in Ids
BY SemanticCacheAssumption DEF Ids

\* The parts of a key.
LEMMA PartsOfKey ==
  ASSUME NEW t \in Teams, NEW p \in DOMAIN Prompts, EntryID(t, p) \in Ids
  PROVE  /\ EntryID(t, p)[1] = Fingerprint(t, p) /\ EntryID(t, p)[2] = Prompts[p].query
         /\ EntryID(t, p)[1] \in Fingerprints
         /\ ScopeOf(EntryID(t, p)) = ScopeID(t) /\ ScopeOf(EntryID(t, p)) \in Scopes
BY DEF EntryID, Fingerprint, Fingerprints, ScopeOf, Scopes

LEMMA HasLeast ==
  ASSUME NEW S \in SUBSET Nat, S # {}
  PROVE  Min(S) \in S /\ \A y \in S : Min(S) <= y
<1>1. IsWellFoundedOn(OpToRel(<, Nat), Nat)
  BY NatLessThanWellFounded
<1>2. PICK x \in S : \A y \in S : ~ (<<y, x>> \in OpToRel(<, Nat))
  BY <1>1, WFMin
<1>3. \A y \in S : ~ (y < x)
  BY <1>2 DEF OpToRel
<1>4. \A y \in S : x <= y
  BY <1>3
<1> QED BY <1>4 DEF Min

LEMMA SmallerOfTwo ==
  ASSUME NEW x \in Int, NEW y \in Int
  PROVE  Min({x, y}) = IF x <= y THEN x ELSE y
<1>1. CASE x <= y
  <2>1. \A z \in {x, y} : x <= z BY <1>1
  <2>2. \A m \in {x, y} : (\A z \in {x, y} : m <= z) => m = x BY <1>1
  <2> QED BY <2>1, <2>2, <1>1 DEF Min
<1>2. CASE ~ (x <= y)
  <2>1. \A z \in {x, y} : y <= z BY <1>2
  <2>2. \A m \in {x, y} : (\A z \in {x, y} : m <= z) => m = y BY <1>2
  <2> QED BY <2>1, <2>2, <1>2 DEF Min
<1> QED BY <1>1, <1>2

\* A lifetime that is stored is within the cap.
LEMMA LifetimeIsClamped ==
  ASSUME NEW q, NEW h
  PROVE  TTLFor(q, parseCacheTTLHeader(h)) \in Nat /\ TTLFor(q, parseCacheTTLHeader(h)) <= MaxTTL
<1> DEFINE o == parseCacheTTLHeader(h)
           d == IF o # None THEN o ELSE IF matching(q) # {} THEN Rules[Min(matching(q))].ttl ELSE DefaultTTL
<1>1. o # None => o \in Nat BY DEF parseCacheTTLHeader
<1>2. matching(q) # {} => Rules[Min(matching(q))].ttl \in Nat
  <2>1. matching(q) \subseteq DOMAIN Rules /\ DOMAIN Rules \subseteq Nat BY SemanticCacheAssumption DEF matching
  <2>2. matching(q) # {} => Min(matching(q)) \in DOMAIN Rules BY <2>1, HasLeast
  <2> QED BY <2>2, SemanticCacheAssumption
<1>3. d \in Nat BY <1>1, <1>2, Constants
<1>4. TTLFor(q, o) = clampTTL(d) BY DEF TTLFor
<1> HIDE DEF d, o
<1>5. clampTTL(d) \in Nat /\ clampTTL(d) <= MaxTTL BY <1>3, Constants DEF clampTTL
<1> QED BY <1>4, <1>5 DEF o

\* What ZREVRANGE returns is of the set.
LEMMA CandidatesAreMembers ==
  ASSUME NEW z, IsFiniteSet(DOMAIN z), NEW s \in zrevrange(z)
  PROVE  \A k \in DOMAIN first(s, MaxCandidates) : first(s, MaxCandidates)[k] \in DOMAIN z
<1> DEFINE N == Cardinality(DOMAIN z)
           m == Min({MaxCandidates, Len(s)})
<1>1. N \in Nat BY FS_CardinalityType
<1>2. s \in [1 .. N -> DOMAIN z] BY DEF zrevrange
<1> HIDE DEF N
<1>3. s \in Seq(DOMAIN z) /\ Len(s) = N BY <1>1, <1>2
<1>4. m \in 0 .. N BY <1>1, <1>3, SmallerOfTwo, Constants
<1> HIDE DEF m
<1>5. first(s, MaxCandidates) = SubSeq(s, 1, m) BY DEF first, m
<1>6. /\ SubSeq(s, 1, m) \in Seq(DOMAIN z) /\ DOMAIN SubSeq(s, 1, m) = 1 .. Len(SubSeq(s, 1, m))
      /\ \A k \in DOMAIN SubSeq(s, 1, m) : SubSeq(s, 1, m)[k] \in DOMAIN z
  <2>1. SubSeq(s, 1, m) \in Seq(DOMAIN z) BY <1>1, <1>3, <1>4, SubSeqProperties
  <2> QED BY <2>1, LenProperties, ElementOfSeq
<1> QED BY <1>5, <1>6

-----------------------------------------------------------------------------
(* What the steps make of a request.                                       *)

\* Nothing about a stored answer changes but when it ends and whether it is listed.
Keeps(x, y) == x.complete => /\ y.complete /\ y.team = x.team /\ y.prompt = x.prompt
                             /\ y.mixed = x.mixed /\ y.embedded = x.embedded

LEMMA OverIsSound ==
  /\ SoundRequest(Over) /\ Over.served = None /\ Over.pc = "done" /\ ~ Over.complete /\ ~ Over.listed
BY Constants DEF Over, Fresh, SoundRequest, Fields, Steps, Seeking, Writing, Settling, Trimming

LEMMA FreshIsSound ==
  /\ SoundRequest(Fresh) /\ Fresh.served = None /\ Fresh.pc = "idle" /\ ~ Fresh.complete /\ ~ Fresh.listed
BY Constants DEF Fresh, SoundRequest, Fields, Steps, Seeking, Writing, Settling, Trimming

\* The end of a store that was cut short.
cutShort(x, l) == [ended(x) EXCEPT !.listed = l, !.failed = TRUE]

LEMMA EndedIsSound ==
  ASSUME NEW x, SoundRequest(x), NEW l, NEW y, y = cutShort(x, l)
  PROVE  /\ SoundRequest(y) /\ Keeps(x, y) /\ y.served = None /\ y.pc = "done" /\ y.complete = x.complete
         /\ y.listed = l /\ y.failed /\ y.expires = x.expires /\ y.team = x.team /\ y.prompt = x.prompt
<1>1. /\ DOMAIN x = Fields /\ x.expires \in Nat /\ x.expires <= Never /\ (x.complete => Asked(x))
  BY DEF SoundRequest
<1>2. LET e == ended(x)
      IN /\ DOMAIN e = Fields /\ e.served = None /\ e.pc = "done" /\ e.complete = x.complete
         /\ e.expires = x.expires /\ e.team = x.team /\ e.prompt = x.prompt /\ e.mixed = x.mixed
         /\ e.embedded = x.embedded
  BY DEF ended, Over, Fresh, Fields
<1>3. /\ DOMAIN y = Fields /\ y.served = None /\ y.pc = "done" /\ y.complete = x.complete
      /\ y.expires = x.expires /\ y.team = x.team /\ y.prompt = x.prompt /\ y.mixed = x.mixed
      /\ y.embedded = x.embedded /\ y.failed = TRUE /\ y.listed = l
  BY <1>2 DEF Fields, cutShort
<1>4. SoundRequest(y)
  BY <1>1, <1>3, Constants DEF SoundRequest, Steps, Seeking, Writing, Settling, Trimming, Asked, Key
<1> QED BY <1>3, <1>4 DEF Keeps

\* The plain end of a store keeps what was listed.
LEMMA PlainEndIsSound ==
  ASSUME NEW x, SoundRequest(x)
  PROVE  LET y == ended(x)
         IN  /\ SoundRequest(y) /\ Keeps(x, y) /\ y.served = None /\ y.pc = "done" /\ y.complete = x.complete
             /\ y.listed = x.listed /\ ~ y.failed /\ y.expires = x.expires /\ y.team = x.team /\ y.prompt = x.prompt
<1>1. /\ DOMAIN x = Fields /\ x.expires \in Nat /\ x.expires <= Never /\ (x.complete => Asked(x))
  BY DEF SoundRequest
<1> DEFINE y == ended(x)
<1>2. /\ DOMAIN y = Fields /\ y.served = None /\ y.pc = "done" /\ y.complete = x.complete
      /\ y.expires = x.expires /\ y.team = x.team /\ y.prompt = x.prompt /\ y.mixed = x.mixed
      /\ y.embedded = x.embedded /\ ~ y.failed /\ y.listed = x.listed
  BY DEF ended, Over, Fresh, Fields
<1> HIDE DEF y
<1>3. SoundRequest(y)
  BY <1>1, <1>2, Constants DEF SoundRequest, Steps, Seeking, Writing, Settling, Trimming, Asked, Key
<1> QED BY <1>2, <1>3 DEF y, Keeps

LEMMA MissedIsSound ==
  ASSUME NEW x, DOMAIN x = Fields, Asked(x), ~ x.complete, ~ x.listed, ~ x.failed, x.expires = Never, x.served = None
  PROVE  /\ SoundRequest(missed(x)) /\ missed(x).served = None /\ missed(x).pc = "miss" /\ ~ missed(x).complete
         /\ missed(x).team = x.team /\ missed(x).prompt = x.prompt
<1>1. LET y == missed(x)
      IN  /\ DOMAIN y = Fields /\ Asked(y) /\ ~ y.complete /\ ~ y.listed /\ ~ y.failed /\ y.expires = Never
          /\ y.served = None /\ y.pc = "miss" /\ y.team = x.team /\ y.prompt = x.prompt
  BY DEF missed, Fields, Asked, Key
<1> QED BY <1>1, Constants DEF SoundRequest, Steps, Seeking, Writing, Settling, Trimming

LEMMA ServeIsSound ==
  ASSUME NEW x, DOMAIN x = Fields, Asked(x), ~ x.complete, ~ x.listed, ~ x.failed, x.expires = Never, NEW i \in Ids
  PROVE  /\ SoundRequest(serve(x, i)) /\ serve(x, i).served = entry[i].val /\ serve(x, i).pc = "hit"
         /\ ~ serve(x, i).complete /\ serve(x, i).team = x.team /\ serve(x, i).prompt = x.prompt
<1>1. LET y == serve(x, i)
      IN  /\ DOMAIN y = Fields /\ Asked(y) /\ ~ y.complete /\ ~ y.listed /\ ~ y.failed /\ y.expires = Never
          /\ y.served = entry[i].val /\ y.pc = "hit" /\ y.team = x.team /\ y.prompt = x.prompt /\ y.best = i
  BY DEF serve, Fields, Asked, Key
<1> QED BY <1>1, Constants DEF SoundRequest, Steps, Seeking, Writing, Settling, Trimming

LEMMA SeekingFields ==
  ASSUME NEW x, SoundRequest(x), x.pc \in Seeking \ {"hit"}
  PROVE  /\ DOMAIN x = Fields /\ Asked(x) /\ ~ x.complete /\ ~ x.listed /\ ~ x.failed /\ x.expires = Never
         /\ x.served = None
BY DEF SoundRequest, Seeking

-----------------------------------------------------------------------------
(* Serving only what is shared.                                            *)

\* A step of request r, seen from its record, the entries and the buckets.
LEMMA RequestMoves ==
  ASSUME FlowInv, NEW r \in Requests, NEW y, req' = [req EXCEPT ![r] = y], SoundRequest(y), Keeps(req[r], y),
         y.served # None =>
           /\ y.served \in Requests /\ req[y.served].complete
           /\ Key(req[y.served])[1] = Key(y)[1] /\ Fits(Key(y)[2], Key(req[y.served])),
         now' = now, DOMAIN entry' = Ids,
         \A i \in Ids : /\ DOMAIN entry'[i] = {"val", "expires"} /\ entry'[i].expires \in Nat /\ entry'[i].expires <= Never
                        /\ Answer(entry'[i]) => \/ entry'[i].val = entry[i].val
                                                \/ entry'[i].val = r /\ y.complete /\ Key(y) = i,
         DOMAIN index' = Fingerprints,
         \A f \in Fingerprints : /\ DOMAIN index'[f] = {"members", "expires"}
                                 /\ DOMAIN index'[f].members \subseteq InBucket(f) /\ IsFiniteSet(DOMAIN index'[f].members)
  PROVE  FlowInv'
<1>1. /\ DOMAIN req' = Requests /\ req'[r] = y /\ \A a \in Requests \ {r} : req'[a] = req[a]
  BY DEF FlowInv
<1>2. ASSUME NEW a \in Requests, req[a].complete
      PROVE  req'[a].complete /\ Key(req'[a]) = Key(req[a])
  <2>1. CASE a = r BY <2>1, <1>1, <1>2 DEF Keeps, Key
  <2>2. CASE a # r BY <2>2, <1>1, <1>2
  <2> QED BY <2>1, <2>2
<1>3. \A a \in Requests : SoundRequest(req'[a]) BY <1>1 DEF FlowInv
<1>4. ASSUME NEW i \in Ids PROVE SoundEntry(i, entry[i])'
  <2> SUFFICES ASSUME Answer(entry'[i])
               PROVE  req'[entry'[i].val].complete /\ Key(req'[entry'[i].val]) = i
    BY DEF SoundEntry, Answer, KeyOf, Key
  <2>1. CASE entry'[i].val = r /\ y.complete /\ Key(y) = i
    BY <2>1, <1>1
  <2>2. CASE entry'[i].val = entry[i].val
    <3>1. entry[i].val \in Requests /\ req[entry[i].val].complete /\ Key(req[entry[i].val]) = i
      BY <2>2 DEF Answer, FlowInv, KeysAreSound, SoundEntry, KeyOf, Key
    <3>2. PICK a \in Requests : a = entry[i].val BY <3>1
    <3>3. req'[a].complete /\ Key(req'[a]) = Key(req[a]) BY <3>1, <3>2, <1>2
    <3> QED BY <3>1, <3>2, <3>3, <2>2
  <2> QED BY <2>1, <2>2
<1>5. KeysAreSound' BY <1>4 DEF KeysAreSound
<1>6. ASSUME NEW a \in Requests, req'[a].served # None
      PROVE  /\ req'[a].served \in Requests /\ req'[req'[a].served].complete
             /\ Key(req'[req'[a].served])[1] = Key(req'[a])[1] /\ Fits(Key(req'[a])[2], Key(req'[req'[a].served]))
  <2>1. PICK b : b = req'[a].served OBVIOUS
  <2>2. CASE a = r
    <3>1. /\ b \in Requests /\ req[b].complete
          /\ Key(req[b])[1] = Key(y)[1] /\ Fits(Key(y)[2], Key(req[b]))
      BY <2>1, <2>2, <1>1, <1>6
    <3>2. req'[b].complete /\ Key(req'[b]) = Key(req[b]) BY <3>1, <1>2
    <3>3. Key(req'[a]) = Key(y) BY <2>2, <1>1
    <3> QED BY <2>1, <3>1, <3>2, <3>3
  <2>3. CASE a # r
    <3>1. /\ b \in Requests /\ req[b].complete
          /\ Key(req[b])[1] = Key(req[a])[1] /\ Fits(Key(req[a])[2], Key(req[b]))
      BY <2>1, <2>3, <1>1, <1>6 DEF FlowInv, KeyOf, Key, Bucket
    <3>2. req'[b].complete /\ Key(req'[b]) = Key(req[b]) BY <3>1, <1>2
    <3>3. Key(req'[a]) = Key(req[a]) BY <2>3, <1>1
    <3> QED BY <2>1, <3>1, <3>2, <3>3
  <2> QED BY <2>2, <2>3
<1>7. now' \in 0 .. MaxTime BY DEF FlowInv
<1> QED BY <1>1, <1>3, <1>5, <1>6, <1>7 DEF FlowInv, KeyOf, Key, Bucket

\* The same for a step that leaves Redis alone.
LEMMA QuietMoves ==
  ASSUME FlowInv, NEW r \in Requests, NEW y, req' = [req EXCEPT ![r] = y], SoundRequest(y), Keeps(req[r], y),
         y.served # None =>
           /\ y.served \in Requests /\ req[y.served].complete
           /\ Key(req[y.served])[1] = Key(y)[1] /\ Fits(Key(y)[2], Key(req[y.served])),
         UNCHANGED <<now, entry, index>>
  PROVE  FlowInv'
<1>1. /\ DOMAIN entry = Ids /\ \A i \in Ids : SoundEntry(i, entry[i])
      /\ DOMAIN index = Fingerprints
      /\ \A f \in Fingerprints : /\ DOMAIN index[f] = {"members", "expires"}
                                 /\ DOMAIN index[f].members \subseteq InBucket(f) /\ IsFiniteSet(DOMAIN index[f].members)
  BY DEF FlowInv, KeysAreSound
<1> QED BY <1>1, RequestMoves DEF SoundEntry

\* A step of a request that has stored nothing and stores nothing: its record may
\* become y, a hash that is gone may get a hit counter, a bucket may lose members.
Browses(r, y) ==
  /\ req' = [req EXCEPT ![r] = y] /\ SoundRequest(y) /\ ~ req[r].complete /\ ~ y.complete
  /\ y.served # None => /\ y.served \in Requests /\ req[y.served].complete
                        /\ Key(req[y.served])[1] = Key(y)[1] /\ Fits(Key(y)[2], Key(req[y.served]))
  /\ DOMAIN entry' = Ids
  /\ \A i \in Ids : \/ entry'[i] = entry[i]
                    \/ entry[i].val = None /\ entry'[i] = [val |-> "hits", expires |-> Never]
  /\ DOMAIN index' = Fingerprints
  /\ \A f \in Fingerprints :
       /\ DOMAIN index'[f] = {"members", "expires"} /\ DOMAIN index'[f].members \subseteq DOMAIN index[f].members
  /\ UNCHANGED <<teamIndex, scopeIndex, purge, now, unlisted, slipped>>

LEMMA QuietBrowse ==
  ASSUME FlowInv, NEW r \in Requests, NEW y, req' = [req EXCEPT ![r] = y], SoundRequest(y),
         ~ req[r].complete, ~ y.complete,
         y.served # None =>
           /\ y.served \in Requests /\ req[y.served].complete
           /\ Key(req[y.served])[1] = Key(y)[1] /\ Fits(Key(y)[2], Key(req[y.served])),
         quiet
  PROVE  Browses(r, y)
BY DEF Browses, FlowInv, KeysAreSound, quiet, redis, history

\* What an entry that is served has to show.
LEMMA ServedEntry ==
  ASSUME FlowInv, NEW i \in Ids, Answer(entry[i])
  PROVE  entry[i].val \in Requests /\ req[entry[i].val].complete /\ Key(req[entry[i].val]) = i
BY DEF FlowInv, KeysAreSound, SoundEntry, Answer, KeyOf, Key

LEMMA ConsultBrowses ==
  ASSUME FlowInv, NEW r \in Requests, NEW a \in Asks, NEW ok \in BOOLEAN, NEW e \in BOOLEAN, consultCache(r, a, ok, e)
  PROVE  \E y : Browses(r, y)
<1>1. PICK i : i = EntryID(a[1], a[2]) OBVIOUS
<1>2. a[1] \in Teams /\ a[2] \in DOMAIN Prompts /\ i \in Ids BY <1>1, AskedIds
<1>3. PICK x : x = [Fresh EXCEPT !.team = a[1], !.prompt = a[2]] OBVIOUS
<1>4. /\ DOMAIN x = Fields /\ ~ x.complete /\ ~ x.listed /\ ~ x.failed /\ x.expires = Never /\ x.served = None
      /\ x.team = a[1] /\ x.prompt = a[2]
  BY <1>3 DEF Fresh, Fields
<1>5. Asked(x) /\ Key(x) = i BY <1>1, <1>2, <1>4 DEF Asked, Key
<1>6. PICK y : y = IF ok /\ Answer(entry[i]) THEN serve(x, i)
                   ELSE IF ok /\ ~ Husk(entry[i]) /\ e THEN [x EXCEPT !.pc = "candidates", !.embedded = TRUE]
                   ELSE missed(x)
  OBVIOUS
<1>7. req[r].pc = "idle" /\ req' = [req EXCEPT ![r] = y] /\ quiet BY <1>1, <1>3, <1>6 DEF consultCache
<1>8. ~ req[r].complete BY <1>7 DEF FlowInv, SoundRequest
<1>9. CASE ok /\ Answer(entry[i])
  <2>1. y = serve(x, i) BY <1>6, <1>9
  <2>2. SoundRequest(y) /\ y.served = entry[i].val /\ ~ y.complete /\ y.team = x.team /\ y.prompt = x.prompt
    BY <2>1, <1>2, <1>4, <1>5, ServeIsSound
  <2>3. PICK b : b = y.served OBVIOUS
  <2>4. b \in Requests /\ req[b].complete /\ Key(req[b]) = i BY <2>2, <2>3, <1>2, <1>9, ServedEntry
  <2>5. Key(y) = i BY <2>2, <1>5 DEF Key
  <2>6. Fits(i[2], i) BY DEF Fits
  <2> QED BY <2>2, <2>3, <2>4, <2>5, <2>6, <1>7, <1>8, QuietBrowse
<1>10. CASE ~ (ok /\ Answer(entry[i])) /\ ok /\ ~ Husk(entry[i]) /\ e
  <2>1. y = [x EXCEPT !.pc = "candidates", !.embedded = TRUE] BY <1>6, <1>10
  <2>2. /\ DOMAIN y = Fields /\ ~ y.complete /\ ~ y.listed /\ ~ y.failed /\ y.expires = Never /\ y.served = None
        /\ y.team = x.team /\ y.prompt = x.prompt /\ y.pc = "candidates"
    BY <2>1, <1>4 DEF Fields
  <2>3. Asked(y) BY <2>2, <1>5 DEF Asked, Key
  <2>4. SoundRequest(y)
    BY <2>2, <2>3, Constants DEF SoundRequest, Steps, Seeking, Writing, Settling, Trimming
  <2> QED BY <2>2, <2>4, <1>7, <1>8, QuietBrowse
<1>11. CASE ~ (ok /\ Answer(entry[i])) /\ ~ (ok /\ ~ Husk(entry[i]) /\ e)
  <2>1. y = missed(x) BY <1>6, <1>11
  <2>2. SoundRequest(y) /\ y.served = None /\ ~ y.complete BY <2>1, <1>4, <1>5, MissedIsSound
  <2> QED BY <2>2, <1>7, <1>8, QuietBrowse
<1> QED BY <1>9, <1>10, <1>11

LEMMA SeekingMiss ==
  ASSUME FlowInv, NEW r \in Requests, req[r].pc \in Seeking \ {"hit"}, req' = [req EXCEPT ![r] = missed(req[r])], quiet
  PROVE  \E y : Browses(r, y)
<1>1. PICK x : x = req[r] OBVIOUS
<1>2. SoundRequest(x) BY <1>1 DEF FlowInv
<1>3. /\ DOMAIN x = Fields /\ Asked(x) /\ ~ x.complete /\ ~ x.listed /\ ~ x.failed /\ x.expires = Never /\ x.served = None
  BY <1>1, <1>2, SeekingFields
<1>4. SoundRequest(missed(x)) /\ missed(x).served = None /\ ~ missed(x).complete BY <1>3, MissedIsSound
<1> QED BY <1>1, <1>3, <1>4, QuietBrowse

LEMMA CandidatesBrowses ==
  ASSUME FlowInv, NEW r \in Requests, NEW ok \in BOOLEAN, Candidates(r, ok)
  PROVE  \E y : Browses(r, y)
<1>1. req[r].pc = "candidates" /\ quiet BY DEF Candidates
<1>2. PICK f : f = Bucket(r) OBVIOUS
<1>3. PICK s \in zrevrange(index[f].members) :
        req' = [req EXCEPT ![r] = IF ok /\ first(s, MaxCandidates) # <<>>
                                  THEN [req[r] EXCEPT !.pc = "vectors", !.work = first(s, MaxCandidates)]
                                  ELSE missed(req[r])]
  BY <1>2 DEF Candidates
<1>4. PICK ids : ids = first(s, MaxCandidates) OBVIOUS
<1>5. PICK x : x = req[r] OBVIOUS
<1>6. SoundRequest(x) /\ x.pc \in Seeking \ {"hit"} BY <1>1, <1>5 DEF FlowInv, Seeking
<1>7. /\ DOMAIN x = Fields /\ Asked(x) /\ ~ x.complete /\ ~ x.listed /\ ~ x.failed /\ x.expires = Never /\ x.served = None
  BY <1>6, SeekingFields
<1>8. CASE ~ (ok /\ ids # <<>>)
  BY <1>1, <1>3, <1>4, <1>8, SeekingMiss DEF Seeking
<1>9. CASE ok /\ ids # <<>>
  <2>1. PICK y : y = [x EXCEPT !.pc = "vectors", !.work = ids] OBVIOUS
  <2>2. req' = [req EXCEPT ![r] = y] BY <2>1, <1>3, <1>4, <1>5, <1>9
  <2>3. /\ DOMAIN y = Fields /\ ~ y.complete /\ ~ y.listed /\ ~ y.failed /\ y.expires = Never /\ y.served = None
        /\ y.team = x.team /\ y.prompt = x.prompt /\ y.pc = "vectors" /\ y.work = ids
    BY <2>1, <1>7 DEF Fields
  <2>4. Asked(y) /\ Key(y) = Key(x) BY <2>3, <1>7 DEF Asked, Key
  <2>5. f = Key(x)[1] /\ f \in Fingerprints
    BY <1>2, <1>5, <1>7, PartsOfKey DEF Bucket, KeyOf, Key, Asked
  <2>6. DOMAIN index[f].members \subseteq InBucket(f) /\ IsFiniteSet(DOMAIN index[f].members)
    BY <2>5 DEF FlowInv, KeysAreSound
  <2>7. \A k \in DOMAIN ids : ids[k] \in DOMAIN index[f].members BY <2>6, <1>3, <1>4, CandidatesAreMembers
  <2>8. \A k \in DOMAIN y.work : y.work[k] \in InBucket(Key(y)[1]) BY <2>3, <2>4, <2>5, <2>6, <2>7
  <2>9. SoundRequest(y)
    BY <2>3, <2>4, <2>8, Constants DEF SoundRequest, Steps, Seeking, Writing, Settling, Trimming
  <2> QED BY <2>2, <2>3, <2>9, <1>1, <1>5, <1>7, QuietBrowse
<1> QED BY <1>8, <1>9
\* Of candidates of the bucket, the nearest one that the threshold leaves fits the query.
LEMMA NearestFits ==
  ASSUME NEW q, NEW ids, NEW f, \A k \in DOMAIN ids : ids[k] \in InBucket(f), NEW i \in nearest(q, ids)
  PROVE  acceptable(q, i) # None => acceptable(q, i) \in InBucket(f) /\ Fits(q, acceptable(q, i))
<1> SUFFICES ASSUME acceptable(q, i) # None PROVE acceptable(q, i) \in InBucket(f) /\ Fits(q, acceptable(q, i))
  OBVIOUS
<1>1. acceptable(q, i) = i /\ i # None /\ Sim[q][i[2]] >= Threshold BY DEF acceptable
<1>2. \E n \in DOMAIN ids : i = ids[n] BY <1>1 DEF nearest
<1> QED BY <1>1, <1>2 DEF Fits

LEMMA VectorsBrowses ==
  ASSUME FlowInv, NEW r \in Requests, NEW ok \in BOOLEAN, loadVectors(r, ok)
  PROVE  \E y : Browses(r, y)
<1>1. PICK q, ids : q = KeyOf(r)[2] /\ ids = req[r].work OBVIOUS
<1>2. PICK stale : stale = {i \in ToSet(ids) : ~ Answer(entry[i])} OBVIOUS
<1>3. req[r].pc = "vectors" /\ quiet BY DEF loadVectors
<1>4. PICK i \in nearest(q, ids) : \E best \in {acceptable(q, i)} :
          req' = [req EXCEPT ![r] =
            IF ~ ok THEN missed(req[r])
            ELSE [req[r] EXCEPT !.pc = IF stale # {} THEN "prune" ELSE afterScan(best),
                           !.best = best, !.work = <<>>, !.drop = stale]]
  BY <1>1, <1>2 DEF loadVectors
<1>5. PICK best : best = acceptable(q, i) OBVIOUS
<1>6. PICK pc : pc = IF stale # {} THEN "prune" ELSE afterScan(best) OBVIOUS
<1>7. PICK x : x = req[r] OBVIOUS
<1>8. SoundRequest(x) /\ x.pc \in Seeking \ {"hit"} /\ x.pc = "vectors" BY <1>3, <1>7 DEF FlowInv, Seeking
<1>9. /\ DOMAIN x = Fields /\ Asked(x) /\ ~ x.complete /\ ~ x.listed /\ ~ x.failed /\ x.expires = Never /\ x.served = None
  BY <1>8, SeekingFields
<1>10. CASE ~ ok
  BY <1>3, <1>4, <1>10, SeekingMiss DEF Seeking
<1>11. CASE ok
  <2>1. PICK y : y = [x EXCEPT !.pc = pc, !.best = best, !.work = <<>>, !.drop = stale] OBVIOUS
  <2>2. req' = [req EXCEPT ![r] = y] BY <2>1, <1>4, <1>5, <1>6, <1>7, <1>11
  <2>3. /\ DOMAIN y = Fields /\ ~ y.complete /\ ~ y.listed /\ ~ y.failed /\ y.expires = Never /\ y.served = None
        /\ y.team = x.team /\ y.prompt = x.prompt /\ y.pc = pc /\ y.best = best
    BY <2>1, <1>9 DEF Fields
  <2>4. Asked(y) /\ Key(y) = Key(x) BY <2>3, <1>9 DEF Asked, Key
  <2>5. \A k \in DOMAIN ids : ids[k] \in InBucket(Key(x)[1]) BY <1>1, <1>7, <1>8 DEF SoundRequest
  <2>6. q = Key(y)[2] BY <1>1, <1>7, <2>4 DEF KeyOf, Key
  <2>7. best # None => best \in InBucket(Key(y)[1]) /\ Fits(Key(y)[2], best)
    BY <2>4, <2>5, <2>6, <1>4, <1>5, NearestFits
  <2>8. pc \in {"prune", "fetch", "miss"} /\ (pc = "fetch" => best # None) BY <1>6 DEF afterScan
  <2>9. SoundRequest(y)
    BY <2>3, <2>4, <2>7, <2>8, Constants DEF SoundRequest, Steps, Seeking, Writing, Settling, Trimming
  <2> QED BY <2>2, <2>3, <2>9, <1>3, <1>7, <1>9, QuietBrowse
<1> QED BY <1>10, <1>11

LEMMA PruneBrowses ==
  ASSUME FlowInv, NEW r \in Requests, NEW ok \in BOOLEAN, prune(r, ok)
  PROVE  \E y : Browses(r, y)
<1>1. PICK x : x = req[r] OBVIOUS
<1>2. PICK f : f = Bucket(r) OBVIOUS
<1>3. PICK pc : pc = afterScan(x.best) OBVIOUS
<1>4. SoundRequest(x) /\ x.pc \in Seeking \ {"hit"} /\ x.pc = "prune" BY <1>1 DEF FlowInv, Seeking, prune
<1>5. /\ DOMAIN x = Fields /\ Asked(x) /\ ~ x.complete /\ ~ x.listed /\ ~ x.failed /\ x.expires = Never /\ x.served = None
  BY <1>4, SeekingFields
<1>6. PICK y : y = [x EXCEPT !.pc = pc, !.drop = {}] OBVIOUS
<1>7. req' = [req EXCEPT ![r] = y] BY <1>1, <1>3, <1>6 DEF prune, FlowInv
<1>8. /\ DOMAIN y = Fields /\ ~ y.complete /\ ~ y.listed /\ ~ y.failed /\ y.expires = Never /\ y.served = None
      /\ y.team = x.team /\ y.prompt = x.prompt /\ y.pc = pc /\ y.best = x.best
  BY <1>6, <1>5 DEF Fields
<1>9. Asked(y) /\ Key(y) = Key(x) BY <1>8, <1>5 DEF Asked, Key
<1>10. pc \in {"fetch", "miss"} /\ (pc = "fetch" => x.best # None) BY <1>3 DEF afterScan
<1>11. x.best # None => x.best \in InBucket(Key(x)[1]) /\ Fits(Key(x)[2], x.best) BY <1>4 DEF SoundRequest
<1>12. SoundRequest(y)
  BY <1>8, <1>9, <1>10, <1>11, Constants DEF SoundRequest, Steps, Seeking, Writing, Settling, Trimming
<1>13. /\ DOMAIN index = Fingerprints
       /\ \A g \in Fingerprints : DOMAIN index[g] = {"members", "expires"}
  BY DEF FlowInv, KeysAreSound
<1>14. PICK z : z = IF ok THEN zrem(index[f].members, x.drop) ELSE index[f].members OBVIOUS
<1>15. index' = [index EXCEPT ![f].members = z] BY <1>1, <1>2, <1>14 DEF prune
<1>16. DOMAIN z \subseteq DOMAIN index[f].members BY <1>14 DEF zrem
<1>17. /\ DOMAIN index' = Fingerprints
       /\ \A g \in Fingerprints :
            /\ DOMAIN index'[g] = {"members", "expires"} /\ DOMAIN index'[g].members \subseteq DOMAIN index[g].members
  BY <1>13, <1>15, <1>16
<1>18. DOMAIN entry = Ids BY DEF FlowInv, KeysAreSound
<1>19. UNCHANGED <<entry, teamIndex, scopeIndex, purge, now, unlisted, slipped>> BY DEF prune, history
<1> QED BY <1>1, <1>5, <1>7, <1>8, <1>12, <1>17, <1>18, <1>19 DEF Browses

LEMMA FetchBrowses ==
  ASSUME FlowInv, NEW r \in Requests, NEW ok \in BOOLEAN, Fetch(r, ok)
  PROVE  \E y : Browses(r, y)
<1>1. req[r].pc = "fetch" /\ quiet BY DEF Fetch
<1>2. PICK x : x = req[r] OBVIOUS
<1>3. PICK i : i = x.best OBVIOUS
<1>4. SoundRequest(x) /\ x.pc \in Seeking \ {"hit"} /\ x.pc = "fetch" BY <1>1, <1>2 DEF FlowInv, Seeking
<1>5. /\ DOMAIN x = Fields /\ Asked(x) /\ ~ x.complete /\ ~ x.listed /\ ~ x.failed /\ x.expires = Never /\ x.served = None
  BY <1>4, SeekingFields
<1>6. i \in InBucket(Key(x)[1]) /\ Fits(Key(x)[2], i) BY <1>3, <1>4 DEF SoundRequest
<1>7. i \in Ids /\ i[1] = Key(x)[1] BY <1>6 DEF InBucket
<1>8. req' = [req EXCEPT ![r] = IF ok /\ Answer(entry[i]) THEN serve(x, i) ELSE missed(x)]
  BY <1>2, <1>3 DEF Fetch
<1>9. CASE ok /\ Answer(entry[i])
  <2>1. PICK y : y = serve(x, i) OBVIOUS
  <2>2. SoundRequest(y) /\ y.served = entry[i].val /\ ~ y.complete /\ y.team = x.team /\ y.prompt = x.prompt
    BY <2>1, <1>7, <1>5, ServeIsSound
  <2>3. PICK b : b = y.served OBVIOUS
  <2>4. b \in Requests /\ req[b].complete /\ Key(req[b]) = i BY <2>2, <2>3, <1>7, <1>9, ServedEntry
  <2>5. Key(y) = Key(x) BY <2>2 DEF Key
  <2>6. Key(req[b])[1] = Key(y)[1] /\ Fits(Key(y)[2], Key(req[b])) BY <2>4, <2>5, <1>6, <1>7
  <2>7. req' = [req EXCEPT ![r] = y] BY <2>1, <1>8, <1>9
  <2> QED BY <2>2, <2>3, <2>4, <2>6, <2>7, <1>1, <1>2, <1>5, QuietBrowse
<1>10. CASE ~ (ok /\ Answer(entry[i]))
  BY <1>1, <1>2, <1>8, <1>10, SeekingMiss DEF Seeking
<1> QED BY <1>9, <1>10

LEMMA HitBrowses ==
  ASSUME FlowInv, NEW r \in Requests, NEW ok \in BOOLEAN, RecordHit(r, ok)
  PROVE  \E y : Browses(r, y)
<1>1. PICK i : i = req[r].best OBVIOUS
<1>2. req[r].pc = "hit" BY DEF RecordHit
<1>3. SoundRequest(req[r]) BY DEF FlowInv
<1>4. i \in Ids /\ ~ req[r].complete BY <1>1, <1>2, <1>3 DEF SoundRequest, Seeking
<1>5. DOMAIN entry = Ids /\ DOMAIN index = Fingerprints
      /\ \A g \in Fingerprints : DOMAIN index[g] = {"members", "expires"}
  BY DEF FlowInv, KeysAreSound
<1>6. entry' = [entry EXCEPT ![i] = IF ok THEN hincrby(entry[i]) ELSE entry[i]] BY <1>1 DEF RecordHit
<1>7. \A j \in Ids : \/ entry'[j] = entry[j]
                     \/ entry[j].val = None /\ entry'[j] = [val |-> "hits", expires |-> Never]
  BY <1>4, <1>5, <1>6 DEF hincrby
<1>8. DOMAIN entry' = Ids BY <1>5, <1>6
<1>9. req' = [req EXCEPT ![r] = Over] /\ UNCHANGED <<index, teamIndex, scopeIndex, purge, now, unlisted, slipped>>
  BY DEF RecordHit, history
<1> QED BY <1>4, <1>5, <1>7, <1>8, <1>9, OverIsSound DEF Browses

LEMMA LookupBrowses ==
  ASSUME FlowInv, NEW r \in Requests, Lookup(r)
  PROVE  \E y : Browses(r, y)
<1>1. Outcomes \subseteq BOOLEAN BY DEF Outcomes
<1> QED BY <1>1, ConsultBrowses, CandidatesBrowses, VectorsBrowses, PruneBrowses, FetchBrowses, HitBrowses DEF Lookup

\* Such a step keeps the flow.
LEMMA BrowseKeepsFlow ==
  ASSUME FlowInv, NEW r \in Requests, NEW y, Browses(r, y)
  PROVE  FlowInv'
<1>1. /\ req' = [req EXCEPT ![r] = y] /\ SoundRequest(y) /\ ~ req[r].complete /\ ~ y.complete
      /\ now' = now /\ DOMAIN entry' = Ids /\ DOMAIN index' = Fingerprints
      /\ y.served # None => /\ y.served \in Requests /\ req[y.served].complete
                            /\ Key(req[y.served])[1] = Key(y)[1] /\ Fits(Key(y)[2], Key(req[y.served]))
  BY DEF Browses
<1>2. Keeps(req[r], y) BY <1>1 DEF Keeps
<1>3. ASSUME NEW i \in Ids
      PROVE  /\ DOMAIN entry'[i] = {"val", "expires"} /\ entry'[i].expires \in Nat /\ entry'[i].expires <= Never
             /\ Answer(entry'[i]) => entry'[i].val = entry[i].val
  <2>1. SoundEntry(i, entry[i]) BY DEF FlowInv, KeysAreSound
  <2>2. CASE entry'[i] = entry[i] BY <2>1, <2>2 DEF SoundEntry
  <2>3. CASE entry'[i] = [val |-> "hits", expires |-> Never] BY <2>3, Constants DEF Answer
  <2> QED BY <2>2, <2>3 DEF Browses
<1>4. ASSUME NEW f \in Fingerprints
      PROVE  /\ DOMAIN index'[f] = {"members", "expires"}
             /\ DOMAIN index'[f].members \subseteq InBucket(f) /\ IsFiniteSet(DOMAIN index'[f].members)
  <2>1. DOMAIN index[f].members \subseteq InBucket(f) /\ IsFiniteSet(DOMAIN index[f].members)
    BY DEF FlowInv, KeysAreSound
  <2>2. DOMAIN index'[f] = {"members", "expires"} /\ DOMAIN index'[f].members \subseteq DOMAIN index[f].members
    BY DEF Browses
  <2> QED BY <2>1, <2>2, FS_Subset
<1> QED BY <1>1, <1>2, <1>3, <1>4, RequestMoves

-----------------------------------------------------------------------------
(* What a store does.                                                      *)

\* HSET: request r becomes y and its key holds its answer.
Begins(r, y) ==
  /\ req' = [req EXCEPT ![r] = y] /\ SoundRequest(y) /\ req[r].pc = "miss" /\ ~ req[r].complete
  /\ y.pc = "expire" /\ y.complete /\ Key(y) = Key(req[r]) /\ y.served = None /\ ~ y.listed
  /\ y.mixed = (\E x \in Requests : req[x].pc = "expire" /\ KeyOf(x) = Key(y))
  /\ entry' = [entry EXCEPT ![Key(y)].val = r]
  /\ slipped' = slipped \ {Key(y)}
  /\ UNCHANGED <<index, teamIndex, scopeIndex, purge, now, unlisted>>

\* EXPIRE.
Expires(r, y) ==
  /\ req' = [req EXCEPT ![r] = y] /\ SoundRequest(y) /\ Keeps(req[r], y) /\ req[r].pc = "expire"
  /\ req[r].complete /\ Key(y) = Key(req[r])
  /\ y.pc = "indexes" /\ y.expires = now + req[r].ttl /\ y.served = None /\ ~ y.listed
  /\ entry' = [entry EXCEPT ![Key(y)] = lifetime(@, y.expires)]
  /\ UNCHANGED <<index, teamIndex, scopeIndex, purge, now, unlisted, slipped>>

\* The rest of a store: its indexes are written, its scope is trimmed, it ends.
Settles(r, y) ==
  /\ req' = [req EXCEPT ![r] = y] /\ SoundRequest(y) /\ Keeps(req[r], y) /\ req[r].complete
  /\ Key(y) = Key(req[r]) /\ y.expires = req[r].expires /\ y.served = None /\ y.pc \notin Writing
  /\ DOMAIN entry' = Ids /\ \A i \in Ids : entry'[i] \in {entry[i], NoEntry}
  /\ DOMAIN index' = Fingerprints
  /\ \A f \in Fingerprints :
       /\ DOMAIN index'[f] = {"members", "expires"}
       /\ DOMAIN index'[f].members \subseteq DOMAIN index[f].members \cup (IF f = Key(y)[1] THEN {Key(y)} ELSE {})
  /\ teamIndex' \in {teamIndex, [teamIndex EXCEPT ![req[r].team] = putTeam(r)]}
  /\ y.listed => req[r].listed \/ teamIndex' = [teamIndex EXCEPT ![req[r].team] = putTeam(r)]
  /\ UNCHANGED <<purge, now, unlisted>>

LEMMA StoreBegins ==
  ASSUME FlowInv, NEW r \in Requests, NEW resp \in Responses, NEW h \in Headers, NEW ok \in BOOLEAN,
         storeInCache(r, resp, h, ok)
  PROVE  (\E y : Begins(r, y)) \/ Browses(r, Over)
<1>1. PICK x : x = req[r] OBVIOUS
<1>2. PICK i : i = KeyOf(r) OBVIOUS
<1>3. PICK ttl : ttl = TTLFor(i[2], parseCacheTTLHeader(h)) OBVIOUS
<1>4. ttl \in Nat /\ ttl <= MaxTTL BY <1>3, LifetimeIsClamped
<1>5. x.pc = "miss" /\ x.pc \in Seeking \ {"hit"} /\ SoundRequest(x)
  BY <1>1 DEF storeInCache, FlowInv, Seeking
<1>6. /\ DOMAIN x = Fields /\ Asked(x) /\ ~ x.complete /\ ~ x.listed /\ ~ x.failed /\ x.expires = Never /\ x.served = None
  BY <1>5, SeekingFields
<1>7. UNCHANGED <<index, teamIndex, scopeIndex, purge, now, unlisted>> BY DEF storeInCache
<1>8. CASE Cacheable(resp) /\ ttl > 0 /\ ok
  <2>1. resp = "stop" BY <1>8 DEF Cacheable
  <2>2. PICK m : m = (\E a \in Requests : req[a].pc = "expire" /\ KeyOf(a) = i) OBVIOUS
  <2>3. PICK y : y = [x EXCEPT !.pc = "expire", !.complete = TRUE, !.ttl = ttl, !.stamp = stamps + 1, !.mixed = m]
    OBVIOUS
  <2>4. /\ entry' = [entry EXCEPT ![i].val = r] /\ slipped' = slipped \ {i}
        /\ req' = [req EXCEPT ![r] =
                  [@ EXCEPT !.pc = "expire", !.complete = (resp = "stop"), !.ttl = ttl, !.stamp = stamps + 1,
                            !.mixed = \E a \in Requests : req[a].pc = "expire" /\ KeyOf(a) = i]]
    BY <1>2, <1>3, <1>8 DEF storeInCache
  <2>5. req' = [req EXCEPT ![r] = y] BY <2>1, <2>2, <2>3, <2>4, <1>1
  <2>6. /\ DOMAIN y = Fields /\ y.complete /\ ~ y.listed /\ ~ y.failed /\ y.expires = Never /\ y.served = None
        /\ y.team = x.team /\ y.prompt = x.prompt /\ y.pc = "expire" /\ y.ttl = ttl /\ y.mixed = m
    BY <2>3, <1>6 DEF Fields
  <2>7. Asked(y) /\ Key(y) = Key(x) BY <2>6, <1>6 DEF Asked, Key
  <2>8. SoundRequest(y)
    BY <2>6, <2>7, <1>4, Constants DEF SoundRequest, Steps, Seeking, Writing, Settling, Trimming
  <2>9. Key(y) = i BY <2>7, <1>1, <1>2 DEF KeyOf, Key
  <2> QED BY <2>2, <2>4, <2>5, <2>6, <2>7, <2>8, <2>9, <1>1, <1>5, <1>6, <1>7 DEF Begins
<1>9. CASE ~ (Cacheable(resp) /\ ttl > 0 /\ ok)
  <2>1. req' = [req EXCEPT ![r] = Over] /\ entry' = entry /\ slipped' = slipped
    BY <1>2, <1>3, <1>9 DEF storeInCache
  <2>2. DOMAIN entry = Ids /\ DOMAIN index = Fingerprints /\ \A g \in Fingerprints : DOMAIN index[g] = {"members", "expires"}
    BY DEF FlowInv, KeysAreSound
  <2> QED BY <2>1, <2>2, <1>1, <1>6, <1>7, OverIsSound DEF Browses
<1> QED BY <1>8, <1>9

LEMMA StoreExpires ==
  ASSUME FlowInv, NEW r \in Requests, putExpire(r)
  PROVE  \E y : Expires(r, y)
<1>1. PICK x : x = req[r] OBVIOUS
<1>2. SoundRequest(x) /\ x.pc = "expire" BY <1>1 DEF FlowInv, putExpire
<1>3. /\ DOMAIN x = Fields /\ Asked(x) /\ x.complete /\ ~ x.listed /\ ~ x.failed /\ x.served = None
      /\ x.ttl \in Nat /\ x.ttl <= MaxTTL
  BY <1>2 DEF SoundRequest, Writing
<1>4. PICK t : t = now + x.ttl OBVIOUS
<1>5. t \in Nat /\ t <= Never BY <1>3, <1>4, Constants DEF FlowInv
<1>6. PICK y : y = [x EXCEPT !.pc = "indexes", !.expires = t] OBVIOUS
<1>7. req' = [req EXCEPT ![r] = y] BY <1>1, <1>4, <1>6 DEF putExpire, FlowInv
<1>8. /\ DOMAIN y = Fields /\ y.complete /\ ~ y.listed /\ ~ y.failed /\ y.expires = t /\ y.served = None
      /\ y.team = x.team /\ y.prompt = x.prompt /\ y.pc = "indexes" /\ y.ttl = x.ttl /\ y.mixed = x.mixed
      /\ y.embedded = x.embedded
  BY <1>3, <1>6 DEF Fields
<1>9. Asked(y) /\ Key(y) = Key(x) BY <1>8, <1>3 DEF Asked, Key
<1>10. SoundRequest(y)
  BY <1>3, <1>5, <1>8, <1>9, Constants DEF SoundRequest, Steps, Seeking, Writing, Settling, Trimming
<1>11. Keeps(x, y) BY <1>8 DEF Keeps
<1>12. entry' = [entry EXCEPT ![Key(y)] = lifetime(@, t)] BY <1>1, <1>4, <1>9 DEF putExpire, KeyOf, Key
<1>13. UNCHANGED <<index, teamIndex, scopeIndex, purge, now, unlisted, slipped>> BY DEF putExpire, history
<1> QED BY <1>1, <1>2, <1>3, <1>4, <1>7, <1>8, <1>9, <1>10, <1>11, <1>12, <1>13 DEF Expires

\* The indexes of a store, written in part or in full.
LEMMA IndexesSettle ==
  ASSUME FlowInv, NEW r \in Requests, NEW n \in 0 .. 4, putIndexes(r, n)
  PROVE  \E y : /\ Settles(r, y) /\ entry' = entry /\ slipped' = slipped
                /\ y.pc = IF n = 4 THEN "zcard" ELSE "done"
                /\ n < 4 => y.failed
                /\ req[r].pc = "indexes"
<1>1. PICK x : x = req[r] OBVIOUS
<1>2. SoundRequest(x) /\ x.pc = "indexes" BY <1>1 DEF FlowInv, putIndexes
<1>3. /\ DOMAIN x = Fields /\ Asked(x) /\ x.complete /\ ~ x.listed /\ ~ x.failed /\ x.served = None
      /\ x.ttl \in Nat /\ x.ttl <= MaxTTL /\ x.expires \in Nat /\ x.expires <= Never
  BY <1>2 DEF SoundRequest, Writing
<1>4. PICK y : y = IF n = 4 THEN [x EXCEPT !.pc = "zcard", !.listed = TRUE]
                   ELSE [ended(x) EXCEPT !.listed = n > 1, !.failed = TRUE]
  OBVIOUS
<1>5. req' = [req EXCEPT ![r] = y] BY <1>1, <1>4 DEF putIndexes, FlowInv
<1>6. /\ SoundRequest(y) /\ Keeps(x, y) /\ y.expires = x.expires /\ y.served = None /\ y.team = x.team
      /\ y.prompt = x.prompt /\ y.pc = (IF n = 4 THEN "zcard" ELSE "done") /\ (n < 4 => y.failed)
      /\ (y.listed <=> n > 1)
  <2>1. CASE n = 4
    <3>1. /\ DOMAIN y = Fields /\ y.complete /\ y.listed /\ ~ y.failed /\ y.expires = x.expires /\ y.served = None
          /\ y.team = x.team /\ y.prompt = x.prompt /\ y.pc = "zcard" /\ y.ttl = x.ttl /\ y.mixed = x.mixed
          /\ y.embedded = x.embedded /\ y.listed = TRUE
      BY <2>1, <1>3, <1>4 DEF Fields
    <3>2. Asked(y) BY <3>1, <1>3 DEF Asked, Key
    <3>3. SoundRequest(y)
      BY <3>1, <3>2, <1>3, Constants DEF SoundRequest, Steps, Seeking, Writing, Settling, Trimming
    <3>4. n > 1 BY <2>1
    <3> QED BY <2>1, <3>1, <3>3, <3>4 DEF Keeps
  <2>2. CASE n # 4
    <3>1. PICK l : l = (n > 1) OBVIOUS
    <3>2. y = cutShort(x, l) BY <2>2, <3>1, <1>4 DEF cutShort
    <3>3. /\ SoundRequest(y) /\ Keeps(x, y) /\ y.served = None /\ y.pc = "done"
          /\ y.listed = l /\ y.failed /\ y.expires = x.expires /\ y.team = x.team /\ y.prompt = x.prompt
      BY <3>2, <1>2, EndedIsSound
    <3> QED BY <2>2, <3>1, <3>3
  <2> QED BY <2>1, <2>2
<1>7. Key(y) = Key(x) /\ y.pc \notin Writing BY <1>6 DEF Key, Writing
<1>8. /\ DOMAIN entry = Ids /\ DOMAIN index = Fingerprints
      /\ \A g \in Fingerprints : DOMAIN index[g] = {"members", "expires"}
  BY DEF FlowInv, KeysAreSound
<1>9. KeyOf(r) = Key(y) /\ Bucket(r) = Key(y)[1] BY <1>1, <1>7 DEF Bucket, KeyOf, Key
<1>10. PICK k : k = Key(y) OBVIOUS
<1>11. /\ DOMAIN index' = Fingerprints
       /\ \A f \in Fingerprints :
            /\ DOMAIN index'[f] = {"members", "expires"}
            /\ DOMAIN index'[f].members \subseteq DOMAIN index[f].members \cup (IF f = k[1] THEN {k} ELSE {})
  <2>1. CASE n > 0
    <3>1. PICK z \in putIndex(r) : index' = [index EXCEPT ![Bucket(r)] = z] BY <2>1 DEF putIndexes
    <3>2. PICK a : a = zadd(index[k[1]].members, k, req[r].stamp) OBVIOUS
    <3>3. PICK S, t : z = [members |-> zrem(a, S), expires |-> t] BY <3>2, <1>9, <1>10 DEF putIndex
    <3>4. DOMAIN a = DOMAIN index[k[1]].members \cup {k} BY <3>2 DEF zadd
    <3>5. DOMAIN z = {"members", "expires"} /\ DOMAIN z.members \subseteq DOMAIN index[k[1]].members \cup {k}
      BY <3>3, <3>4 DEF zrem
    <3> QED BY <3>1, <3>5, <1>8, <1>9, <1>10
  <2>2. CASE ~ (n > 0)
    <3>1. index' = index BY <2>2 DEF putIndexes
    <3> QED BY <3>1, <1>8
  <2> QED BY <2>1, <2>2
<1>12. teamIndex' = IF n > 1 THEN [teamIndex EXCEPT ![req[r].team] = putTeam(r)] ELSE teamIndex BY DEF putIndexes
<1>13. UNCHANGED <<entry, purge, now, unlisted, slipped>> BY DEF putIndexes, history
<1>14. \A i \in Ids : entry'[i] \in {entry[i], NoEntry} BY <1>13
<1>15. Settles(r, y)
  BY <1>1, <1>3, <1>5, <1>6, <1>7, <1>8, <1>10, <1>11, <1>12, <1>13, <1>14 DEF Settles
<1> QED BY <1>1, <1>2, <1>6, <1>13, <1>15

\* A command of the trim or an early end, which leaves the bucket and the team's index alone.
LEMMA PlainSettle ==
  ASSUME FlowInv, NEW r \in Requests, req[r].complete, NEW y, req' = [req EXCEPT ![r] = y],
         SoundRequest(y), Keeps(req[r], y), y.expires = req[r].expires, y.served = None, y.pc \notin Writing,
         y.listed = req[r].listed,
         DOMAIN entry' = Ids, \A i \in Ids : entry'[i] \in {entry[i], NoEntry},
         UNCHANGED <<index, teamIndex, purge, now, unlisted>>
  PROVE  Settles(r, y)
<1>1. Key(y) = Key(req[r]) BY DEF Keeps, Key
<1>2. DOMAIN index = Fingerprints /\ \A g \in Fingerprints : DOMAIN index[g] = {"members", "expires"}
  BY DEF FlowInv, KeysAreSound
<1> QED BY <1>1, <1>2 DEF Settles

\* Moving on within the trim.
LEMMA TrimMoves ==
  ASSUME NEW x, SoundRequest(x), x.pc \in Settling, NEW y, DOMAIN y = Fields, y.pc \in Trimming,
         y.team = x.team, y.prompt = x.prompt, y.complete = x.complete, y.listed = x.listed, y.failed = x.failed,
         y.expires = x.expires, y.ttl = x.ttl, y.mixed = x.mixed, y.embedded = x.embedded, y.served = x.served
  PROVE  SoundRequest(y) /\ Keeps(x, y) /\ y.served = None /\ y.complete /\ y.pc \notin Writing
<1>1. /\ Asked(x) /\ x.complete /\ x.served = None /\ x.ttl \in Nat /\ x.ttl <= MaxTTL /\ x.expires \in Nat
      /\ x.expires <= Never
  BY DEF SoundRequest, Settling, Trimming
<1>2. Asked(y) BY <1>1 DEF Asked, Key
<1>3. SoundRequest(y) BY <1>1, <1>2, Constants DEF SoundRequest, Steps, Seeking, Writing, Settling, Trimming
<1>4. y.pc \notin Writing BY DEF Trimming, Writing
<1> QED BY <1>1, <1>3, <1>4 DEF Keeps

\* ZCARD.
LEMMA CountSettles ==
  ASSUME FlowInv, NEW r \in Requests, trimCount(r)
  PROVE  LET n == overflow(scopeIndex[ScopeOf(KeyOf(r))])
         IN  \E y : /\ Settles(r, y) /\ UNCHANGED <<entry, slipped, scopeIndex>> /\ req[r].pc = "zcard"
                    /\ IF n = 0 THEN y.pc = "done" /\ ~ y.failed ELSE y.pc = "zrange" /\ y.n = n
<1>1. PICK x : x = req[r] OBVIOUS
<1>2. PICK n : n = overflow(scopeIndex[ScopeOf(KeyOf(r))]) OBVIOUS
<1>3. SoundRequest(x) /\ x.pc = "zcard" BY <1>1 DEF FlowInv, trimCount
<1>4. DOMAIN x = Fields /\ x.complete BY <1>3 DEF SoundRequest, Settling
<1>5. UNCHANGED <<entry, index, teamIndex, scopeIndex, purge, now, unlisted, slipped>> BY DEF trimCount, quiet, redis, history
<1>6. PICK y : y = IF n = 0 THEN ended(x) ELSE [x EXCEPT !.pc = "zrange", !.n = n] OBVIOUS
<1>7. req' = [req EXCEPT ![r] = y] BY <1>1, <1>2, <1>6 DEF trimCount
<1>8. DOMAIN entry' = Ids /\ \A i \in Ids : entry'[i] \in {entry[i], NoEntry} BY <1>5 DEF FlowInv, KeysAreSound
<1>9. CASE n = 0
  <2>1. y = ended(x) BY <1>6, <1>9
  <2>2. /\ SoundRequest(y) /\ Keeps(x, y) /\ y.served = None /\ y.pc = "done" /\ y.listed = x.listed /\ ~ y.failed
        /\ y.expires = x.expires
    BY <2>1, <1>3, PlainEndIsSound
  <2>3. y.pc \notin Writing BY <2>2 DEF Writing
  <2>4. Settles(r, y) BY <2>2, <2>3, <1>1, <1>4, <1>5, <1>7, <1>8, PlainSettle
  <2> QED BY <2>2, <2>4, <1>1, <1>2, <1>3, <1>5, <1>9
<1>10. CASE n # 0
  <2>1. y = [x EXCEPT !.pc = "zrange", !.n = n] BY <1>6, <1>10
  <2>2. /\ DOMAIN y = Fields /\ y.pc = "zrange" /\ y.n = n /\ y.team = x.team /\ y.prompt = x.prompt
        /\ y.complete = x.complete /\ y.listed = x.listed /\ y.failed = x.failed /\ y.expires = x.expires
        /\ y.ttl = x.ttl /\ y.mixed = x.mixed /\ y.embedded = x.embedded /\ y.served = x.served
    BY <2>1, <1>4 DEF Fields
  <2>3. y.pc \in Trimming /\ x.pc \in Settling BY <2>2, <1>3 DEF Trimming, Settling
  <2>4. SoundRequest(y) /\ Keeps(x, y) /\ y.served = None /\ y.pc \notin Writing BY <2>2, <2>3, <1>3, TrimMoves
  <2>5. Settles(r, y) BY <2>2, <2>4, <1>1, <1>4, <1>5, <1>7, <1>8, PlainSettle
  <2> QED BY <2>2, <2>5, <1>1, <1>2, <1>3, <1>5, <1>10
<1> QED BY <1>9, <1>10

\* ZRANGE.
LEMMA VictimsSettle ==
  ASSUME FlowInv, NEW r \in Requests, trimVictims(r)
  PROVE  \E V \in zoldest(scopeIndex[ScopeOf(KeyOf(r))], req[r].n) : \E y :
           /\ Settles(r, y) /\ UNCHANGED <<entry, slipped, scopeIndex>> /\ req[r].pc = "zrange"
           /\ IF V = {} THEN y.pc = "done" /\ ~ y.failed ELSE y.pc = "del" /\ y.drop = V
<1>1. PICK x : x = req[r] OBVIOUS
<1>2. PICK V \in zoldest(scopeIndex[ScopeOf(KeyOf(r))], req[r].n) :
        req' = [req EXCEPT ![r] = IF V = {} THEN ended(x) ELSE [x EXCEPT !.pc = "del", !.drop = V, !.n = 0]]
  BY <1>1 DEF trimVictims
<1>3. SoundRequest(x) /\ x.pc = "zrange" BY <1>1 DEF FlowInv, trimVictims
<1>4. DOMAIN x = Fields /\ x.complete BY <1>3 DEF SoundRequest, Settling, Trimming
<1>5. UNCHANGED <<entry, index, teamIndex, scopeIndex, purge, now, unlisted, slipped>> BY DEF trimVictims, quiet, redis, history
<1>6. PICK y : y = IF V = {} THEN ended(x) ELSE [x EXCEPT !.pc = "del", !.drop = V, !.n = 0] OBVIOUS
<1>7. req' = [req EXCEPT ![r] = y] BY <1>2, <1>6
<1>8. DOMAIN entry' = Ids /\ \A i \in Ids : entry'[i] \in {entry[i], NoEntry} BY <1>5 DEF FlowInv, KeysAreSound
<1>9. CASE V = {}
  <2>1. y = ended(x) BY <1>6, <1>9
  <2>2. /\ SoundRequest(y) /\ Keeps(x, y) /\ y.served = None /\ y.pc = "done" /\ y.listed = x.listed /\ ~ y.failed
        /\ y.expires = x.expires
    BY <2>1, <1>3, PlainEndIsSound
  <2>3. y.pc \notin Writing BY <2>2 DEF Writing
  <2>4. Settles(r, y) BY <2>2, <2>3, <1>1, <1>4, <1>5, <1>7, <1>8, PlainSettle
  <2> QED BY <2>2, <2>4, <1>1, <1>2, <1>3, <1>5, <1>9
<1>10. CASE V # {}
  <2>1. y = [x EXCEPT !.pc = "del", !.drop = V, !.n = 0] BY <1>6, <1>10
  <2>2. /\ DOMAIN y = Fields /\ y.pc = "del" /\ y.drop = V /\ y.team = x.team /\ y.prompt = x.prompt
        /\ y.complete = x.complete /\ y.listed = x.listed /\ y.failed = x.failed /\ y.expires = x.expires
        /\ y.ttl = x.ttl /\ y.mixed = x.mixed /\ y.embedded = x.embedded /\ y.served = x.served
    BY <2>1, <1>4 DEF Fields
  <2>3. y.pc \in Trimming /\ x.pc \in Settling BY <2>2, <1>3 DEF Trimming, Settling
  <2>4. SoundRequest(y) /\ Keeps(x, y) /\ y.served = None /\ y.pc \notin Writing BY <2>2, <2>3, <1>3, TrimMoves
  <2>5. Settles(r, y) BY <2>2, <2>4, <1>1, <1>4, <1>5, <1>7, <1>8, PlainSettle
  <2> QED BY <2>2, <2>5, <1>1, <1>2, <1>3, <1>5, <1>10
<1> QED BY <1>9, <1>10

\* DEL.
LEMMA DeleteSettles ==
  ASSUME FlowInv, NEW r \in Requests, trimDelete(r)
  PROVE  \E y : /\ Settles(r, y) /\ scopeIndex' = scopeIndex /\ req[r].pc = "del"
                /\ y.pc = "zrem" /\ y.drop = req[r].drop
                /\ entry' = removed(req[r].drop) /\ slipped' = slipped \ req[r].drop
<1>1. PICK x : x = req[r] OBVIOUS
<1>3. SoundRequest(x) /\ x.pc = "del" BY <1>1 DEF FlowInv, trimDelete
<1>4. DOMAIN x = Fields /\ x.complete BY <1>3 DEF SoundRequest, Settling, Trimming
<1>5. UNCHANGED <<index, teamIndex, scopeIndex, purge, now, unlisted>> BY DEF trimDelete
<1>6. entry' = removed(req[r].drop) /\ slipped' = slipped \ req[r].drop BY DEF trimDelete
<1>7. PICK y : y = [x EXCEPT !.pc = "zrem"] OBVIOUS
<1>8. req' = [req EXCEPT ![r] = y] BY <1>1, <1>7 DEF trimDelete, step, FlowInv
<1>9. DOMAIN entry' = Ids /\ \A i \in Ids : entry'[i] \in {entry[i], NoEntry} BY <1>6 DEF removed
<1>10. /\ DOMAIN y = Fields /\ y.pc = "zrem" /\ y.drop = x.drop /\ y.team = x.team /\ y.prompt = x.prompt
       /\ y.complete = x.complete /\ y.listed = x.listed /\ y.failed = x.failed /\ y.expires = x.expires
       /\ y.ttl = x.ttl /\ y.mixed = x.mixed /\ y.embedded = x.embedded /\ y.served = x.served
  BY <1>7, <1>4 DEF Fields
<1>11. y.pc \in Trimming /\ x.pc \in Settling BY <1>10, <1>3 DEF Trimming, Settling
<1>12. SoundRequest(y) /\ Keeps(x, y) /\ y.served = None /\ y.pc \notin Writing BY <1>10, <1>11, <1>3, TrimMoves
<1>13. Settles(r, y) BY <1>10, <1>12, <1>1, <1>4, <1>5, <1>8, <1>9, PlainSettle
<1> QED BY <1>10, <1>13, <1>1, <1>3, <1>5, <1>6

\* ZREM.
LEMMA ForgetSettles ==
  ASSUME FlowInv, NEW r \in Requests, trimForget(r)
  PROVE  \E y : /\ Settles(r, y) /\ entry' = entry /\ req[r].pc = "zrem" /\ y.pc = "done" /\ ~ y.failed
                /\ scopeIndex' = [scopeIndex EXCEPT ![ScopeOf(KeyOf(r))] = zrem(@, req[r].drop)]
                /\ slipped' = slipped \cup {i \in req[r].drop : entry[i].val # None}
<1>1. PICK x : x = req[r] OBVIOUS
<1>2. /\ scopeIndex' = [scopeIndex EXCEPT ![ScopeOf(KeyOf(r))] = zrem(@, req[r].drop)]
      /\ slipped' = slipped \cup {i \in req[r].drop : entry[i].val # None}
  BY DEF trimForget
<1>3. SoundRequest(x) /\ x.pc = "zrem" BY <1>1 DEF FlowInv, trimForget
<1>4. x.complete BY <1>3 DEF SoundRequest, Settling, Trimming
<1>5. UNCHANGED <<entry, index, teamIndex, purge, now, unlisted>> BY DEF trimForget
<1>6. PICK y : y = ended(x) OBVIOUS
<1>7. req' = [req EXCEPT ![r] = y] BY <1>1, <1>6 DEF trimForget
<1>8. DOMAIN entry' = Ids /\ \A i \in Ids : entry'[i] \in {entry[i], NoEntry} BY <1>5 DEF FlowInv, KeysAreSound
<1>9. /\ SoundRequest(y) /\ Keeps(x, y) /\ y.served = None /\ y.pc = "done" /\ y.listed = x.listed /\ ~ y.failed
      /\ y.expires = x.expires
  BY <1>6, <1>3, PlainEndIsSound
<1>10. y.pc \notin Writing BY <1>9 DEF Writing
<1>11. Settles(r, y) BY <1>9, <1>10, <1>1, <1>4, <1>5, <1>7, <1>8, PlainSettle
<1> QED BY <1>2, <1>9, <1>11, <1>1, <1>3, <1>5

\* A command that fails.
LEMMA DegradeSettles ==
  ASSUME FlowInv, NEW r \in Requests, degrade(r)
  PROVE  \E y : /\ Settles(r, y) /\ UNCHANGED <<entry, slipped, scopeIndex>> /\ y.pc = "done" /\ y.failed
<1>1. PICK x : x = req[r] OBVIOUS
<1>2. SoundRequest(x) /\ x.pc \in {"expire", "zcard", "zrange", "del", "zrem"} BY <1>1 DEF FlowInv, degrade
<1>3. x.complete BY <1>2 DEF SoundRequest, Writing, Settling, Trimming
<1>4. UNCHANGED <<entry, index, teamIndex, scopeIndex, purge, now, unlisted, slipped>> BY DEF degrade, quiet, redis, history
<1>5. PICK y : y = [ended(x) EXCEPT !.failed = TRUE] OBVIOUS
<1>6. req' = [req EXCEPT ![r] = y] BY <1>1, <1>5 DEF degrade
<1>7. DOMAIN entry' = Ids /\ \A i \in Ids : entry'[i] \in {entry[i], NoEntry} BY <1>4 DEF FlowInv, KeysAreSound
<1>8. y = cutShort(x, x.listed)
  <2>1. PICK z : z = ended(x) OBVIOUS
  <2>2. z.listed = x.listed BY <2>1 DEF ended, Over, Fresh
  <2>3. z = [f \in DOMAIN z |-> z[f]]
    <3>1. PICK o : o = [Over EXCEPT !.team = x.team, !.prompt = x.prompt, !.embedded = x.embedded,
                                    !.complete = x.complete, !.expires = x.expires, !.listed = x.listed]
      OBVIOUS
    <3>2. z = [o EXCEPT !.mixed = x.mixed] BY <2>1, <3>1 DEF ended
    <3> QED BY <3>2
  <2>4. z = [z EXCEPT !.listed = x.listed] BY <2>2, <2>3
  <2> QED BY <2>1, <2>4, <1>5 DEF cutShort
<1>9. /\ SoundRequest(y) /\ Keeps(x, y) /\ y.served = None /\ y.pc = "done" /\ y.listed = x.listed /\ y.failed
      /\ y.expires = x.expires
  BY <1>8, <1>2, EndedIsSound
<1>10. y.pc \notin Writing BY <1>9 DEF Writing
<1>11. Settles(r, y) BY <1>9, <1>10, <1>1, <1>3, <1>4, <1>6, <1>7, PlainSettle
<1> QED BY <1>9, <1>11, <1>1, <1>4

-----------------------------------------------------------------------------
(* The flow of requests.                                                   *)

LEMMA BeginKeepsFlow ==
  ASSUME FlowInv, NEW r \in Requests, NEW y, Begins(r, y)
  PROVE  FlowInv'
<1>1. PICK k : k = Key(y) OBVIOUS
<1>2. /\ req' = [req EXCEPT ![r] = y] /\ SoundRequest(y) /\ ~ req[r].complete /\ y.complete /\ y.served = None
      /\ entry' = [entry EXCEPT ![k].val = r] /\ now' = now /\ index' = index
  BY <1>1 DEF Begins
<1>3. Keeps(req[r], y) BY <1>2 DEF Keeps
<1>4. k \in Ids BY <1>1, <1>2 DEF SoundRequest, Asked
<1>5. DOMAIN entry = Ids /\ \A i \in Ids : SoundEntry(i, entry[i]) BY DEF FlowInv, KeysAreSound
<1>6. DOMAIN entry' = Ids /\ entry'[k] = [entry[k] EXCEPT !.val = r] /\ \A i \in Ids \ {k} : entry'[i] = entry[i]
  BY <1>2, <1>4, <1>5
<1>7. ASSUME NEW i \in Ids
      PROVE  /\ DOMAIN entry'[i] = {"val", "expires"} /\ entry'[i].expires \in Nat /\ entry'[i].expires <= Never
             /\ Answer(entry'[i]) => \/ entry'[i].val = entry[i].val
                                     \/ entry'[i].val = r /\ y.complete /\ Key(y) = i
  BY <1>1, <1>2, <1>5, <1>6 DEF SoundEntry
<1>8. /\ DOMAIN index' = Fingerprints
      /\ \A f \in Fingerprints : /\ DOMAIN index'[f] = {"members", "expires"}
                                 /\ DOMAIN index'[f].members \subseteq InBucket(f) /\ IsFiniteSet(DOMAIN index'[f].members)
  BY <1>2 DEF FlowInv, KeysAreSound
<1> QED BY <1>2, <1>3, <1>6, <1>7, <1>8, RequestMoves

LEMMA ExpireKeepsFlow ==
  ASSUME FlowInv, NEW r \in Requests, NEW y, Expires(r, y)
  PROVE  FlowInv'
<1>1. PICK k : k = Key(y) OBVIOUS
<1>2. /\ req' = [req EXCEPT ![r] = y] /\ SoundRequest(y) /\ Keeps(req[r], y) /\ y.served = None
      /\ entry' = [entry EXCEPT ![k] = lifetime(entry[k], y.expires)] /\ now' = now /\ index' = index
  BY <1>1 DEF Expires
<1>3. k \in Ids /\ y.expires \in Nat /\ y.expires <= Never
  BY <1>1, <1>2 DEF SoundRequest, Asked, Expires, Writing
<1>4. DOMAIN entry = Ids /\ \A i \in Ids : SoundEntry(i, entry[i]) BY DEF FlowInv, KeysAreSound
<1>5. DOMAIN entry' = Ids /\ entry'[k] = lifetime(entry[k], y.expires) /\ \A i \in Ids \ {k} : entry'[i] = entry[i]
  BY <1>2, <1>3, <1>4
<1>6. ASSUME NEW i \in Ids
      PROVE  /\ DOMAIN entry'[i] = {"val", "expires"} /\ entry'[i].expires \in Nat /\ entry'[i].expires <= Never
             /\ Answer(entry'[i]) => entry'[i].val = entry[i].val
  BY <1>3, <1>4, <1>5 DEF SoundEntry, lifetime
<1>7. /\ DOMAIN index' = Fingerprints
      /\ \A f \in Fingerprints : /\ DOMAIN index'[f] = {"members", "expires"}
                                 /\ DOMAIN index'[f].members \subseteq InBucket(f) /\ IsFiniteSet(DOMAIN index'[f].members)
  BY <1>2 DEF FlowInv, KeysAreSound
<1> QED BY <1>2, <1>5, <1>6, <1>7, RequestMoves

LEMMA NoEntryIsSound ==
  DOMAIN NoEntry = {"val", "expires"} /\ NoEntry.expires \in Nat /\ NoEntry.expires <= Never /\ ~ Answer(NoEntry)
  /\ NoEntry.val = None
BY Constants DEF NoEntry, Answer

LEMMA SettleKeepsFlow ==
  ASSUME FlowInv, NEW r \in Requests, NEW y, Settles(r, y)
  PROVE  FlowInv'
<1>1. /\ req' = [req EXCEPT ![r] = y] /\ SoundRequest(y) /\ Keeps(req[r], y) /\ y.served = None /\ y.complete
      /\ DOMAIN entry' = Ids /\ now' = now /\ DOMAIN index' = Fingerprints
  BY DEF Settles, Keeps
<1>2. ASSUME NEW i \in Ids
      PROVE  /\ DOMAIN entry'[i] = {"val", "expires"} /\ entry'[i].expires \in Nat /\ entry'[i].expires <= Never
             /\ Answer(entry'[i]) => entry'[i].val = entry[i].val
  <2>1. SoundEntry(i, entry[i]) BY DEF FlowInv, KeysAreSound
  <2>2. CASE entry'[i] = entry[i] BY <2>1, <2>2 DEF SoundEntry
  <2>3. CASE entry'[i] = NoEntry BY <2>3, NoEntryIsSound
  <2> QED BY <2>2, <2>3 DEF Settles
<1>3. Key(y) \in Ids BY <1>1 DEF SoundRequest, Asked
<1>4. ASSUME NEW f \in Fingerprints
      PROVE  /\ DOMAIN index'[f] = {"members", "expires"}
             /\ DOMAIN index'[f].members \subseteq InBucket(f) /\ IsFiniteSet(DOMAIN index'[f].members)
  <2>1. PICK M, N : M = DOMAIN index[f].members /\ N = DOMAIN index'[f].members OBVIOUS
  <2>2. M \subseteq InBucket(f) /\ IsFiniteSet(M) BY <2>1 DEF FlowInv, KeysAreSound
  <2>3. DOMAIN index'[f] = {"members", "expires"} /\ N \subseteq M \cup (IF f = Key(y)[1] THEN {Key(y)} ELSE {})
    BY <2>1 DEF Settles
  <2>4. N \subseteq M \cup {Key(y)} /\ N \subseteq InBucket(f) BY <2>2, <2>3, <1>3 DEF InBucket
  <2>5. IsFiniteSet(M \cup {Key(y)}) BY <2>2, FS_AddElement
  <2> QED BY <2>1, <2>3, <2>4, <2>5, FS_Subset
<1> QED BY <1>1, <1>2, <1>4, RequestMoves

\* What a purge or the passing of time does to entries and buckets: some are gone.
Sweeps ==
  /\ UNCHANGED req /\ now' \in 0 .. MaxTime
  /\ DOMAIN entry' = Ids /\ \A i \in Ids : entry'[i] \in {entry[i], NoEntry}
  /\ DOMAIN index' = Fingerprints /\ \A f \in Fingerprints : index'[f] \in {index[f], NoIndex}

LEMMA CalmSweeps ==
  ASSUME FlowInv, UNCHANGED <<req, now, entry, index>>
  PROVE  Sweeps
BY DEF FlowInv, KeysAreSound, Sweeps

LEMMA DeletionSweeps ==
  ASSUME FlowInv, deleteEntries \/ deleteKeys \/ Tick
  PROVE  Sweeps
<1>1. CASE deleteEntries BY <1>1 DEF deleteEntries, Sweeps, FlowInv, KeysAreSound, removed
<1>2. CASE deleteKeys BY <1>2 DEF deleteKeys, Sweeps, FlowInv, KeysAreSound
<1>3. CASE Tick
  <2>1. now' \in 0 .. MaxTime BY <1>3, Constants DEF Tick, FlowInv
  <2>2. DOMAIN entry' = Ids /\ \A i \in Ids : entry'[i] \in {entry[i], NoEntry} BY <1>3 DEF Tick, removed
  <2>3. DOMAIN index' = Fingerprints /\ \A f \in Fingerprints : index'[f] \in {index[f], NoIndex} BY <1>3 DEF Tick
  <2>4. UNCHANGED req BY <1>3 DEF Tick
  <2> QED BY <2>1, <2>2, <2>3, <2>4 DEF Sweeps
<1> QED BY <1>1, <1>2, <1>3

LEMMA SweepKeepsFlow ==
  ASSUME FlowInv, Sweeps
  PROVE  FlowInv'
<1>1. req' = req /\ now' \in 0 .. MaxTime /\ DOMAIN entry' = Ids /\ DOMAIN index' = Fingerprints BY DEF Sweeps
<1>2. ASSUME NEW i \in Ids PROVE SoundEntry(i, entry[i])'
  <2>1. SoundEntry(i, entry[i]) BY DEF FlowInv, KeysAreSound
  <2>2. CASE entry'[i] = entry[i] BY <1>1, <2>1, <2>2 DEF SoundEntry, KeyOf
  <2>3. CASE entry'[i] = NoEntry BY <2>3, NoEntryIsSound DEF SoundEntry
  <2> QED BY <2>2, <2>3 DEF Sweeps
<1>3. ASSUME NEW f \in Fingerprints
      PROVE  /\ DOMAIN index'[f] = {"members", "expires"}
             /\ DOMAIN index'[f].members \subseteq InBucket(f) /\ IsFiniteSet(DOMAIN index'[f].members)
  <2>1. /\ DOMAIN index[f] = {"members", "expires"}
        /\ DOMAIN index[f].members \subseteq InBucket(f) /\ IsFiniteSet(DOMAIN index[f].members)
    BY DEF FlowInv, KeysAreSound
  <2>2. CASE index'[f] = index[f] BY <2>1, <2>2
  <2>3. CASE index'[f] = NoIndex BY <2>3, FS_EmptySet DEF NoIndex, Empty
  <2> QED BY <2>2, <2>3 DEF Sweeps
<1>4. KeysAreSound' BY <1>1, <1>2, <1>3 DEF KeysAreSound
<1> QED BY <1>1, <1>4 DEF FlowInv, KeyOf, Bucket

\* A step of a store is one of these.
LEMMA StoreSteps ==
  ASSUME FlowInv, NEW r \in Requests, Store(r)
  PROVE  \E y : Begins(r, y) \/ Browses(r, y) \/ Expires(r, y) \/ Settles(r, y)
<1>1. Outcomes \subseteq BOOLEAN BY DEF Outcomes
<1>2. CASE Is(r, "miss") /\ \E resp \in Responses, h \in Headers, ok \in Outcomes : storeInCache(r, resp, h, ok)
  BY <1>1, <1>2, StoreBegins
<1>3. CASE putExpire(r) BY <1>3, StoreExpires
<1>4. CASE Is(r, "indexes") /\ \E n \in 0 .. 4 : putIndexes(r, n) BY <1>4, IndexesSettle
<1>5. CASE trimCount(r) BY <1>5, CountSettles
<1>6. CASE trimVictims(r) BY <1>6, VictimsSettle
<1>7. CASE trimDelete(r) BY <1>7, DeleteSettles
<1>8. CASE trimForget(r) BY <1>8, ForgetSettles
<1>9. CASE degrade(r) BY <1>9, DegradeSettles
<1> QED BY <1>2, <1>3, <1>4, <1>5, <1>6, <1>7, <1>8, <1>9 DEF Store

\* Every step is a step of one request, or one of the sweeps.
LEMMA EveryStep ==
  ASSUME FlowInv, [Next]_vars
  PROVE  Sweeps \/ \E r \in Requests : \E y : Begins(r, y) \/ Browses(r, y) \/ Expires(r, y) \/ Settles(r, y)
<1>1. CASE \E r \in Requests : Lookup(r) \/ Store(r) BY <1>1, LookupBrowses, StoreSteps
<1>2. CASE \E t \in PurgedTeams : PurgeTeam(t) BY <1>2, CalmSweeps DEF PurgeTeam, calm, redis
<1>3. CASE \E i \in PurgedIds : PurgePrefix(i) BY <1>3, CalmSweeps DEF PurgePrefix, calm, redis
<1>4. CASE PurgeAll BY <1>4, CalmSweeps DEF PurgeAll, calm, redis
<1>5. CASE scanKeys BY <1>5, CalmSweeps DEF scanKeys, calm, redis
<1>6. CASE purgeFails BY <1>6, CalmSweeps DEF purgeFails, calm, redis
<1>7. CASE deleteEntries \/ deleteKeys \/ Tick BY <1>7, DeletionSweeps
<1>8. CASE UNCHANGED vars BY <1>8, CalmSweeps DEF vars, redis
<1> QED BY <1>1, <1>2, <1>3, <1>4, <1>5, <1>6, <1>7, <1>8 DEF Next

LEMMA FlowIsKept ==
  ASSUME FlowInv, [Next]_vars
  PROVE  FlowInv'
BY EveryStep, SweepKeepsFlow, BeginKeepsFlow, BrowseKeepsFlow, ExpireKeepsFlow, SettleKeepsFlow

\* The state at the start.
LEMMA Start ==
  ASSUME Init
  PROVE  LET w == EntryID(WarmAsk[1], WarmAsk[2])
         IN  /\ w \in Ids /\ WarmAsk[1] \in Teams /\ Warm \in Requests
             /\ SoundRequest(req[Warm]) /\ req[Warm].complete /\ req[Warm].pc = "done" /\ Key(req[Warm]) = w
             /\ req[Warm].served = None /\ req[Warm].expires = DefaultTTL /\ req[Warm].team = WarmAsk[1]
             /\ DOMAIN req = Requests /\ \A r \in Requests \ {Warm} : req[r] = Fresh
             /\ DOMAIN entry = Ids /\ entry[w] = [val |-> Warm, expires |-> DefaultTTL]
             /\ \A i \in Ids \ {w} : entry[i] = NoEntry
<1>1. PICK w : w = EntryID(WarmAsk[1], WarmAsk[2]) OBVIOUS
<1>2. w \in Ids /\ WarmAsk[1] \in Teams /\ WarmAsk[2] \in DOMAIN Prompts BY <1>1, AskedIds
<1>3. Warm \in Requests BY SemanticCacheAssumption
<1>4. PICK x : x = [Fresh EXCEPT !.pc = "done", !.team = WarmAsk[1], !.prompt = WarmAsk[2], !.embedded = TRUE,
                                 !.complete = TRUE, !.expires = DefaultTTL, !.listed = TRUE]
  OBVIOUS
<1>5. DOMAIN req = Requests /\ req[Warm] = x /\ \A r \in Requests \ {Warm} : req[r] = Fresh
  BY <1>3, <1>4 DEF Init
<1>6. /\ DOMAIN x = Fields /\ x.complete /\ x.pc = "done" /\ x.team = WarmAsk[1] /\ x.prompt = WarmAsk[2]
      /\ x.served = None /\ x.expires = DefaultTTL
  BY <1>4 DEF Fresh, Fields
<1>7. Asked(x) /\ Key(x) = w BY <1>1, <1>2, <1>6 DEF Asked, Key
<1>8. SoundRequest(x)
  BY <1>6, <1>7, Constants DEF SoundRequest, Steps, Seeking, Writing, Settling, Trimming
<1>9. DOMAIN entry = Ids /\ entry[w] = [val |-> Warm, expires |-> DefaultTTL] /\ \A i \in Ids \ {w} : entry[i] = NoEntry
  BY <1>1, <1>2 DEF Init
<1> QED BY <1>1, <1>2, <1>3, <1>5, <1>6, <1>7, <1>8, <1>9

LEMMA StartFlows ==
  ASSUME Init
  PROVE  FlowInv
<1>1. PICK w : w = EntryID(WarmAsk[1], WarmAsk[2]) OBVIOUS
<1>2. /\ w \in Ids /\ WarmAsk[1] \in Teams /\ Warm \in Requests
      /\ SoundRequest(req[Warm]) /\ req[Warm].complete /\ Key(req[Warm]) = w /\ req[Warm].served = None
      /\ DOMAIN req = Requests /\ \A r \in Requests \ {Warm} : req[r] = Fresh
      /\ DOMAIN entry = Ids /\ entry[w] = [val |-> Warm, expires |-> DefaultTTL]
      /\ \A i \in Ids \ {w} : entry[i] = NoEntry
  BY <1>1, Start
<1>3. \A r \in Requests : SoundRequest(req[r]) /\ req[r].served = None BY <1>2, FreshIsSound
<1>4. ASSUME NEW i \in Ids PROVE SoundEntry(i, entry[i])
  <2>1. CASE i = w BY <1>2, <2>1, Constants DEF SoundEntry, KeyOf, Key
  <2>2. CASE i # w BY <1>2, <2>2, NoEntryIsSound DEF SoundEntry
  <2> QED BY <2>1, <2>2
<1>5. PICK m : m = [members |-> zadd(Empty, w, 1), expires |-> DefaultTTL] OBVIOUS
<1>6. index = [f \in Fingerprints |-> IF f = w[1] THEN m ELSE NoIndex] BY <1>1, <1>5 DEF Init
<1>7. DOMAIN m = {"members", "expires"} /\ DOMAIN m.members = {w} /\ IsFiniteSet({w})
  BY <1>5, FS_Singleton DEF zadd, Empty
<1>8. DOMAIN NoIndex = {"members", "expires"} /\ DOMAIN NoIndex.members = {} /\ IsFiniteSet({})
  BY FS_EmptySet DEF NoIndex, Empty
<1>9. ASSUME NEW f \in Fingerprints
      PROVE  /\ DOMAIN index[f] = {"members", "expires"}
             /\ DOMAIN index[f].members \subseteq InBucket(f) /\ IsFiniteSet(DOMAIN index[f].members)
  <2>1. CASE f = w[1] BY <1>2, <1>6, <1>7, <2>1 DEF InBucket
  <2>2. CASE f # w[1] BY <1>6, <1>8, <2>2
  <2> QED BY <2>1, <2>2
<1>10. KeysAreSound BY <1>2, <1>4, <1>6, <1>9 DEF KeysAreSound
<1>11. now \in 0 .. MaxTime BY Constants DEF Init
<1> QED BY <1>2, <1>3, <1>10, <1>11 DEF FlowInv

-----------------------------------------------------------------------------
(* Serving only what is shared.                                            *)

\* Two teams with one scope are one team, or share their organisation.
LEMMA ScopeIsShared ==
  ASSUME NEW t \in Teams, NEW u \in Teams, ScopeID(t) = ScopeID(u)
  PROVE  t = u \/ ({t, u} \cap Isolated = {} /\ Org[t] = Org[u] /\ Org[u] # NoOrg)
BY DEF ScopeID

LEMMA FlowIsShared ==
  ASSUME FlowInv
  PROVE  ServedIsShared
<1> SUFFICES ASSUME NEW r \in Requests, req[r].served # None
             PROVE  LET a == req[r].served
                    IN  /\ req[a].complete
                        /\ Prompts[req[a].prompt].shape = Prompts[req[r].prompt].shape
                        /\ \/ Prompts[req[a].prompt].query = Prompts[req[r].prompt].query
                           \/ Sim[Prompts[req[r].prompt].query][Prompts[req[a].prompt].query] >= Threshold
                        /\ \/ req[a].team = req[r].team
                           \/ /\ {req[a].team, req[r].team} \cap Isolated = {}
                              /\ Org[req[a].team] = Org[req[r].team] /\ Org[req[r].team] # NoOrg
  BY DEF ServedIsShared
<1>1. PICK a : a = req[r].served OBVIOUS
<1>2. /\ a \in Requests /\ req[a].complete /\ Key(req[a])[1] = Key(req[r])[1] /\ Fits(Key(req[r])[2], Key(req[a]))
  BY <1>1 DEF FlowInv, KeyOf, Key, Bucket
<1>3. SoundRequest(req[a]) /\ SoundRequest(req[r]) BY <1>2 DEF FlowInv
<1>4. Asked(req[a]) /\ Asked(req[r]) BY <1>2, <1>3 DEF SoundRequest, Seeking
<1>5. PICK t, p, u, q : t = req[a].team /\ p = req[a].prompt /\ u = req[r].team /\ q = req[r].prompt OBVIOUS
<1>6. t \in Teams /\ u \in Teams /\ p \in DOMAIN Prompts /\ q \in DOMAIN Prompts /\ EntryID(t, p) \in Ids /\ EntryID(u, q) \in Ids
  BY <1>4, <1>5 DEF Asked, Key
<1>7. Fingerprint(t, p) = Fingerprint(u, q) BY <1>2, <1>5, <1>6, PartsOfKey DEF Key
<1>8. ScopeID(t) = ScopeID(u) /\ Prompts[p].shape = Prompts[q].shape BY <1>7 DEF Fingerprint
<1>9. Prompts[p].query = Prompts[q].query \/ Sim[Prompts[q].query][Prompts[p].query] >= Threshold
  BY <1>2, <1>5, <1>6, PartsOfKey DEF Fits, Key
<1> QED BY <1>1, <1>2, <1>5, <1>6, <1>8, <1>9, ScopeIsShared

\* A request is served only a complete answer of the same shape to a query at least as
\* similar as the threshold, of its own team or of one that shares its organisation and
\* is not isolated, whatever stores, trims, purges, expiries and failures do meanwhile.
THEOREM SharingHolds == Spec => []ServedIsShared
<1>1. Init => FlowInv BY StartFlows
<1>2. FlowInv /\ [Next]_vars => FlowInv' BY FlowIsKept
<1>3. FlowInv => ServedIsShared BY FlowIsShared
<1> QED BY <1>1, <1>2, <1>3, PTL DEF Spec

-----------------------------------------------------------------------------
(* Answers expire.                                                         *)

\* The answer e of key i ends with its own store, or with that of another.
InTime(i, e, R) ==
  \/ e.expires <= R[e.val].expires
  \/ R[e.val].mixed /\ \E x \in Requests \ {e.val} : R[x].complete /\ Key(R[x]) = i /\ e.expires <= R[x].expires

ExpiryInv == OvertakenIsMixed /\ AnswersExpire

LEMMA ExpiryParts ==
  /\ OvertakenIsMixed <=> \A x \in Requests : req[x].pc = "expire" /\ entry[Key(req[x])].val \in Requests \ {x}
                            => req[entry[Key(req[x])].val].mixed
  /\ AnswersExpire <=> \A i \in Ids : entry[i].val \in Requests => InTime(i, entry[i], req)
BY DEF OvertakenIsMixed, AnswersExpire, InTime, Answer, KeyOf, Key

\* A step of one request that leaves the ends of stored answers alone, and the answers
\* that there are.
LEMMA EndsAreKept ==
  ASSUME FlowInv, ExpiryInv, NEW r \in Requests, NEW y, req' = [req EXCEPT ![r] = y], Keeps(req[r], y),
         req[r].complete => y.expires = req[r].expires, y.pc # "expire",
         \A i \in Ids : entry'[i].val \in Requests => entry'[i] = entry[i]
  PROVE  ExpiryInv'
<1>1. DOMAIN req = Requests /\ req'[r] = y /\ \A x \in Requests \ {r} : req'[x] = req[x] BY DEF FlowInv
<1>2. \A x \in Requests : req[x].complete =>
        /\ req'[x].complete /\ Key(req'[x]) = Key(req[x]) /\ req'[x].mixed = req[x].mixed /\ req'[x].expires = req[x].expires
  BY <1>1 DEF Keeps, Key
<1>3. \A i \in Ids : entry[i].val \in Requests => req[entry[i].val].complete
  BY DEF FlowInv, KeysAreSound, SoundEntry, Answer
<1>4. ASSUME NEW x \in Requests, req'[x].pc = "expire", entry'[Key(req'[x])].val \in Requests \ {x}
      PROVE  req'[entry'[Key(req'[x])].val].mixed
  <2>1. x # r /\ req'[x] = req[x] BY <1>1, <1>4
  <2>2. PICK k : k = Key(req[x]) OBVIOUS
  <2>3. k \in Ids BY <2>1, <2>2, <1>4 DEF FlowInv, SoundRequest, Writing, Asked
  <2>4. entry'[k] = entry[k] BY <2>1, <2>2, <2>3, <1>4
  <2>5. PICK v : v = entry[k].val OBVIOUS
  <2>6. v \in Requests \ {x} /\ req[v].mixed /\ req[v].complete BY <2>1, <2>2, <2>3, <2>4, <2>5, <1>3, <1>4, ExpiryParts DEF ExpiryInv
  <2> QED BY <2>1, <2>2, <2>4, <2>5, <2>6, <1>2
<1>5. ASSUME NEW i \in Ids, entry'[i].val \in Requests
      PROVE  InTime(i, entry'[i], req')
  <2>1. PICK e : e = entry[i] OBVIOUS
  <2>2. entry'[i] = e BY <2>1, <1>5
  <2>3. PICK v : v = e.val OBVIOUS
  <2>4. v \in Requests /\ InTime(i, e, req) /\ req[v].complete BY <2>1, <2>2, <2>3, <1>3, <1>5, ExpiryParts DEF ExpiryInv
  <2>5. req'[v].mixed = req[v].mixed /\ req'[v].expires = req[v].expires BY <2>4, <1>2
  <2>6. InTime(i, e, req') BY <2>3, <2>4, <2>5, <1>2 DEF InTime
  <2> QED BY <2>2, <2>6
<1> QED BY <1>4, <1>5, ExpiryParts DEF ExpiryInv, OvertakenIsMixed, AnswersExpire, InTime, Answer, KeyOf, Key

LEMMA BrowseKeepsEnds ==
  ASSUME FlowInv, ExpiryInv, NEW r \in Requests, NEW y, Browses(r, y)
  PROVE  ExpiryInv'
<1>1. /\ req' = [req EXCEPT ![r] = y] /\ SoundRequest(y) /\ ~ req[r].complete /\ ~ y.complete BY DEF Browses
<1>2. Keeps(req[r], y) /\ y.pc # "expire" BY <1>1 DEF Keeps, SoundRequest, Writing
<1>3. ASSUME NEW i \in Ids, entry'[i].val \in Requests PROVE entry'[i] = entry[i]
  <2>1. CASE entry'[i] = [val |-> "hits", expires |-> Never] BY <1>3, <2>1, Constants
  <2> QED BY <2>1 DEF Browses
<1> QED BY <1>1, <1>2, <1>3, EndsAreKept

LEMMA SettleKeepsEnds ==
  ASSUME FlowInv, ExpiryInv, NEW r \in Requests, NEW y, Settles(r, y)
  PROVE  ExpiryInv'
<1>1. /\ req' = [req EXCEPT ![r] = y] /\ Keeps(req[r], y) /\ y.expires = req[r].expires /\ y.pc # "expire"
  BY DEF Settles, Writing
<1>2. ASSUME NEW i \in Ids, entry'[i].val \in Requests PROVE entry'[i] = entry[i]
  <2>1. CASE entry'[i] = NoEntry BY <1>2, <2>1, Constants DEF NoEntry
  <2> QED BY <2>1 DEF Settles
<1> QED BY <1>1, <1>2, EndsAreKept

LEMMA SweepKeepsEnds ==
  ASSUME FlowInv, ExpiryInv, Sweeps
  PROVE  ExpiryInv'
<1>1. req' = req BY DEF Sweeps
<1>2. ASSUME NEW i \in Ids, entry'[i].val \in Requests PROVE entry'[i] = entry[i]
  <2>1. CASE entry'[i] = NoEntry BY <1>2, <2>1, Constants DEF NoEntry
  <2> QED BY <2>1 DEF Sweeps
<1>3. \A x \in Requests : req[x].pc = "expire" => Key(req[x]) \in Ids
  BY DEF FlowInv, SoundRequest, Writing, Asked
<1> QED BY <1>1, <1>2, <1>3 DEF ExpiryInv, OvertakenIsMixed, AnswersExpire, Answer, KeyOf, Key

LEMMA BeginKeepsEnds ==
  ASSUME FlowInv, ExpiryInv, NEW r \in Requests, NEW y, Begins(r, y)
  PROVE  ExpiryInv'
<1>1. PICK k : k = Key(y) OBVIOUS
<1>2. /\ req' = [req EXCEPT ![r] = y] /\ SoundRequest(y) /\ ~ req[r].complete /\ y.complete /\ y.pc = "expire"
      /\ entry' = [entry EXCEPT ![k].val = r] /\ Key(req[r]) = k
      /\ y.mixed = (\E x \in Requests : req[x].pc = "expire" /\ Key(req[x]) = k)
  BY <1>1 DEF Begins, KeyOf, Key
<1>3. k \in Ids /\ y.expires = Never BY <1>1, <1>2 DEF SoundRequest, Asked
<1>4. DOMAIN entry = Ids /\ \A i \in Ids : SoundEntry(i, entry[i]) BY DEF FlowInv, KeysAreSound
<1>5. /\ entry'[k].val = r /\ entry'[k].expires = entry[k].expires /\ entry[k].expires <= Never
      /\ \A i \in Ids \ {k} : entry'[i] = entry[i]
  BY <1>2, <1>3, <1>4 DEF SoundEntry
<1>6. DOMAIN req = Requests /\ req'[r] = y /\ \A x \in Requests \ {r} : req'[x] = req[x] BY <1>2 DEF FlowInv
<1>7. \A i \in Ids : entry[i].val \in Requests => req[entry[i].val].complete BY <1>4 DEF SoundEntry, Answer
<1>8. ASSUME NEW x \in Requests, req'[x].pc = "expire", entry'[Key(req'[x])].val \in Requests \ {x}
      PROVE  req'[entry'[Key(req'[x])].val].mixed
  <2>1. CASE x = r BY <2>1, <1>1, <1>5, <1>6, <1>8
  <2>2. CASE x # r
    <3>1. req'[x] = req[x] BY <2>2, <1>6
    <3>2. PICK j : j = Key(req[x]) OBVIOUS
    <3>3. j \in Ids BY <3>1, <3>2, <1>8 DEF FlowInv, SoundRequest, Writing, Asked
    <3>4. CASE j = k
      <4>1. y.mixed BY <3>1, <3>2, <3>4, <1>2, <1>8
      <4> QED BY <3>1, <3>2, <3>4, <4>1, <1>5, <1>6
    <3>5. CASE j # k
      <4>1. entry'[j] = entry[j] BY <3>3, <3>5, <1>5
      <4>2. PICK v : v = entry[j].val OBVIOUS
      <4>3. v \in Requests \ {x} BY <4>1, <4>2, <3>1, <3>2, <1>8
      <4>4. req[v].mixed /\ req[v].complete BY <4>2, <4>3, <3>1, <3>2, <3>3, <1>7, <1>8, ExpiryParts DEF ExpiryInv
      <4>5. v # r BY <4>4, <1>2
      <4> QED BY <4>1, <4>2, <4>3, <4>4, <4>5, <3>1, <3>2, <1>6
    <3> QED BY <3>4, <3>5
  <2> QED BY <2>1, <2>2
<1>9. ASSUME NEW i \in Ids, entry'[i].val \in Requests
      PROVE  InTime(i, entry'[i], req')
  <2>1. CASE i = k BY <2>1, <1>3, <1>5, <1>6 DEF InTime
  <2>2. CASE i # k
    <3>1. PICK e : e = entry[i] OBVIOUS
    <3>2. entry'[i] = e BY <2>2, <3>1, <1>5
    <3>3. PICK v : v = e.val OBVIOUS
    <3>4. v \in Requests /\ InTime(i, e, req) /\ req[v].complete BY <3>1, <3>2, <3>3, <1>7, <1>9, ExpiryParts DEF ExpiryInv
    <3>5. req'[v] = req[v] /\ \A x \in Requests : req[x].complete => req'[x] = req[x] BY <3>4, <1>2, <1>6
    <3>6. InTime(i, e, req') BY <3>3, <3>4, <3>5 DEF InTime
    <3> QED BY <3>2, <3>6
  <2> QED BY <2>1, <2>2
<1> QED BY <1>8, <1>9 DEF ExpiryInv, OvertakenIsMixed, AnswersExpire, InTime, Answer, KeyOf, Key

LEMMA ExpireKeepsEnds ==
  ASSUME FlowInv, ExpiryInv, NEW r \in Requests, NEW y, Expires(r, y)
  PROVE  ExpiryInv'
<1>1. PICK k, t : k = Key(y) /\ t = y.expires OBVIOUS
<1>2. /\ req' = [req EXCEPT ![r] = y] /\ SoundRequest(y) /\ req[r].complete /\ Keeps(req[r], y) /\ y.pc = "indexes"
      /\ req[r].pc = "expire" /\ entry' = [entry EXCEPT ![k] = lifetime(entry[k], t)] /\ Key(req[r]) = k
  BY <1>1 DEF Expires
<1>3. k \in Ids /\ y.complete /\ t \in Nat BY <1>1, <1>2 DEF SoundRequest, Asked, Keeps, Writing
<1>4. DOMAIN entry = Ids /\ \A i \in Ids : SoundEntry(i, entry[i]) BY DEF FlowInv, KeysAreSound
<1>5. /\ entry'[k] = lifetime(entry[k], t) /\ \A i \in Ids \ {k} : entry'[i] = entry[i] BY <1>2, <1>3, <1>4
<1>6. /\ entry'[k].val = entry[k].val /\ (entry[k].val # None => entry'[k].expires = t)
  BY <1>4, <1>5, <1>3 DEF lifetime, SoundEntry
<1>7. DOMAIN req = Requests /\ req'[r] = y /\ \A x \in Requests \ {r} : req'[x] = req[x] BY <1>2 DEF FlowInv
<1>8. \A i \in Ids : entry[i].val \in Requests => req[entry[i].val].complete /\ Key(req[entry[i].val]) = i
  BY <1>4 DEF SoundEntry, Answer, KeyOf, Key
<1>9. \A x \in Requests : req[x].complete => req'[x].mixed = req[x].mixed BY <1>2, <1>7 DEF Keeps
<1>10. ASSUME NEW x \in Requests, req'[x].pc = "expire", entry'[Key(req'[x])].val \in Requests \ {x}
       PROVE  req'[entry'[Key(req'[x])].val].mixed
  <2>1. x # r /\ req'[x] = req[x] BY <1>2, <1>7, <1>10
  <2>2. PICK j : j = Key(req[x]) OBVIOUS
  <2>3. j \in Ids BY <2>1, <2>2, <1>10 DEF FlowInv, SoundRequest, Writing, Asked
  <2>4. PICK v : v = entry[j].val OBVIOUS
  <2>5. entry'[j].val = v BY <2>3, <2>4, <1>5, <1>6
  <2>6. v \in Requests \ {x} BY <2>1, <2>2, <2>5, <1>10
  <2>7. req[v].mixed /\ req[v].complete BY <2>1, <2>2, <2>3, <2>4, <2>6, <1>8, <1>10, ExpiryParts DEF ExpiryInv
  <2> QED BY <2>1, <2>2, <2>5, <2>6, <2>7, <1>9
<1>11. ASSUME NEW i \in Ids, entry'[i].val \in Requests
       PROVE  InTime(i, entry'[i], req')
  <2>1. CASE i = k
    <3>1. PICK v : v = entry[k].val OBVIOUS
    <3>2. v \in Requests /\ v # None BY <2>1, <3>1, <1>6, <1>11, Constants
    <3>3. entry'[i].val = v /\ entry'[i].expires = t BY <2>1, <3>1, <3>2, <1>6
    <3>4. CASE v = r BY <3>3, <3>4, <1>1, <1>3, <1>7 DEF InTime
    <3>5. CASE v # r
      <4>1. req[v].mixed BY <3>1, <3>2, <3>5, <1>2, ExpiryParts DEF ExpiryInv
      <4>2. req'[v].mixed BY <4>1, <3>5, <3>2, <1>7
      <4>3. req'[r].complete /\ Key(req'[r]) = i /\ t <= req'[r].expires BY <2>1, <1>1, <1>3, <1>7
      <4> QED BY <4>2, <4>3, <3>3, <3>5 DEF InTime
    <3> QED BY <3>4, <3>5
  <2>2. CASE i # k
    <3>1. PICK e : e = entry[i] OBVIOUS
    <3>2. entry'[i] = e BY <2>2, <3>1, <1>5
    <3>3. PICK v : v = e.val OBVIOUS
    <3>4. v \in Requests /\ InTime(i, e, req) /\ Key(req[v]) = i BY <3>1, <3>2, <3>3, <1>8, <1>11, ExpiryParts DEF ExpiryInv
    <3>5. \A x \in Requests : Key(req[x]) = i => req'[x] = req[x] BY <2>2, <1>2, <1>7
    <3>6. InTime(i, e, req') BY <3>3, <3>4, <3>5 DEF InTime
    <3> QED BY <3>2, <3>6
  <2> QED BY <2>1, <2>2
<1> QED BY <1>10, <1>11 DEF ExpiryInv, OvertakenIsMixed, AnswersExpire, InTime, Answer, KeyOf, Key

LEMMA StartEnds ==
  ASSUME Init
  PROVE  ExpiryInv
<1>1. PICK w : w = EntryID(WarmAsk[1], WarmAsk[2]) OBVIOUS
<1>2. /\ w \in Ids /\ Warm \in Requests /\ req[Warm].pc = "done" /\ req[Warm].expires = DefaultTTL
      /\ \A r \in Requests \ {Warm} : req[r] = Fresh
      /\ DOMAIN entry = Ids /\ entry[w] = [val |-> Warm, expires |-> DefaultTTL]
      /\ \A i \in Ids \ {w} : entry[i] = NoEntry
  BY <1>1, Start
<1>3. \A r \in Requests : req[r].pc # "expire" BY <1>2, FreshIsSound
<1>4. \A i \in Ids \ {w} : ~ Answer(entry[i]) BY <1>2, NoEntryIsSound
<1>5. entry[w].expires <= req[entry[w].val].expires BY <1>2, Constants
<1> QED BY <1>3, <1>4, <1>5 DEF ExpiryInv, OvertakenIsMixed, AnswersExpire

\* An answer can be read no longer than its own store, or, where two stores of one
\* entry interleaved, one of the two gave it.
THEOREM ExpiryHolds == Spec => []AnswersExpire
<1>1. Init => FlowInv /\ ExpiryInv BY StartFlows, StartEnds
<1>2. FlowInv /\ ExpiryInv /\ [Next]_vars => (FlowInv /\ ExpiryInv)'
  BY EveryStep, FlowIsKept, BrowseKeepsEnds, SettleKeepsEnds, SweepKeepsEnds, BeginKeepsEnds, ExpireKeepsEnds
<1>3. FlowInv /\ ExpiryInv => AnswersExpire BY DEF ExpiryInv
<1> QED BY <1>1, <1>2, <1>3, PTL DEF Spec

-----------------------------------------------------------------------------
(* Purges.                                                                 *)

PurgeInv == ListsItsOwn /\ PurgeIsAimed /\ faults \in Int

\* Request x's answer is stored under its key.
Holds(e, R, x) == R[x].complete /\ e[Key(R[x])].val = x

LEMMA PurgeParts ==
  /\ Stored = {x \in Requests : Holds(entry, req, x)}
  /\ ListsItsOwn <=>
       /\ DOMAIN teamIndex = Teams /\ \A t \in Teams : DOMAIN teamIndex[t] = {"members", "expires"}
       /\ \A x \in Requests \ unlisted :
            Holds(entry, req, x) /\ req[x].listed => Key(req[x]) \in DOMAIN teamIndex[req[x].team].members
BY DEF Stored, Holds, ListsItsOwn, KeyOf, Key

LEMMA StoredIsAsked ==
  ASSUME FlowInv, NEW x \in Requests, req[x].complete
  PROVE  Key(req[x]) \in Ids /\ req[x].team \in Teams
BY DEF FlowInv, SoundRequest, Asked

LEMMA FaultsAreInt ==
  ASSUME faults \in Int, [Next]_vars
  PROVE  faults' \in Int
<1>1. ASSUME NEW ok, spend(ok) PROVE faults' \in Int BY <1>1 DEF spend
<1>2. ASSUME NEW r \in Requests, Lookup(r) PROVE faults' \in Int
  <2>1. faults' = faults \/ \E ok : spend(ok)
    <3>1. CASE \E a \in Asks, ok, Embed \in Outcomes : consultCache(r, a, ok, Embed) BY <3>1 DEF consultCache
    <3>2. CASE \E ok \in Outcomes : Candidates(r, ok) BY <3>2 DEF Candidates
    <3>3. CASE \E ok \in Outcomes : loadVectors(r, ok) BY <3>3 DEF loadVectors
    <3>4. CASE \E ok \in Outcomes : prune(r, ok) BY <3>4 DEF prune
    <3>5. CASE \E ok \in Outcomes : Fetch(r, ok) BY <3>5 DEF Fetch
    <3>6. CASE \E ok \in Outcomes : RecordHit(r, ok) BY <3>6 DEF RecordHit
    <3> QED BY <1>2, <3>1, <3>2, <3>3, <3>4, <3>5, <3>6 DEF Lookup
  <2> QED BY <1>1, <2>1
<1>3. ASSUME NEW r \in Requests, Store(r) PROVE faults' \in Int
  <2>1. CASE \E resp \in Responses, h \in Headers, ok \in Outcomes : storeInCache(r, resp, h, ok)
    BY <1>1, <2>1 DEF storeInCache
  <2>2. CASE putExpire(r) BY <2>2 DEF putExpire
  <2>3. CASE \E n \in 0 .. 4 : putIndexes(r, n) BY <1>1, <2>3 DEF putIndexes
  <2>4. CASE trimCount(r) \/ trimVictims(r) BY <2>4 DEF trimCount, trimVictims
  <2>5. CASE trimDelete(r) \/ trimForget(r) BY <2>5 DEF trimDelete, trimForget
  <2>6. CASE degrade(r) BY <1>1, <2>6 DEF degrade
  <2> QED BY <1>3, <2>1, <2>2, <2>3, <2>4, <2>5, <2>6 DEF Store
<1>4. CASE \E t \in PurgedTeams : PurgeTeam(t) BY <1>4 DEF PurgeTeam
<1>5. CASE \E i \in PurgedIds : PurgePrefix(i) BY <1>5 DEF PurgePrefix
<1>6. CASE PurgeAll \/ scanKeys BY <1>6 DEF PurgeAll, scanKeys
<1>7. CASE deleteEntries \/ deleteKeys \/ Tick BY <1>7 DEF deleteEntries, deleteKeys, Tick
<1>8. CASE purgeFails BY <1>1, <1>8 DEF purgeFails
<1>9. CASE UNCHANGED vars BY <1>9 DEF vars
<1> QED BY <1>2, <1>3, <1>4, <1>5, <1>6, <1>7, <1>8, <1>9 DEF Next

\* A request that has stored its answer does not store it again.
NoReturn ==
  \A x \in Requests : req[x].complete =>
    req'[x].complete /\ Key(req'[x]) = Key(req[x]) /\ (entry'[Key(req[x])].val = x => entry[Key(req[x])].val = x)

LEMMA NoneReturns ==
  ASSUME FlowInv, [Next]_vars
  PROVE  NoReturn
<1> SUFFICES ASSUME NEW x \in Requests, req[x].complete
             PROVE  /\ req'[x].complete /\ Key(req'[x]) = Key(req[x])
                    /\ entry'[Key(req[x])].val = x => entry[Key(req[x])].val = x
  BY DEF NoReturn
<1>1. PICK k : k = Key(req[x]) OBVIOUS
<1>2. k \in Ids BY <1>1, StoredIsAsked
<1>3. DOMAIN req = Requests /\ DOMAIN entry = Ids /\ SoundEntry(k, entry[k]) BY <1>2 DEF FlowInv, KeysAreSound
<1>4. x # None /\ x # "hits" BY Constants
<1>5. CASE Sweeps
  <2>1. req' = req /\ entry'[k] \in {entry[k], NoEntry} BY <1>2, <1>5 DEF Sweeps
  <2> QED BY <2>1, <1>1, <1>4, NoEntryIsSound
<1>6. ASSUME NEW r \in Requests, NEW y, Browses(r, y)
      PROVE  req'[x] = req[x] /\ (entry'[k].val = x => entry[k].val = x)
  <2>1. req' = [req EXCEPT ![r] = y] /\ x # r BY <1>6 DEF Browses
  <2>2. entry'[k] = entry[k] \/ entry'[k] = [val |-> "hits", expires |-> Never] BY <1>2, <1>6 DEF Browses
  <2> QED BY <2>1, <2>2, <1>3, <1>4
<1>7. ASSUME NEW r \in Requests, NEW y, Begins(r, y)
      PROVE  req'[x] = req[x] /\ (entry'[k].val = x => entry[k].val = x)
  <2>1. req' = [req EXCEPT ![r] = y] /\ x # r BY <1>7 DEF Begins
  <2>2. PICK i : i = Key(y) OBVIOUS
  <2>3. entry' = [entry EXCEPT ![i].val = r] BY <2>2, <1>7 DEF Begins
  <2>4. entry'[k].val = x => entry[k].val = x BY <2>1, <2>3, <1>2, <1>3 DEF SoundEntry
  <2> QED BY <2>1, <2>4, <1>3
<1>8. ASSUME NEW r \in Requests, NEW y, Expires(r, y)
      PROVE  req'[x].complete /\ Key(req'[x]) = k /\ (entry'[k].val = x => entry[k].val = x)
  <2>1. req' = [req EXCEPT ![r] = y] /\ Keeps(req[r], y) BY <1>8 DEF Expires
  <2>2. PICK i, t : i = Key(y) /\ t = y.expires OBVIOUS
  <2>3. entry' = [entry EXCEPT ![i] = lifetime(entry[i], t)] BY <2>2, <1>8 DEF Expires
  <2>4. entry'[k].val = entry[k].val BY <2>3, <1>2, <1>3 DEF SoundEntry, lifetime
  <2> QED BY <2>1, <2>4, <1>1, <1>3 DEF Keeps, Key
<1>9. ASSUME NEW r \in Requests, NEW y, Settles(r, y)
      PROVE  req'[x].complete /\ Key(req'[x]) = k /\ (entry'[k].val = x => entry[k].val = x)
  <2>1. req' = [req EXCEPT ![r] = y] /\ Keeps(req[r], y) BY <1>9 DEF Settles
  <2>2. entry'[k] \in {entry[k], NoEntry} BY <1>2, <1>9 DEF Settles
  <2>3. entry'[k].val = x => entry[k].val = x BY <2>2, <1>4, NoEntryIsSound
  <2> QED BY <2>1, <2>3, <1>1, <1>3 DEF Keeps, Key
<1> QED BY <1>1, <1>5, <1>6, <1>7, <1>8, <1>9, EveryStep

\* A step of one request keeps every team's index listing its own.
LEMMA RequestKeepsLists ==
  ASSUME FlowInv, ListsItsOwn, NoReturn, NEW r \in Requests, NEW y,
         Begins(r, y) \/ Browses(r, y) \/ Expires(r, y) \/ Settles(r, y)
  PROVE  ListsItsOwn'
<1>1. req' = [req EXCEPT ![r] = y] /\ unlisted' = unlisted BY DEF Begins, Browses, Expires, Settles
<1>2. DOMAIN req = Requests /\ req'[r] = y /\ \A x \in Requests \ {r} : req'[x] = req[x] BY <1>1 DEF FlowInv
<1>3. PICK u, z : u = req[r].team /\ z = putTeam(r) OBVIOUS
<1>4. /\ DOMAIN teamIndex = Teams /\ \A t \in Teams : DOMAIN teamIndex[t] = {"members", "expires"}
      /\ \A x \in Requests \ unlisted :
            Holds(entry, req, x) /\ req[x].listed => Key(req[x]) \in DOMAIN teamIndex[req[x].team].members
  BY PurgeParts
<1>5. teamIndex' = teamIndex \/ teamIndex' = [teamIndex EXCEPT ![u] = z] BY <1>3 DEF Begins, Browses, Expires, Settles
<1>6. DOMAIN z = {"members", "expires"} /\ DOMAIN z.members = DOMAIN teamIndex[u].members \cup {Key(req[r])}
  BY <1>3 DEF putTeam, zadd, KeyOf, Key
<1>7. /\ DOMAIN teamIndex' = Teams /\ \A t \in Teams : DOMAIN teamIndex'[t] = {"members", "expires"}
      /\ \A t \in Teams : DOMAIN teamIndex[t].members \subseteq DOMAIN teamIndex'[t].members
  BY <1>4, <1>5, <1>6
<1>8. ASSUME NEW x \in Requests \ unlisted, Holds(entry', req', x), req'[x].listed
      PROVE  Key(req'[x]) \in DOMAIN teamIndex'[req'[x].team].members
  <2>1. CASE x # r
    <3>1. req'[x] = req[x] /\ req[x].complete BY <2>1, <1>2, <1>8 DEF Holds
    <3>2. Holds(entry, req, x) BY <3>1, <1>8 DEF Holds, NoReturn
    <3>3. Key(req[x]) \in DOMAIN teamIndex[req[x].team].members BY <3>1, <3>2, <1>4, <1>8
    <3>4. req[x].team \in Teams BY <3>1, StoredIsAsked
    <3> QED BY <3>1, <3>3, <3>4, <1>7
  <2>2. CASE x = r
    <3>1. y.complete /\ y.listed BY <2>2, <1>2, <1>8 DEF Holds
    <3>2. Settles(r, y) BY <3>1 DEF Begins, Browses, Expires
    <3>3. req[r].complete /\ y.team = u /\ Key(y) = Key(req[r]) BY <3>2, <1>3 DEF Settles, Keeps
    <3>4. u \in Teams BY <3>3, <1>3, StoredIsAsked
    <3>5. CASE req[r].listed
      <4>1. Holds(entry, req, r) BY <2>2, <3>3, <1>2, <1>8 DEF Holds, NoReturn
      <4>2. Key(req[r]) \in DOMAIN teamIndex[u].members BY <4>1, <3>5, <2>2, <1>3, <1>4, <1>8
      <4> QED BY <4>2, <3>3, <3>4, <2>2, <1>2, <1>7
    <3>6. CASE teamIndex' = [teamIndex EXCEPT ![u] = z]
      BY <3>6, <3>3, <3>4, <2>2, <1>2, <1>4, <1>6
    <3> QED BY <3>1, <3>2, <3>5, <3>6, <1>3 DEF Settles
  <2> QED BY <2>1, <2>2
<1> QED BY <1>1, <1>7, <1>8 DEF ListsItsOwn, Stored, Holds, KeyOf, Key

\* So does a sweep in which what an index loses is noted.
LEMMA SweepKeepsLists ==
  ASSUME FlowInv, ListsItsOwn, NoReturn, UNCHANGED req, NEW T,
         DOMAIN teamIndex' = Teams, \A t \in Teams : teamIndex'[t] = IF t \in T THEN NoIndex ELSE teamIndex[t],
         (unlisted \cap Stored) \cup lose(T) \subseteq unlisted'
  PROVE  ListsItsOwn'
<1>1. /\ DOMAIN teamIndex = Teams /\ \A t \in Teams : DOMAIN teamIndex[t] = {"members", "expires"}
      /\ \A x \in Requests \ unlisted :
            Holds(entry, req, x) /\ req[x].listed => Key(req[x]) \in DOMAIN teamIndex[req[x].team].members
  BY PurgeParts
<1>2. \A t \in Teams : DOMAIN teamIndex'[t] = {"members", "expires"} BY <1>1 DEF NoIndex
<1>3. ASSUME NEW x \in Requests, x \notin unlisted', Holds(entry', req', x), req'[x].listed
      PROVE  Key(req'[x]) \in DOMAIN teamIndex'[req'[x].team].members
  <2>1. Holds(entry, req, x) /\ req[x].complete BY <1>3 DEF Holds, NoReturn
  <2>2. x \in Stored BY <2>1, PurgeParts
  <2>3. x \notin unlisted BY <2>2, <1>3
  <2>4. req[x].team \notin T
    <3> SUFFICES ASSUME req[x].team \in T PROVE FALSE OBVIOUS
    <3>1. x \in lose(T) BY <2>1, <1>3 DEF lose, Holds, KeyOf, Key
    <3> QED BY <3>1, <1>3
  <2>5. req[x].team \in Teams BY <2>1, StoredIsAsked
  <2>6. teamIndex'[req[x].team] = teamIndex[req[x].team] BY <2>4, <2>5
  <2> QED BY <2>1, <2>3, <2>6, <1>1, <1>3
<1> QED BY <1>2, <1>3 DEF ListsItsOwn, Stored, Holds, KeyOf, Key

\* The same where no index is touched.
LEMMA CalmKeepsLists ==
  ASSUME FlowInv, ListsItsOwn, NoReturn, UNCHANGED <<req, teamIndex, unlisted>>
  PROVE  ListsItsOwn'
<1>1. /\ DOMAIN teamIndex = Teams
      /\ \A x \in Requests \ unlisted :
            Holds(entry, req, x) /\ req[x].listed => Key(req[x]) \in DOMAIN teamIndex[req[x].team].members
      /\ \A t \in Teams : DOMAIN teamIndex[t] = {"members", "expires"}
  BY PurgeParts
<1>2. \A x \in Requests : Holds(entry', req', x) => Holds(entry, req, x) BY DEF Holds, NoReturn
<1> QED BY <1>1, <1>2 DEF ListsItsOwn, Stored, Holds, KeyOf, Key

LEMMA ListsAreKept ==
  ASSUME FlowInv, ListsItsOwn, [Next]_vars
  PROVE  ListsItsOwn'
<1>1. NoReturn BY NoneReturns
<1>2. CASE \E r \in Requests : Lookup(r) \/ Store(r)
  BY <1>1, <1>2, LookupBrowses, StoreSteps, RequestKeepsLists
<1>3. CASE \E t \in PurgedTeams : PurgeTeam(t) BY <1>1, <1>3, CalmKeepsLists DEF PurgeTeam, calm, redis, history
<1>4. CASE \E i \in PurgedIds : PurgePrefix(i) BY <1>1, <1>4, CalmKeepsLists DEF PurgePrefix, calm, redis, history
<1>5. CASE PurgeAll \/ scanKeys \/ purgeFails
  BY <1>1, <1>5, CalmKeepsLists DEF PurgeAll, scanKeys, purgeFails, calm, redis, history
<1>6. CASE deleteEntries BY <1>1, <1>6, CalmKeepsLists DEF deleteEntries
<1>7. CASE deleteKeys
  <2>1. PICK T : T = IF purge.kind = "team" THEN {purge.team} ELSE purge.keys.team OBVIOUS
  <2>2. /\ teamIndex' = [t \in Teams |-> IF t \in T THEN NoIndex ELSE teamIndex[t]]
        /\ unlisted' = (unlisted \cap Stored) \cup lose(T) /\ req' = req
    BY <2>1, <1>7 DEF deleteKeys
  <2> QED BY <2>2, <1>1, SweepKeepsLists
<1>8. CASE Tick
  <2>1. PICK T : T = {t \in Teams : teamIndex[t].expires <= now + 1} OBVIOUS
  <2>2. /\ teamIndex' = [t \in Teams |-> IF t \in T THEN NoIndex ELSE teamIndex[t]]
        /\ unlisted' = unlisted \cup lose(T) /\ req' = req
    BY <2>1, <1>8 DEF Tick
  <2> QED BY <2>2, <1>1, SweepKeepsLists
<1>9. CASE UNCHANGED vars BY <1>1, <1>9, CalmKeepsLists DEF vars, redis, history
<1> QED BY <1>2, <1>3, <1>4, <1>5, <1>6, <1>7, <1>8, <1>9 DEF Next

\* What a purge is for, in terms of its record.
Aimed(p, e, R) ==
  /\ DOMAIN p = DOMAIN NoPurge /\ p.pc \in {"idle", "scan", "del", "keys"}
  /\ p.pc # "idle" => p.aimed \subseteq {x \in Requests : R[x].complete}
  /\ p.pc \in {"scan", "del"} => \A x \in p.aimed : Key(R[x]) \in p.ids \/ e[Key(R[x])].val # x
  /\ p.pc = "keys" => \A x \in p.aimed : e[Key(R[x])].val # x

LEMMA AimedIsAimed == PurgeIsAimed <=> Aimed(purge, entry, req)
BY DEF PurgeIsAimed, Aimed, KeyOf, Key

\* Steps that leave the purge alone, or only take it from one scan to the next.
LEMMA AimIsKept ==
  ASSUME NoReturn, PurgeIsAimed, DOMAIN purge' = DOMAIN NoPurge, purge'.aimed = purge.aimed, purge'.ids = purge.ids,
         purge'.pc = purge.pc \/ (purge.pc = "scan" /\ purge'.pc = "del")
  PROVE  PurgeIsAimed'
<1>1. Aimed(purge, entry, req) BY AimedIsAimed
<1>2. purge.pc # "idle" => \A x \in purge.aimed :
        /\ x \in Requests /\ req[x].complete /\ req'[x].complete /\ Key(req'[x]) = Key(req[x])
        /\ entry[Key(req[x])].val # x => entry'[Key(req'[x])].val # x
  BY <1>1 DEF Aimed, NoReturn
<1>3. Aimed(purge', entry', req') BY <1>1, <1>2 DEF Aimed
<1> QED BY <1>3 DEF PurgeIsAimed, Aimed, KeyOf, Key

\* A purge that ends aims at nothing.
LEMMA EndedAims ==
  ASSUME purged
  PROVE  PurgeIsAimed' /\ purge'.pc = "idle"
BY DEF PurgeIsAimed, purged, NoPurge

\* A purge begins with all that it is for in sight.
LEMMA BeginAims ==
  ASSUME FlowInv, NEW kind, NEW t, NEW ids, NEW aimed, NEW pc \in {"scan", "del"}, begin(kind, t, ids, aimed, pc),
         calm, aimed \subseteq Stored, \A x \in aimed : Key(req[x]) \in ids
  PROVE  PurgeIsAimed'
<1>1. purge' = [NoPurge EXCEPT !.pc = pc, !.kind = kind, !.team = t, !.ids = ids, !.aimed = aimed, !.left = purge.left - 1]
  BY DEF begin
<1>2. purge'.pc = pc /\ purge'.ids = ids /\ purge'.aimed = aimed /\ DOMAIN purge' = DOMAIN NoPurge BY <1>1 DEF NoPurge
<1>3. req' = req BY DEF calm
<1>4. aimed \subseteq {x \in Requests : req[x].complete} BY DEF Stored
<1> QED BY <1>2, <1>3, <1>4 DEF PurgeIsAimed, KeyOf, Key

LEMMA DeletionAims ==
  ASSUME FlowInv, PurgeIsAimed, deleteEntries
  PROVE  PurgeIsAimed' /\ \A x \in purge.aimed : entry'[Key(req[x])].val # x
<1>1. /\ purge.pc = "del" /\ req' = req /\ entry' = removed(purge.ids) BY DEF deleteEntries
<1>2. Aimed(purge, entry, req) BY AimedIsAimed
<1>3. ASSUME NEW x \in purge.aimed PROVE entry'[Key(req[x])].val # x
  <2>1. x \in Requests /\ req[x].complete /\ (Key(req[x]) \in purge.ids \/ entry[Key(req[x])].val # x)
    BY <1>1, <1>2 DEF Aimed
  <2>2. Key(req[x]) \in Ids BY <2>1, StoredIsAsked
  <2> QED BY <2>1, <2>2, <1>1, Constants, NoEntryIsSound DEF removed
<1>4. PurgeIsAimed'
  <2>1. CASE purged BY <2>1, EndedAims
  <2>2. CASE purge' = [purge EXCEPT !.pc = "keys", !.ids = {}]
    <3>1. purge'.pc = "keys" /\ purge'.aimed = purge.aimed /\ DOMAIN purge' = DOMAIN NoPurge
      BY <2>2, <1>2 DEF Aimed, NoPurge
    <3>2. purge.aimed \subseteq {x \in Requests : req[x].complete} BY <1>1, <1>2 DEF Aimed
    <3> QED BY <3>1, <3>2, <1>1, <1>3 DEF PurgeIsAimed, KeyOf, Key
  <2> QED BY <2>1, <2>2 DEF deleteEntries
<1> QED BY <1>3, <1>4

LEMMA AimsAreKept ==
  ASSUME FlowInv, ListsItsOwn, PurgeIsAimed, [Next]_vars
  PROVE  PurgeIsAimed'
<1>1. NoReturn BY NoneReturns
<1>2. DOMAIN purge = DOMAIN NoPurge BY DEF PurgeIsAimed
<1>3. CASE \E r \in Requests : Lookup(r) \/ Store(r)
  <2>1. purge' = purge BY <1>3, LookupBrowses, StoreSteps DEF Begins, Browses, Expires, Settles
  <2> QED BY <2>1, <1>1, <1>2, AimIsKept
<1>4. ASSUME NEW t \in PurgedTeams, PurgeTeam(t) PROVE PurgeIsAimed'
  <2>1. PICK ids, aimed : /\ ids = DOMAIN teamIndex[t].members
                          /\ aimed = {r \in Stored : req[r].team = t /\ req[r].listed} \ unlisted
    OBVIOUS
  <2>2. begin("team", t, ids, aimed, "del") /\ calm BY <2>1, <1>4 DEF PurgeTeam
  <2>3. aimed \subseteq Stored BY <2>1
  <2>4. \A x \in aimed : Key(req[x]) \in ids BY <2>1, PurgeParts
  <2> QED BY <2>2, <2>3, <2>4, BeginAims
<1>5. ASSUME NEW i \in PurgedIds, PurgePrefix(i) PROVE PurgeIsAimed'
  <2>1. PICK aimed : aimed = {r \in Stored : KeyOf(r) = i} OBVIOUS
  <2>2. begin("prefix", None, {i}, aimed, "del") /\ calm BY <2>1, <1>5 DEF PurgePrefix
  <2>3. aimed \subseteq Stored /\ \A x \in aimed : Key(req[x]) \in {i} BY <2>1 DEF KeyOf, Key
  <2> QED BY <2>2, <2>3, BeginAims
<1>6. CASE PurgeAll
  <2>1. PICK ids : ids = {j \in Ids : entry[j].val # None} OBVIOUS
  <2>2. begin("all", None, ids, Stored, "scan") /\ calm BY <2>1, <1>6 DEF PurgeAll
  <2>3. ASSUME NEW x \in Stored PROVE Key(req[x]) \in ids
    <3>1. x \in Requests /\ req[x].complete /\ entry[Key(req[x])].val = x BY PurgeParts DEF Holds
    <3>2. Key(req[x]) \in Ids BY <3>1, StoredIsAsked
    <3> QED BY <3>1, <3>2, <2>1, Constants
  <2> QED BY <2>2, <2>3, BeginAims
<1>7. CASE scanKeys
  <2>1. PICK keys : purge' = [purge EXCEPT !.pc = "del", !.keys = keys] BY <1>7 DEF scanKeys
  <2>2. purge.pc = "scan" BY <1>7 DEF scanKeys
  <2>3. purge'.pc = "del" /\ purge'.aimed = purge.aimed /\ purge'.ids = purge.ids /\ DOMAIN purge' = DOMAIN NoPurge
    BY <2>1, <1>2 DEF NoPurge
  <2> QED BY <2>2, <2>3, <1>1, AimIsKept
<1>8. CASE deleteEntries BY <1>8, DeletionAims
<1>9. CASE deleteKeys \/ purgeFails BY <1>9, EndedAims DEF deleteKeys, purgeFails
<1>10. CASE Tick \/ UNCHANGED vars
  <2>1. purge' = purge BY <1>10 DEF Tick, vars
  <2> QED BY <2>1, <1>1, <1>2, AimIsKept
<1> QED BY <1>3, <1>4, <1>5, <1>6, <1>7, <1>8, <1>9, <1>10 DEF Next

\* The step that ends a purge without a fault.
LEMMA EndOfPurge ==
  ASSUME FlowInv, PurgeIsAimed, faults \in Int, [Next]_vars,
         purge.pc # "idle", purge'.pc = "idle", faults' = faults, NEW r \in purge.aimed
  PROVE  entry'[KeyOf(r)].val # r
<1> USE DEF Next
<1>1. CASE \E x \in Requests : Lookup(x) \/ Store(x)
  <2>1. purge' = purge BY <1>1, LookupBrowses, StoreSteps DEF Begins, Browses, Expires, Settles
  <2> QED BY <2>1
<1>2. CASE (\E t \in PurgedTeams : PurgeTeam(t)) \/ (\E i \in PurgedIds : PurgePrefix(i)) \/ PurgeAll
  BY <1>2 DEF PurgeTeam, PurgePrefix, PurgeAll, mayPurge
<1>3. CASE scanKeys
  <2>1. purge'.pc = "del" BY <1>3 DEF scanKeys, PurgeIsAimed, NoPurge
  <2> QED BY <2>1
<1>4. CASE deleteEntries BY <1>4, DeletionAims DEF KeyOf, Key
<1>5. CASE deleteKeys
  <2>1. purge.pc = "keys" /\ entry' = entry BY <1>5 DEF deleteKeys
  <2> QED BY <2>1 DEF PurgeIsAimed
<1>6. CASE purgeFails BY <1>6 DEF purgeFails, spend
<1>7. CASE Tick \/ UNCHANGED vars BY <1>7 DEF Tick, vars
<1> QED BY <1>1, <1>2, <1>3, <1>4, <1>5, <1>6, <1>7

LEMMA StartAims ==
  ASSUME Init
  PROVE  PurgeInv
<1>1. PICK w, t : w = EntryID(WarmAsk[1], WarmAsk[2]) /\ t = WarmAsk[1] OBVIOUS
<1>2. /\ w \in Ids /\ t \in Teams /\ Key(req[Warm]) = w /\ req[Warm].team = t
      /\ \A r \in Requests \ {Warm} : req[r] = Fresh
  BY <1>1, Start
<1>3. PICK m : m = [members |-> zadd(Empty, w, 1), expires |-> DefaultTTL] OBVIOUS
<1>4. teamIndex = [u \in Teams |-> IF u = t THEN m ELSE NoIndex] BY <1>1, <1>3 DEF Init
<1>5. DOMAIN m = {"members", "expires"} /\ DOMAIN m.members = {w} BY <1>3 DEF zadd, Empty
<1>6. DOMAIN teamIndex = Teams /\ \A u \in Teams : DOMAIN teamIndex[u] = {"members", "expires"}
  BY <1>4, <1>5 DEF NoIndex
<1>7. ASSUME NEW x \in Requests, Holds(entry, req, x) PROVE Key(req[x]) \in DOMAIN teamIndex[req[x].team].members
  <2>1. x = Warm BY <1>2, <1>7, FreshIsSound DEF Holds
  <2> QED BY <2>1, <1>2, <1>4, <1>5
<1>8. ListsItsOwn BY <1>6, <1>7, PurgeParts
<1>9. PurgeIsAimed BY DEF Init, PurgeIsAimed, NoPurge
<1>10. faults \in Int BY Constants DEF Init
<1> QED BY <1>8, <1>9, <1>10 DEF PurgeInv

\* A purge that reports success leaves none of the answers that it was for and that
\* were stored when it began, whatever requests and time do between its commands.
THEOREM PurgesHold == Spec => PurgeHolds
<1>1. Init => FlowInv /\ PurgeInv BY StartFlows, StartAims
<1>2. FlowInv /\ PurgeInv /\ [Next]_vars => (FlowInv /\ PurgeInv)'
  BY FlowIsKept, ListsAreKept, AimsAreKept, FaultsAreInt DEF PurgeInv
<1>3. FlowInv /\ PurgeInv /\ [Next]_vars =>
        [purge.pc # "idle" /\ purge'.pc = "idle" /\ faults' = faults
           => \A r \in purge.aimed : entry'[KeyOf(r)].val # r]_vars
  BY EndOfPurge DEF PurgeInv
<1> QED BY <1>1, <1>2, <1>3, PTL DEF Spec, PurgeHolds

-----------------------------------------------------------------------------
(* The cap of a scope.                                                     *)

\* The records R and Q say the same of trim x.
Agree(R, Q, x) ==
  /\ Q[x].drop = R[x].drop /\ Q[x].n = R[x].n
  /\ (Q[x].pc \in {"del", "zrem"}) <=> (R[x].pc \in {"del", "zrem"})
  /\ (Q[x].pc = "zrange") <=> (R[x].pc = "zrange")

LEMMA CapConstant == MaxScopeEntries \in Nat
BY Constants

LEMMA SmallerSet ==
  ASSUME NEW S, IsFiniteSet(S), NEW U \in SUBSET S
  PROVE  IsFiniteSet(U) /\ Cardinality(U) \in Nat /\ Cardinality(S) \in Nat /\ Cardinality(U) <= Cardinality(S)
BY FS_Subset, FS_CardinalityType

LEMMA OneMore ==
  ASSUME NEW S, IsFiniteSet(S), NEW e
  PROVE  /\ IsFiniteSet(S \cup {e}) /\ Cardinality(S \cup {e}) \in Nat /\ Cardinality(S) \in Nat
         /\ Cardinality(S \cup {e}) <= Cardinality(S) + 1
         /\ e \notin S => Cardinality(S \cup {e}) = Cardinality(S) + 1
<1>1. /\ IsFiniteSet(S \cup {e})
      /\ Cardinality(S \cup {e}) = IF e \in S THEN Cardinality(S) ELSE Cardinality(S) + 1
  BY FS_AddElement
<1>2. Cardinality(S) \in Nat BY FS_CardinalityType
<1> QED BY <1>1, <1>2

LEMMA TrimsAgree ==
  ASSUME NEW R, NEW Q, NEW D, NEW F, NEW T, \A x \in T : Agree(R, Q, x), Trimmed(R, D, F, T)
  PROVE  Trimmed(Q, D, F, T)
<1>1. Condemned(Q, T) = Condemned(R, T) BY DEF Agree, Condemned
<1>2. CASE Cardinality(D \ Condemned(R, T)) <= MaxScopeEntries + Cardinality(F \ T) BY <1>1, <1>2 DEF Trimmed
<1>3. CASE \E r \in T : R[r].pc = "zrange" /\ Cardinality(D) <= MaxScopeEntries + Cardinality(F \ T) + R[r].n
  BY <1>3 DEF Trimmed, Agree
<1> QED BY <1>2, <1>3 DEF Trimmed

\* The cap after a step that takes no store into the index or out of it.
LEMMA CapCarries ==
  ASSUME NEW R, NEW Q, NEW D, NEW H, NEW G, NEW s, NEW F, CapFor(R, D, H, s, F), OverIn(Q, s) = OverIn(R, s),
         \A x \in StoresIn(Q, s) : Q[x].pc \in Settling => x \in F,
         \A x \in F : Q[x].pc \notin Writing,
         \A x \in OverIn(R, s) : Key(Q[x]) = Key(R[x]),
         TrimmersIn(Q, s) \subseteq TrimmersIn(R, s), \A x \in TrimmersIn(Q, s) : Agree(R, Q, x),
         G \subseteq H
  PROVE  CapFor(Q, D, G, s, F)
<1>1. \A T \in SUBSET TrimmersIn(Q, s) : Trimmed(Q, D, F, T) BY TrimsAgree DEF CapFor
<1>2. G \subseteq D \cup {Key(Q[r]) : r \in OverIn(Q, s) \ F} BY DEF CapFor
<1> QED BY <1>1, <1>2 DEF CapFor

\* Nothing of the scope changed but that entries are gone.
LEMMA CapStays ==
  ASSUME NEW R, NEW Q, NEW D, NEW H, NEW G, NEW s, NEW F, CapFor(R, D, H, s, F),
         \A x \in StoresIn(R, s) \cup StoresIn(Q, s) : Q[x] = R[x], G \subseteq H
  PROVE  CapFor(Q, D, G, s, F)
<1>1. StoresIn(Q, s) = StoresIn(R, s) BY DEF StoresIn
<1>2. OverIn(Q, s) = OverIn(R, s) /\ TrimmersIn(Q, s) = TrimmersIn(R, s) BY <1>1 DEF OverIn, TrimmersIn
<1>3. \A x \in TrimmersIn(Q, s) : Agree(R, Q, x) BY <1>1, <1>2 DEF TrimmersIn, Agree
<1>4. F \subseteq StoresIn(R, s) BY DEF CapFor, OverIn
<1>5. /\ \A x \in StoresIn(Q, s) : Q[x].pc \in Settling => x \in F
      /\ \A x \in F : Q[x].pc \notin Writing
      /\ \A x \in OverIn(R, s) : Key(Q[x]) = Key(R[x])
  BY <1>1, <1>4 DEF CapFor, OverIn
<1> QED BY <1>1, <1>2, <1>3, <1>5, CapCarries

\* The record of request r changes from x to y.
Moves(R, Q, r, x, y) ==
  DOMAIN R = Requests /\ r \in Requests /\ R[r] = x /\ Q = [R EXCEPT ![r] = y]

LEMMA StoresAfter ==
  ASSUME NEW R, NEW Q, NEW r, NEW x, NEW y, NEW s, Moves(R, Q, r, x, y), x.complete, y.complete, Key(y) = Key(x),
         ScopeOf(Key(x)) = s
  PROVE  /\ StoresIn(Q, s) = StoresIn(R, s) /\ r \in StoresIn(R, s) /\ Q[r] = y /\ R[r] = x
         /\ \A a \in StoresIn(R, s) \ {r} : Q[a] = R[a]
         /\ \A a \in StoresIn(R, s) : Key(Q[a]) = Key(R[a])
BY DEF Moves, StoresIn

\* A store that goes on, or ends with its command failed, stays over the cap.
LEMMA StaysOver ==
  ASSUME NEW R, NEW Q, NEW r, NEW x, NEW y, NEW s, Moves(R, Q, r, x, y), x.complete, y.complete, Key(y) = Key(x),
         ScopeOf(Key(x)) = s, x.pc # "done", y.pc # "done" \/ y.failed
  PROVE  OverIn(Q, s) = OverIn(R, s) /\ r \in OverIn(R, s)
<1>1. /\ StoresIn(Q, s) = StoresIn(R, s) /\ r \in StoresIn(R, s) /\ Q[r] = y /\ R[r] = x
      /\ \A a \in StoresIn(R, s) \ {r} : Q[a] = R[a]
  BY StoresAfter
<1> QED BY <1>1 DEF OverIn

\* One that ends well leaves it.
LEMMA LeavesOver ==
  ASSUME NEW R, NEW Q, NEW r, NEW x, NEW y, NEW s, Moves(R, Q, r, x, y), x.complete, y.complete, Key(y) = Key(x),
         ScopeOf(Key(x)) = s, x.pc # "done", y.pc = "done", ~ y.failed
  PROVE  OverIn(Q, s) = OverIn(R, s) \ {r} /\ r \in OverIn(R, s) /\ TrimmersIn(Q, s) = TrimmersIn(R, s) \ {r}
<1>1. /\ StoresIn(Q, s) = StoresIn(R, s) /\ r \in StoresIn(R, s) /\ Q[r] = y /\ R[r] = x
      /\ \A a \in StoresIn(R, s) \ {r} : Q[a] = R[a]
  BY StoresAfter
<1>2. "done" \notin Trimming BY DEF Trimming
<1> QED BY <1>1, <1>2 DEF OverIn, TrimmersIn

\* A store that leaves the trim alone: EXPIRE, the indexes short of the scope's, a failure, DEL.
LEMMA CapPlain ==
  ASSUME NEW R, NEW Q, NEW r, NEW x, NEW y, NEW s, Moves(R, Q, r, x, y), x.complete, y.complete, Key(y) = Key(x),
         ScopeOf(Key(x)) = s, x.pc # "done", y.pc # "done" \/ y.failed,
         y.pc \in Writing => x.pc \in Writing, y.pc \in Settling => x.pc \in Settling,
         y.pc \in Trimming => x.pc \in Trimming /\ Agree(R, Q, r),
         NEW D, NEW H, NEW G, NEW F, CapFor(R, D, H, s, F), G \subseteq H
  PROVE  CapFor(Q, D, G, s, F)
<1>1. /\ StoresIn(Q, s) = StoresIn(R, s) /\ r \in StoresIn(R, s) /\ Q[r] = y /\ R[r] = x
      /\ \A a \in StoresIn(R, s) \ {r} : Q[a] = R[a]
      /\ \A a \in StoresIn(R, s) : Key(Q[a]) = Key(R[a])
  BY StoresAfter
<1>2. OverIn(Q, s) = OverIn(R, s) BY StaysOver
<1>3. F \subseteq StoresIn(R, s) BY DEF CapFor, OverIn
<1>4. \A a \in StoresIn(Q, s) : Q[a].pc \in Settling => a \in F BY <1>1 DEF CapFor
<1>5. \A a \in F : Q[a].pc \notin Writing BY <1>1, <1>3 DEF CapFor
<1>6. TrimmersIn(Q, s) \subseteq TrimmersIn(R, s) BY <1>1 DEF TrimmersIn
<1>7. ASSUME NEW a \in TrimmersIn(Q, s) PROVE Agree(R, Q, a)
  <2>1. CASE a = r BY <1>1, <1>7, <2>1 DEF TrimmersIn
  <2>2. CASE a # r BY <1>1, <1>7, <2>2 DEF TrimmersIn, Agree
  <2> QED BY <2>1, <2>2
<1>8. \A a \in OverIn(R, s) : Key(Q[a]) = Key(R[a]) BY <1>1 DEF OverIn
<1> QED BY <1>2, <1>4, <1>5, <1>6, <1>7, <1>8, CapCarries

\* HSET: a store comes to the scope, which may hold its entry.
LEMMA CapBegins ==
  ASSUME NEW R, NEW Q, NEW r, NEW x, NEW y, NEW s, Moves(R, Q, r, x, y), ~ x.complete, y.complete, y.pc = "expire",
         ScopeOf(Key(y)) = s,
         NEW D, NEW H, NEW G, NEW F, CapFor(R, D, H, s, F), G \subseteq H \cup {Key(y)}
  PROVE  CapFor(Q, D, G, s, F)
<1>1. /\ StoresIn(Q, s) = StoresIn(R, s) \cup {r} /\ r \notin StoresIn(R, s) /\ Q[r] = y
      /\ \A a \in StoresIn(R, s) : Q[a] = R[a]
  BY DEF Moves, StoresIn
<1>2. OverIn(Q, s) = OverIn(R, s) \cup {r} /\ r \notin OverIn(R, s) BY <1>1 DEF OverIn
<1>3. "expire" \notin Settling /\ "expire" \notin Trimming BY DEF Settling, Trimming
<1>4. TrimmersIn(Q, s) = TrimmersIn(R, s) BY <1>1, <1>3 DEF TrimmersIn
<1>5. F \subseteq StoresIn(R, s) /\ F \subseteq OverIn(R, s) BY DEF CapFor, OverIn
<1>6. /\ \A a \in StoresIn(Q, s) : Q[a].pc \in Settling => a \in F
      /\ \A a \in F : Q[a].pc \notin Writing
  BY <1>1, <1>3, <1>5 DEF CapFor
<1>7. \A a \in TrimmersIn(Q, s) : Agree(R, Q, a) BY <1>1, <1>4 DEF TrimmersIn, Agree
<1>8. \A T \in SUBSET TrimmersIn(Q, s) : Trimmed(Q, D, F, T) BY <1>4, <1>7, TrimsAgree DEF CapFor
<1>9. G \subseteq D \cup {Key(Q[a]) : a \in OverIn(Q, s) \ F}
  <2>1. ASSUME NEW g \in H PROVE g \in D \cup {Key(Q[a]) : a \in OverIn(Q, s) \ F}
    <3>1. CASE g \in D BY <3>1
    <3>2. CASE \E a \in OverIn(R, s) \ F : g = Key(R[a]) BY <3>2, <1>1, <1>2 DEF OverIn
    <3> QED BY <3>1, <3>2 DEF CapFor
  <2>2. Key(y) \in {Key(Q[a]) : a \in OverIn(Q, s) \ F} BY <1>1, <1>2, <1>5
  <2> QED BY <2>1, <2>2
<1> QED BY <1>2, <1>5, <1>6, <1>8, <1>9 DEF CapFor

\* The scope's index is written: the store joins those that have reached it.
LEMMA CapIndexed ==
  ASSUME NEW R, NEW Q, NEW r, NEW x, NEW y, NEW s, Moves(R, Q, r, x, y), x.complete, y.complete, Key(y) = Key(x),
         ScopeOf(Key(x)) = s, x.pc = "indexes", y.pc = "zcard" \/ (y.pc = "done" /\ y.failed),
         NEW D, IsFiniteSet(D), NEW H, NEW F, CapFor(R, D, H, s, F), Counted(R)
  PROVE  CapFor(Q, D \cup {Key(x)}, H, s, F \cup {r})
<1>1. /\ StoresIn(Q, s) = StoresIn(R, s) /\ r \in StoresIn(R, s) /\ Q[r] = y /\ R[r] = x
      /\ \A a \in StoresIn(R, s) \ {r} : Q[a] = R[a]
      /\ \A a \in StoresIn(R, s) : Key(Q[a]) = Key(R[a])
  BY StoresAfter
<1>2. OverIn(Q, s) = OverIn(R, s) /\ r \in OverIn(R, s) BY StaysOver
<1>3. F \subseteq OverIn(R, s) /\ F \subseteq StoresIn(R, s) /\ StoresIn(R, s) \subseteq Requests BY DEF CapFor, OverIn, StoresIn
<1>4. "indexes" \in Writing /\ "indexes" \notin Trimming /\ "zcard" \notin Trimming \cup Writing /\ "done" \notin Trimming \cup Writing
  BY DEF Writing, Trimming
<1>5. r \notin F BY <1>1, <1>4 DEF CapFor
<1>6. F \cup {r} \subseteq OverIn(Q, s) BY <1>2, <1>3
<1>7. \A a \in StoresIn(Q, s) : Q[a].pc \in Settling => a \in F \cup {r} BY <1>1 DEF CapFor
<1>8. \A a \in F \cup {r} : Q[a].pc \notin Writing BY <1>1, <1>3, <1>4 DEF CapFor
<1>9. H \subseteq (D \cup {Key(x)}) \cup {Key(Q[a]) : a \in OverIn(Q, s) \ (F \cup {r})}
  <2>1. ASSUME NEW h \in H PROVE h \in (D \cup {Key(x)}) \cup {Key(Q[a]) : a \in OverIn(Q, s) \ (F \cup {r})}
    <3>1. CASE h \in D BY <3>1
    <3>2. CASE \E a \in OverIn(R, s) \ F : h = Key(R[a])
      <4>1. PICK a \in OverIn(R, s) \ F : h = Key(R[a]) BY <3>2
      <4>2. CASE a = r BY <4>1, <4>2, <1>1
      <4>3. CASE a # r BY <4>1, <4>3, <1>1, <1>2 DEF OverIn
      <4> QED BY <4>2, <4>3
    <3> QED BY <3>1, <3>2 DEF CapFor
  <2> QED BY <2>1
<1>10. TrimmersIn(Q, s) = TrimmersIn(R, s) /\ r \notin TrimmersIn(R, s) BY <1>1, <1>4 DEF TrimmersIn
<1>11. \A a \in TrimmersIn(Q, s) : Agree(R, Q, a) BY <1>1, <1>10 DEF TrimmersIn, Agree
<1>12. ASSUME NEW T \in SUBSET TrimmersIn(Q, s) PROVE Trimmed(Q, D \cup {Key(x)}, F \cup {r}, T)
  <2>1. Trimmed(R, D, F, T) BY <1>10 DEF CapFor
  <2>2. PICK k, C : k = Key(x) /\ C = Condemned(R, T) OBVIOUS
  <2>3. r \notin T BY <1>10
  <2>4. IsFiniteSet(F \ T) /\ (F \cup {r}) \ T = (F \ T) \cup {r} /\ r \notin F \ T
    BY <1>3, <1>5, <2>3, Constants, FS_Subset
  <2>5. Cardinality((F \cup {r}) \ T) = Cardinality(F \ T) + 1 /\ Cardinality(F \ T) \in Nat
    BY <2>4, OneMore
  <2>6. CASE Cardinality(D \ C) <= MaxScopeEntries + Cardinality(F \ T)
    <3>1. IsFiniteSet(D \ C) /\ Cardinality(D \ C) \in Nat BY SmallerSet
    <3>2. (D \cup {k}) \ C \subseteq (D \ C) \cup {k} OBVIOUS
    <3>3. IsFiniteSet((D \ C) \cup {k}) /\ Cardinality((D \ C) \cup {k}) <= Cardinality(D \ C) + 1
          /\ Cardinality((D \ C) \cup {k}) \in Nat
      BY <3>1, OneMore
    <3>4. Cardinality((D \cup {k}) \ C) \in Nat /\ Cardinality((D \cup {k}) \ C) <= Cardinality((D \ C) \cup {k})
      BY <3>2, <3>3, SmallerSet
    <3>5. Cardinality((D \cup {k}) \ C) <= MaxScopeEntries + Cardinality((F \cup {r}) \ T)
      BY <2>5, <2>6, <3>1, <3>3, <3>4, CapConstant
    <3>6. Trimmed(R, D \cup {k}, F \cup {r}, T) BY <2>2, <3>5 DEF Trimmed
    <3> QED BY <2>2, <3>6, <1>11, TrimsAgree
  <2>7. CASE \E a \in T : R[a].pc = "zrange" /\ Cardinality(D) <= MaxScopeEntries + Cardinality(F \ T) + R[a].n
    <3>1. PICK a \in T : R[a].pc = "zrange" /\ Cardinality(D) <= MaxScopeEntries + Cardinality(F \ T) + R[a].n
      BY <2>7
    <3>2. R[a].n \in Nat BY <3>1, <1>3, <1>10 DEF Counted, TrimmersIn
    <3>3. Cardinality(D) \in Nat /\ Cardinality(D \cup {k}) \in Nat /\ Cardinality(D \cup {k}) <= Cardinality(D) + 1
      BY OneMore
    <3>4. Cardinality(D \cup {k}) <= MaxScopeEntries + Cardinality((F \cup {r}) \ T) + R[a].n
      BY <2>5, <3>1, <3>2, <3>3, CapConstant
    <3>5. Trimmed(R, D \cup {k}, F \cup {r}, T) BY <3>1, <3>4 DEF Trimmed
    <3> QED BY <2>2, <3>5, <1>11, TrimsAgree
  <2> QED BY <2>1, <2>2, <2>6, <2>7 DEF Trimmed
<1> QED BY <1>6, <1>7, <1>8, <1>9, <1>12 DEF CapFor

\* ZCARD: a trim begins that counted what is too much.
LEMMA CapCounts ==
  ASSUME NEW R, NEW Q, NEW r, NEW x, NEW y, NEW s, Moves(R, Q, r, x, y), x.complete, y.complete, Key(y) = Key(x),
         ScopeOf(Key(x)) = s, x.pc = "zcard", y.pc = "zrange",
         NEW D, IsFiniteSet(D), NEW H, NEW F, CapFor(R, D, H, s, F),
         y.n = Cardinality(D) - MaxScopeEntries, Cardinality(D) > MaxScopeEntries
  PROVE  CapFor(Q, D, H, s, F)
<1>1. /\ StoresIn(Q, s) = StoresIn(R, s) /\ r \in StoresIn(R, s) /\ Q[r] = y /\ R[r] = x
      /\ \A a \in StoresIn(R, s) \ {r} : Q[a] = R[a]
      /\ \A a \in StoresIn(R, s) : Key(Q[a]) = Key(R[a])
  BY StoresAfter
<1>2. OverIn(Q, s) = OverIn(R, s) BY StaysOver
<1>3. F \subseteq OverIn(R, s) /\ F \subseteq StoresIn(R, s) /\ StoresIn(R, s) \subseteq Requests BY DEF CapFor, OverIn, StoresIn
<1>4. "zcard" \in Settling /\ "zrange" \notin Writing BY DEF Writing, Settling
<1>5. \A a \in StoresIn(Q, s) : Q[a].pc \in Settling => a \in F BY <1>1, <1>4 DEF CapFor
<1>6. \A a \in F : Q[a].pc \notin Writing BY <1>1, <1>3, <1>4 DEF CapFor
<1>7. \A a \in OverIn(R, s) : Key(Q[a]) = Key(R[a]) BY <1>1 DEF OverIn
<1>8. H \subseteq D \cup {Key(Q[a]) : a \in OverIn(Q, s) \ F} BY <1>2, <1>7 DEF CapFor
<1>9. ASSUME NEW T \in SUBSET TrimmersIn(Q, s) PROVE Trimmed(Q, D, F, T)
  <2>1. CASE r \notin T
    <3>1. T \in SUBSET TrimmersIn(R, s) /\ \A a \in T : Agree(R, Q, a) BY <2>1, <1>1 DEF TrimmersIn, Agree
    <3> QED BY <3>1, TrimsAgree DEF CapFor
  <2>2. CASE r \in T
    <3>1. IsFiniteSet(F \ T) /\ Cardinality(F \ T) \in Nat BY <1>3, Constants, FS_Subset, FS_CardinalityType
    <3>2. Cardinality(D) \in Nat BY FS_CardinalityType
    <3>3. Cardinality(D) <= MaxScopeEntries + Cardinality(F \ T) + y.n BY <3>1, <3>2, CapConstant
    <3> QED BY <2>2, <3>3, <1>1 DEF Trimmed
  <2> QED BY <2>1, <2>2
<1> QED BY <1>2, <1>3, <1>5, <1>6, <1>8, <1>9 DEF CapFor

\* A store that ends well leaves the members that it found within the cap.
LEMMA CapLeaves ==
  ASSUME NEW R, NEW Q, NEW r, NEW x, NEW y, NEW s, Moves(R, Q, r, x, y), x.complete, y.complete, Key(y) = Key(x),
         ScopeOf(Key(x)) = s, x.pc \in Settling, y.pc = "done", ~ y.failed,
         NEW D, NEW H, NEW E, NEW G, NEW F, CapFor(R, D, H, s, F),
         G \subseteq H, D \cap G \subseteq E,
         \A T \in SUBSET (TrimmersIn(R, s) \ {r}) : Trimmed(R, E, F \ {r}, T)
  PROVE  CapFor(Q, E, G, s, F \ {r})
<1>1. /\ StoresIn(Q, s) = StoresIn(R, s) /\ r \in StoresIn(R, s) /\ Q[r] = y /\ R[r] = x
      /\ \A a \in StoresIn(R, s) \ {r} : Q[a] = R[a]
      /\ \A a \in StoresIn(R, s) : Key(Q[a]) = Key(R[a])
  BY StoresAfter
<1>2. x.pc # "done" /\ "done" \notin Settling BY DEF Settling, Trimming
<1>3. OverIn(Q, s) = OverIn(R, s) \ {r} /\ TrimmersIn(Q, s) = TrimmersIn(R, s) \ {r} BY <1>2, LeavesOver
<1>4. F \subseteq OverIn(R, s) /\ F \subseteq StoresIn(R, s) /\ r \in F BY <1>1 DEF CapFor, OverIn
<1>5. F \ {r} \subseteq OverIn(Q, s) BY <1>3, <1>4
<1>6. \A a \in StoresIn(Q, s) : Q[a].pc \in Settling => a \in F \ {r} BY <1>1, <1>2 DEF CapFor
<1>7. \A a \in F \ {r} : Q[a].pc \notin Writing BY <1>1, <1>4 DEF CapFor
<1>8. OverIn(Q, s) \ (F \ {r}) = OverIn(R, s) \ F BY <1>3, <1>4
<1>9. ASSUME NEW g \in G PROVE g \in E \cup {Key(Q[a]) : a \in OverIn(Q, s) \ (F \ {r})}
  <2>1. g \in D \/ \E a \in OverIn(R, s) \ F : g = Key(R[a]) BY DEF CapFor
  <2>2. \A a \in OverIn(R, s) : Key(Q[a]) = Key(R[a]) BY <1>1 DEF OverIn
  <2> QED BY <2>1, <2>2, <1>8
<1>10. \A a \in TrimmersIn(Q, s) : Agree(R, Q, a) BY <1>1, <1>3 DEF TrimmersIn, Agree
<1>11. \A T \in SUBSET TrimmersIn(Q, s) : Trimmed(Q, E, F \ {r}, T) BY <1>3, <1>10, TrimsAgree
<1> QED BY <1>5, <1>6, <1>7, <1>9, <1>11 DEF CapFor

\* Within the cap, nothing is left to trim.
LEMMA WithinCap ==
  ASSUME NEW R, NEW D, IsFiniteSet(D), Cardinality(D) <= MaxScopeEntries, NEW F \in SUBSET Requests, NEW T
  PROVE  Trimmed(R, D, F, T)
<1>1. Cardinality(D \ Condemned(R, T)) \in Nat /\ Cardinality(D) \in Nat
      /\ Cardinality(D \ Condemned(R, T)) <= Cardinality(D)
  BY SmallerSet
<1>2. Cardinality(F \ T) \in Nat BY Constants, FS_Subset, FS_CardinalityType
<1> QED BY <1>1, <1>2, CapConstant DEF Trimmed

\* ZRANGE: the trim that counted n has named the n oldest.
LEMMA CapVictims ==
  ASSUME NEW R, NEW Q, NEW r, NEW x, NEW y, NEW s, Moves(R, Q, r, x, y), x.complete, y.complete, Key(y) = Key(x),
         ScopeOf(Key(x)) = s, x.pc = "zrange", y.pc = "del", x.n \in Nat,
         NEW D, IsFiniteSet(D), NEW H, NEW F, CapFor(R, D, H, s, F),
         NEW V \in SUBSET D, y.drop = V, Cardinality(V) = x.n \/ V = D
  PROVE  CapFor(Q, D, H, s, F)
<1>1. /\ StoresIn(Q, s) = StoresIn(R, s) /\ r \in StoresIn(R, s) /\ Q[r] = y /\ R[r] = x
      /\ \A a \in StoresIn(R, s) \ {r} : Q[a] = R[a]
      /\ \A a \in StoresIn(R, s) : Key(Q[a]) = Key(R[a])
  BY StoresAfter
<1>2. OverIn(Q, s) = OverIn(R, s) BY StaysOver
<1>3. F \subseteq OverIn(R, s) /\ F \subseteq StoresIn(R, s) /\ StoresIn(R, s) \subseteq Requests BY DEF CapFor, OverIn, StoresIn
<1>4. "zrange" \in Settling /\ "del" \notin Writing /\ "zrange" \in Trimming /\ "del" \in Trimming
  BY DEF Writing, Settling, Trimming
<1>5. \A a \in StoresIn(Q, s) : Q[a].pc \in Settling => a \in F BY <1>1, <1>4 DEF CapFor
<1>6. \A a \in F : Q[a].pc \notin Writing BY <1>1, <1>3, <1>4 DEF CapFor
<1>7. \A a \in OverIn(R, s) : Key(Q[a]) = Key(R[a]) BY <1>1 DEF OverIn
<1>8. H \subseteq D \cup {Key(Q[a]) : a \in OverIn(Q, s) \ F} BY <1>2, <1>7 DEF CapFor
<1>9. TrimmersIn(Q, s) = TrimmersIn(R, s) BY <1>1, <1>4 DEF TrimmersIn
<1>10. ASSUME NEW T \in SUBSET TrimmersIn(Q, s) PROVE Trimmed(Q, D, F, T)
  <2>1. Trimmed(R, D, F, T) BY <1>9 DEF CapFor
  <2>2. T \subseteq StoresIn(R, s) BY <1>9 DEF TrimmersIn
  <2>3. CASE r \notin T
    <3>1. \A a \in T : Agree(R, Q, a) BY <2>2, <2>3, <1>1 DEF Agree
    <3> QED BY <2>1, <3>1, TrimsAgree
  <2>4. CASE r \in T
    <3>1. Condemned(R, T) \subseteq Condemned(Q, T) /\ V \subseteq Condemned(Q, T)
      BY <2>2, <2>4, <1>1 DEF Condemned
    <3>2. PICK C, B : C = Condemned(R, T) /\ B = Condemned(Q, T) OBVIOUS
    <3>3. PICK f : f = Cardinality(F \ T) OBVIOUS
    <3>4. f \in Nat BY <3>3, <1>3, Constants, FS_Subset, FS_CardinalityType
    <3>5. CASE Cardinality(D \ C) <= MaxScopeEntries + f
      <4>1. IsFiniteSet(D \ C) /\ D \ B \subseteq D \ C BY <3>1, <3>2, FS_Subset
      <4>2. Cardinality(D \ B) \in Nat /\ Cardinality(D \ C) \in Nat /\ Cardinality(D \ B) <= Cardinality(D \ C)
        BY <4>1, SmallerSet
      <4>3. Cardinality(D \ B) <= MaxScopeEntries + f BY <4>2, <3>4, <3>5, CapConstant
      <4> QED BY <4>3, <3>2, <3>3 DEF Trimmed
    <3>6. ASSUME NEW a \in T, R[a].pc = "zrange", Cardinality(D) <= MaxScopeEntries + f + R[a].n PROVE Trimmed(Q, D, F, T)
      <4>1. CASE a # r
        <5>1. Q[a] = R[a] BY <4>1, <2>2, <1>1
        <5> QED BY <5>1, <3>3, <3>6 DEF Trimmed
      <4>2. CASE a = r
        <5>1. IsFiniteSet(V) /\ IsFiniteSet(D \ V) /\ Cardinality(D \ V) = Cardinality(D) - Cardinality(V)
              /\ Cardinality(V) \in Nat /\ Cardinality(D) \in Nat /\ Cardinality(D \ V) \in Nat
          <6>1. IsFiniteSet(V) /\ IsFiniteSet(D \ V) BY FS_Subset
          <6>2. D \cap V = V OBVIOUS
          <6>3. Cardinality(D \ V) = Cardinality(D) - Cardinality(D \cap V) BY FS_Difference
          <6> QED BY <6>1, <6>2, <6>3, FS_CardinalityType
        <5>2. Cardinality(D) <= MaxScopeEntries + f + x.n BY <4>2, <3>6, <1>1
        <5>3. V = D => Cardinality(D \ V) = 0 BY <5>1
        <5>4. Cardinality(D \ V) <= MaxScopeEntries + f BY <5>1, <5>2, <5>3, <3>4, CapConstant
        <5>5. D \ B \subseteq D \ V BY <3>1, <3>2
        <5>6. Cardinality(D \ B) \in Nat /\ Cardinality(D \ B) <= Cardinality(D \ V) BY <5>1, <5>5, SmallerSet
        <5>7. Cardinality(D \ B) <= MaxScopeEntries + f BY <5>1, <5>4, <5>6, <3>4, CapConstant
        <5> QED BY <5>7, <3>2, <3>3 DEF Trimmed
      <4> QED BY <4>1, <4>2
    <3> QED BY <2>1, <3>2, <3>3, <3>5, <3>6 DEF Trimmed
  <2> QED BY <2>3, <2>4
<1> QED BY <1>2, <1>3, <1>5, <1>6, <1>8, <1>10 DEF CapFor

\* ZREM: what the trim condemned is gone from the index, and the store with it.
LEMMA CapForgets ==
  ASSUME NEW R, NEW r, NEW s, NEW D, IsFiniteSet(D), NEW H, NEW F, CapFor(R, D, H, s, F), Counted(R),
         r \in TrimmersIn(R, s), R[r].pc = "zrem", NEW T \in SUBSET (TrimmersIn(R, s) \ {r})
  PROVE  Trimmed(R, D \ R[r].drop, F \ {r}, T)
<1>1. PICK U : U = T \cup {r} OBVIOUS
<1>2. PICK V : V = R[r].drop OBVIOUS
<1>3. Trimmed(R, D, F, U) BY <1>1 DEF CapFor
<1>4. Condemned(R, U) = Condemned(R, T) \cup V BY <1>1, <1>2 DEF Condemned
<1>5. D \ Condemned(R, U) = (D \ V) \ Condemned(R, T) /\ F \ U = (F \ {r}) \ T BY <1>1, <1>4
<1>6. CASE Cardinality(D \ Condemned(R, U)) <= MaxScopeEntries + Cardinality(F \ U)
  BY <1>2, <1>5, <1>6 DEF Trimmed
<1>7. CASE \E a \in U : R[a].pc = "zrange" /\ Cardinality(D) <= MaxScopeEntries + Cardinality(F \ U) + R[a].n
  <2>1. PICK a \in U : R[a].pc = "zrange" /\ Cardinality(D) <= MaxScopeEntries + Cardinality(F \ U) + R[a].n
    BY <1>7
  <2>2. a \in T BY <1>1, <2>1
  <2>3. R[a].n \in Nat BY <2>1, <2>2 DEF Counted, TrimmersIn, StoresIn
  <2>4. Cardinality(D \ V) \in Nat /\ Cardinality(D) \in Nat /\ Cardinality(D \ V) <= Cardinality(D) BY SmallerSet
  <2>5. F \subseteq Requests BY DEF CapFor, OverIn, StoresIn
  <2>6. Cardinality(F \ U) \in Nat BY <2>5, Constants, FS_Subset, FS_CardinalityType
  <2>7. PICK f, n : f = Cardinality(F \ U) /\ n = R[a].n OBVIOUS
  <2>8. Cardinality(D \ V) <= MaxScopeEntries + f + n BY <2>1, <2>3, <2>4, <2>6, <2>7, CapConstant
  <2> QED BY <2>1, <2>2, <2>7, <2>8, <1>2, <1>5 DEF Trimmed
<1> QED BY <1>3, <1>6, <1>7 DEF Trimmed

\* The scope's index is deleted, and with it whatever it held.
LEMMA CapEmptied ==
  ASSUME NEW R, NEW D, NEW H, NEW s, NEW F, CapFor(R, D, H, s, F)
  PROVE  CapFor(R, {}, {}, s, F)
<1>1. F \subseteq Requests BY DEF CapFor, OverIn, StoresIn
<1>2. IsFiniteSet({}) /\ Cardinality({}) = 0 BY FS_EmptySet
<1>3. \A T : Trimmed(R, {}, F, T) BY <1>1, <1>2, CapConstant, WithinCap
<1> QED BY <1>3 DEF CapFor

\* What the cap comes to.
LEMMA CapBounds ==
  ASSUME NEW R, NEW D, IsFiniteSet(D), NEW H, NEW s, NEW F, CapFor(R, D, H, s, F)
  PROVE  Cardinality(H) <= MaxScopeEntries + Cardinality(OverIn(R, s))
<1>1. PICK O : O = OverIn(R, s) OBVIOUS
<1>2. O \subseteq Requests /\ F \subseteq O BY <1>1 DEF CapFor, OverIn, StoresIn
<1>3. /\ IsFiniteSet(O) /\ IsFiniteSet(F) /\ IsFiniteSet(O \ F)
      /\ Cardinality(O) \in Nat /\ Cardinality(F) \in Nat /\ Cardinality(O \ F) \in Nat
  BY <1>2, Constants, FS_Subset, FS_CardinalityType
<1>4. O \cap F = F BY <1>2
<1>5. Cardinality(O \ F) = Cardinality(O) - Cardinality(F) BY <1>3, <1>4, FS_Difference
<1>6. PICK K : K = {Key(R[a]) : a \in O \ F} OBVIOUS
<1>7. IsFiniteSet(K) /\ Cardinality(K) <= Cardinality(O \ F) /\ Cardinality(K) \in Nat
  <2>1. PICK f : f = [a \in O \ F |-> Key(R[a])] OBVIOUS
  <2>2. f \in Surjection(O \ F, K) BY <2>1, <1>6 DEF Surjection
  <2> QED BY <2>2, <1>3, FS_Surjection, FS_CardinalityType
<1>8. Cardinality(D) <= MaxScopeEntries + Cardinality(F) /\ Cardinality(D) \in Nat
  <2>1. Trimmed(R, D, F, {}) BY DEF CapFor
  <2>2. Condemned(R, {}) = {} /\ D \ {} = D /\ F \ {} = F BY DEF Condemned
  <2> QED BY <2>1, <2>2, FS_CardinalityType DEF Trimmed
<1>9. IsFiniteSet(D \cup K) /\ Cardinality(D \cup K) \in Nat /\ Cardinality(D \cup K) <= Cardinality(D) + Cardinality(K)
  <2>1. IsFiniteSet(D \cup K) /\ Cardinality(D \cup K) = Cardinality(D) + Cardinality(K) - Cardinality(D \cap K)
    BY <1>7, FS_Union
  <2>2. Cardinality(D \cap K) \in Nat /\ Cardinality(D \cup K) \in Nat BY <2>1, FS_Intersection, FS_CardinalityType
  <2> QED BY <2>1, <2>2, <1>7, <1>8
<1>10. Cardinality(H) \in Nat /\ Cardinality(H) <= Cardinality(D \cup K)
  <2>1. H \subseteq D \cup K BY <1>1, <1>6 DEF CapFor
  <2> QED BY <2>1, <1>9, SmallerSet
<1> QED BY <1>1, <1>3, <1>5, <1>7, <1>8, <1>9, <1>10, CapConstant

\* The entries of scope s, from the hashes and those that slipped.
HeldIn(e, lost, s) == {i \in Ids : ScopeOf(i) = s /\ e[i].val \in Requests} \ lost

\* The members of the scope's index, by its state.
Members(z, s) == DOMAIN z[s]

LEMMA CapParts ==
  CapInv <=> /\ DOMAIN scopeIndex = Scopes /\ Counted(req)
             /\ \A s \in Scopes : /\ IsFiniteSet(Members(scopeIndex, s))
                                  /\ \E F \in SUBSET Requests :
                                       CapFor(req, Members(scopeIndex, s), HeldIn(entry, slipped, s), s, F)
BY DEF CapInv, HeldBy, HeldIn, Members, Answer

\* The cap after a step, from its parts.
LEMMA CapAfter ==
  ASSUME DOMAIN scopeIndex' = Scopes, Counted(req'),
         \A s \in Scopes : /\ IsFiniteSet(Members(scopeIndex', s))
                           /\ \E F \in SUBSET Requests :
                                CapFor(req', Members(scopeIndex', s), HeldIn(entry', slipped', s), s, F)
  PROVE  CapInv'
BY DEF CapInv, HeldBy, HeldIn, Members, Answer

\* Entries that only go, or slip, leave every scope with no more.
LEMMA HeldShrinks ==
  ASSUME \A i \in Ids : entry'[i].val \in Requests => entry[i].val \in Requests /\ (i \in slipped => i \in slipped')
  PROVE  \A s : HeldIn(entry', slipped', s) \subseteq HeldIn(entry, slipped, s)
BY DEF HeldIn

\* A step of a store moves the cap of its own scope only.
LEMMA OneScope ==
  ASSUME FlowInv, CapInv, NEW r \in Requests, NEW y, req' = [req EXCEPT ![r] = y], y.complete, Key(y) = Key(req[r]),
         SoundRequest(y), y.pc = "zrange" => y.n \in Nat \ {0},
         NEW s, s = ScopeOf(Key(y)),
         DOMAIN scopeIndex' = Scopes, \A t \in Scopes \ {s} : scopeIndex'[t] = scopeIndex[t],
         \A t \in Scopes \ {s} : HeldIn(entry', slipped', t) \subseteq HeldIn(entry, slipped, t),
         s \in Scopes => IsFiniteSet(Members(scopeIndex', s)),
         s \in Scopes => \A F \in SUBSET Requests :
           CapFor(req, Members(scopeIndex, s), HeldIn(entry, slipped, s), s, F) =>
             \E E \in SUBSET Requests : CapFor(req', Members(scopeIndex', s), HeldIn(entry', slipped', s), s, E)
  PROVE  CapInv'
<1>1. DOMAIN req = Requests /\ req'[r] = y /\ \A x \in Requests \ {r} : req'[x] = req[x] BY DEF FlowInv
<1>2. Counted(req') BY <1>1, CapParts DEF Counted
<1>3. ASSUME NEW t \in Scopes
      PROVE  /\ IsFiniteSet(Members(scopeIndex', t))
             /\ \E F \in SUBSET Requests : CapFor(req', Members(scopeIndex', t), HeldIn(entry', slipped', t), t, F)
  <2>1. PICK F \in SUBSET Requests : CapFor(req, Members(scopeIndex, t), HeldIn(entry, slipped, t), t, F) BY CapParts
  <2>2. IsFiniteSet(Members(scopeIndex, t)) BY CapParts
  <2>3. CASE t = s BY <2>1, <2>3
  <2>4. CASE t # s
    <3>1. Members(scopeIndex', t) = Members(scopeIndex, t) BY <2>4 DEF Members
    <3>2. \A x \in StoresIn(req, t) \cup StoresIn(req', t) : req'[x] = req[x] BY <2>4, <1>1 DEF StoresIn
    <3>3. HeldIn(entry', slipped', t) \subseteq HeldIn(entry, slipped, t) BY <2>4
    <3>4. PICK D, H, G, R, Q : /\ D = Members(scopeIndex, t) /\ H = HeldIn(entry, slipped, t)
                               /\ G = HeldIn(entry', slipped', t) /\ R = req /\ Q = req'
      OBVIOUS
    <3>5. CapFor(Q, D, G, t, F) BY <2>1, <3>2, <3>3, <3>4, CapStays
    <3> QED BY <2>2, <3>1, <3>4, <3>5
  <2> QED BY <2>3, <2>4
<1> QED BY <1>2, <1>3, CapAfter

\* A sweep, or a step of a request that stores nothing, moves none.
LEMMA NoScope ==
  ASSUME FlowInv, CapInv, UNCHANGED scopeIndex, Counted(req'),
         \A s \in Scopes : \A x \in StoresIn(req, s) \cup StoresIn(req', s) : req'[x] = req[x],
         \A s \in Scopes : HeldIn(entry', slipped', s) \subseteq HeldIn(entry, slipped, s)
  PROVE  CapInv'
<1>1. DOMAIN scopeIndex' = Scopes BY CapParts
<1>2. ASSUME NEW t \in Scopes
      PROVE  /\ IsFiniteSet(Members(scopeIndex', t))
             /\ \E F \in SUBSET Requests : CapFor(req', Members(scopeIndex', t), HeldIn(entry', slipped', t), t, F)
  <2>1. PICK F \in SUBSET Requests : CapFor(req, Members(scopeIndex, t), HeldIn(entry, slipped, t), t, F) BY CapParts
  <2>2. IsFiniteSet(Members(scopeIndex, t)) BY CapParts
  <2>3. PICK D, H, G, R, Q : /\ D = Members(scopeIndex, t) /\ H = HeldIn(entry, slipped, t)
                             /\ G = HeldIn(entry', slipped', t) /\ R = req /\ Q = req'
    OBVIOUS
  <2>4. CapFor(Q, D, G, t, F) BY <2>1, <2>3, CapStays
  <2> QED BY <2>2, <2>3, <2>4
<1> QED BY <1>1, <1>2, CapAfter

LEMMA BrowseKeepsCap ==
  ASSUME FlowInv, CapInv, NEW r \in Requests, NEW y, Browses(r, y)
  PROVE  CapInv'
<1>1. /\ req' = [req EXCEPT ![r] = y] /\ SoundRequest(y) /\ ~ req[r].complete /\ ~ y.complete
      /\ scopeIndex' = scopeIndex /\ slipped' = slipped
  BY DEF Browses
<1>2. DOMAIN req = Requests /\ req'[r] = y /\ \A x \in Requests \ {r} : req'[x] = req[x] BY <1>1 DEF FlowInv
<1>3. y.pc # "zrange" BY <1>1 DEF SoundRequest, Settling, Trimming
<1>4. Counted(req') BY <1>2, <1>3, CapParts DEF Counted
<1>5. \A s \in Scopes : \A x \in StoresIn(req, s) \cup StoresIn(req', s) : req'[x] = req[x] BY <1>1, <1>2 DEF StoresIn
<1>6. ASSUME NEW i \in Ids, entry'[i].val \in Requests PROVE entry[i].val \in Requests
  <2>1. CASE entry'[i] = [val |-> "hits", expires |-> Never] BY <1>6, <2>1, Constants
  <2> QED BY <1>6, <2>1 DEF Browses
<1>7. \A s : HeldIn(entry', slipped', s) \subseteq HeldIn(entry, slipped, s) BY <1>1, <1>6, HeldShrinks
<1> QED BY <1>1, <1>4, <1>5, <1>7, NoScope

LEMMA BeginKeepsCap ==
  ASSUME FlowInv, CapInv, NEW r \in Requests, NEW y, Begins(r, y)
  PROVE  CapInv'
<1>1. PICK k, s, x : k = Key(y) /\ s = ScopeOf(k) /\ x = req[r] OBVIOUS
<1>2. /\ req' = [req EXCEPT ![r] = y] /\ SoundRequest(y) /\ ~ x.complete /\ y.complete /\ y.pc = "expire" /\ Key(req[r]) = k
      /\ entry' = [entry EXCEPT ![k].val = r] /\ slipped' = slipped \ {k} /\ scopeIndex' = scopeIndex
  BY <1>1 DEF Begins
<1>3. k \in Ids BY <1>1, <1>2 DEF SoundRequest, Asked
<1>4. DOMAIN entry = Ids BY DEF FlowInv, KeysAreSound
<1>5. \A i \in Ids \ {k} : entry'[i] = entry[i] BY <1>2, <1>4
<1>6. /\ \A t \in Scopes \ {s} : HeldIn(entry', slipped', t) \subseteq HeldIn(entry, slipped, t)
      /\ HeldIn(entry', slipped', s) \subseteq HeldIn(entry, slipped, s) \cup {k}
  BY <1>1, <1>2, <1>5 DEF HeldIn
<1>7. Moves(req, req', r, x, y) BY <1>1, <1>2 DEF Moves, FlowInv
<1>8. ASSUME s \in Scopes, NEW F \in SUBSET Requests, CapFor(req, Members(scopeIndex, s), HeldIn(entry, slipped, s), s, F)
      PROVE  CapFor(req', Members(scopeIndex', s), HeldIn(entry', slipped', s), s, F)
  <2>1. PICK D, H, G, R, Q : /\ D = Members(scopeIndex, s) /\ H = HeldIn(entry, slipped, s)
                             /\ G = HeldIn(entry', slipped', s) /\ R = req /\ Q = req'
    OBVIOUS
  <2>2. Moves(R, Q, r, x, y) /\ CapFor(R, D, H, s, F) BY <2>1, <1>7, <1>8
  <2>3. G \subseteq H \cup {Key(y)} /\ ScopeOf(Key(y)) = s BY <2>1, <1>1, <1>6
  <2>4. CapFor(Q, D, G, s, F) BY <2>2, <2>3, <1>2, CapBegins
  <2> QED BY <2>1, <2>4, <1>2
<1>9. DOMAIN scopeIndex' = Scopes /\ (s \in Scopes => IsFiniteSet(Members(scopeIndex', s))) BY <1>2, CapParts
<1>10. /\ y.pc # "zrange" /\ s = ScopeOf(Key(y)) /\ Key(y) = Key(req[r])
       /\ \A t \in Scopes \ {s} : scopeIndex'[t] = scopeIndex[t]
  BY <1>1, <1>2
<1>11. s \in Scopes => \A F \in SUBSET Requests :
         CapFor(req, Members(scopeIndex, s), HeldIn(entry, slipped, s), s, F) =>
           \E E \in SUBSET Requests : CapFor(req', Members(scopeIndex', s), HeldIn(entry', slipped', s), s, E)
  BY <1>8
<1>12. \A t \in Scopes \ {s} : HeldIn(entry', slipped', t) \subseteq HeldIn(entry, slipped, t) BY <1>6
<1>13. req' = [req EXCEPT ![r] = y] /\ y.complete /\ SoundRequest(y) BY <1>2
<1> QED BY <1>9, <1>10, <1>11, <1>12, <1>13, OneScope

\* A step of a store that leaves the scope's index alone.
LEMMA PlainKeepsCap ==
  ASSUME FlowInv, CapInv, NEW r \in Requests, NEW x, x = req[r], NEW y, req' = [req EXCEPT ![r] = y], x.complete, y.complete,
         SoundRequest(y), Key(y) = Key(x), x.pc # "done", y.pc # "done" \/ y.failed,
         y.pc \in Writing => x.pc \in Writing, y.pc \in Settling => x.pc \in Settling,
         y.pc \in Trimming => x.pc \in Trimming /\ Agree(req, req', r),
         y.pc = "zrange" => y.n \in Nat \ {0},
         scopeIndex' = scopeIndex,
         \A s : HeldIn(entry', slipped', s) \subseteq HeldIn(entry, slipped, s)
  PROVE  CapInv'
<1>1. PICK s : s = ScopeOf(Key(y)) OBVIOUS
<1>2. Moves(req, req', r, x, y) BY DEF Moves, FlowInv
<1>3. ASSUME s \in Scopes, NEW F \in SUBSET Requests, CapFor(req, Members(scopeIndex, s), HeldIn(entry, slipped, s), s, F)
      PROVE  CapFor(req', Members(scopeIndex', s), HeldIn(entry', slipped', s), s, F)
  <2>1. PICK D, H, G, R, Q : /\ D = Members(scopeIndex, s) /\ H = HeldIn(entry, slipped, s)
                             /\ G = HeldIn(entry', slipped', s) /\ R = req /\ Q = req'
    OBVIOUS
  <2>2. G \subseteq H BY <2>1
  <2>3. ScopeOf(Key(x)) = s BY <1>1
  <2>4. CapFor(Q, D, G, s, F) BY <2>1, <2>2, <2>3, <1>2, <1>3, CapPlain
  <2> QED BY <2>1, <2>4
<1>4. DOMAIN scopeIndex' = Scopes /\ (s \in Scopes => IsFiniteSet(Members(scopeIndex', s))) BY CapParts
<1> QED BY <1>1, <1>3, <1>4, OneScope

LEMMA ExpireKeepsCap ==
  ASSUME FlowInv, CapInv, NEW r \in Requests, NEW y, Expires(r, y)
  PROVE  CapInv'
<1>1. PICK x, k, t : x = req[r] /\ k = Key(y) /\ t = y.expires OBVIOUS
<1>2. /\ req' = [req EXCEPT ![r] = y] /\ SoundRequest(y) /\ x.complete /\ y.complete /\ Key(y) = Key(x)
      /\ x.pc = "expire" /\ y.pc = "indexes" /\ scopeIndex' = scopeIndex /\ slipped' = slipped
      /\ entry' = [entry EXCEPT ![k] = lifetime(entry[k], t)]
  BY <1>1 DEF Expires, Keeps
<1>3. DOMAIN entry = Ids /\ \A i \in Ids : SoundEntry(i, entry[i]) BY DEF FlowInv, KeysAreSound
<1>4. \A i \in Ids : entry'[i].val = entry[i].val BY <1>2, <1>3 DEF SoundEntry, lifetime
<1>5. \A s : HeldIn(entry', slipped', s) \subseteq HeldIn(entry, slipped, s) BY <1>2, <1>4, HeldShrinks
<1>6. /\ x.pc \in Writing /\ x.pc # "done" /\ y.pc # "done" /\ y.pc \notin Settling /\ y.pc \notin Trimming /\ y.pc # "zrange"
  BY <1>2 DEF Writing, Settling, Trimming
<1> QED BY <1>1, <1>2, <1>5, <1>6, PlainKeepsCap

\* What a settling step says of its record.
LEMMA SettledFields ==
  ASSUME NEW r \in Requests, NEW y, Settles(r, y)
  PROVE  /\ req' = [req EXCEPT ![r] = y] /\ SoundRequest(y) /\ req[r].complete /\ y.complete /\ Key(y) = Key(req[r])
BY DEF Settles, Keeps

LEMMA IndexesKeepCap ==
  ASSUME FlowInv, CapInv, NEW r \in Requests, NEW n \in 0 .. 4, putIndexes(r, n)
  PROVE  CapInv'
<1>1. PICK y : /\ Settles(r, y) /\ entry' = entry /\ slipped' = slipped
               /\ y.pc = IF n = 4 THEN "zcard" ELSE "done"
               /\ n < 4 => y.failed
               /\ req[r].pc = "indexes"
  BY IndexesSettle
<1>2. PICK x, k, s : x = req[r] /\ k = Key(x) /\ s = ScopeOf(k) OBVIOUS
<1>3. /\ req' = [req EXCEPT ![r] = y] /\ SoundRequest(y) /\ x.complete /\ y.complete /\ Key(y) = Key(x)
  BY <1>1, <1>2, SettledFields
<1>4. \A t : HeldIn(entry', slipped', t) = HeldIn(entry, slipped, t) BY <1>1
<1>5. CASE n > 2
  <2>1. scopeIndex' = [scopeIndex EXCEPT ![s] = putScope(r)] /\ DOMAIN putScope(r) = DOMAIN scopeIndex[s] \cup {k}
    BY <1>2, <1>5 DEF putIndexes, putScope, zadd, KeyOf, Key
  <2>2. DOMAIN scopeIndex = Scopes BY CapParts
  <2>3. DOMAIN scopeIndex' = Scopes /\ \A t \in Scopes \ {s} : scopeIndex'[t] = scopeIndex[t] BY <2>1, <2>2
  <2>4. s \in Scopes => Members(scopeIndex', s) = Members(scopeIndex, s) \cup {k} BY <2>1, <2>2 DEF Members
  <2>5. s \in Scopes => IsFiniteSet(Members(scopeIndex, s)) BY CapParts
  <2>6. s \in Scopes => IsFiniteSet(Members(scopeIndex', s)) BY <2>4, <2>5, OneMore
  <2>7. Moves(req, req', r, x, y) BY <1>2, <1>3 DEF Moves, FlowInv
  <2>8. y.pc = "zcard" \/ (y.pc = "done" /\ y.failed) BY <1>1
  <2>9. ASSUME s \in Scopes, NEW F \in SUBSET Requests, CapFor(req, Members(scopeIndex, s), HeldIn(entry, slipped, s), s, F)
        PROVE  CapFor(req', Members(scopeIndex', s), HeldIn(entry', slipped', s), s, F \cup {r})
    <3>1. PICK D, H, R, Q : D = Members(scopeIndex, s) /\ H = HeldIn(entry, slipped, s) /\ R = req /\ Q = req' OBVIOUS
    <3>2. Moves(R, Q, r, x, y) /\ CapFor(R, D, H, s, F) /\ IsFiniteSet(D) BY <3>1, <2>5, <2>7, <2>9
    <3>3. Counted(R) BY <3>1, CapParts
    <3>4. x.pc = "indexes" /\ ScopeOf(Key(x)) = s BY <1>1, <1>2
    <3>5. CapFor(Q, D \cup {Key(x)}, H, s, F \cup {r}) BY <3>2, <3>3, <3>4, <2>8, <1>3, CapIndexed
    <3> QED BY <3>1, <3>5, <2>4, <2>9, <1>2, <1>4
  <2>10. s \in Scopes => \A F \in SUBSET Requests :
           CapFor(req, Members(scopeIndex, s), HeldIn(entry, slipped, s), s, F) =>
             \E E \in SUBSET Requests : CapFor(req', Members(scopeIndex', s), HeldIn(entry', slipped', s), s, E)
    <3>1. \A F \in SUBSET Requests : F \cup {r} \in SUBSET Requests OBVIOUS
    <3> QED BY <3>1, <2>9
  <2>11. y.pc # "zrange" /\ s = ScopeOf(Key(y)) /\ Key(y) = Key(req[r]) BY <2>8, <1>2, <1>3
  <2>12. \A t \in Scopes \ {s} : HeldIn(entry', slipped', t) \subseteq HeldIn(entry, slipped, t) BY <1>4
  <2> QED BY <2>3, <2>6, <2>10, <2>11, <2>12, <1>3, OneScope
<1>6. CASE ~ (n > 2)
  <2>1. scopeIndex' = scopeIndex BY <1>6 DEF putIndexes
  <2>2. x.pc = "indexes" /\ y.pc = "done" /\ y.failed BY <1>1, <1>2, <1>6
  <2>3. x.pc # "done" /\ y.pc \notin Writing /\ y.pc \notin Settling /\ y.pc \notin Trimming /\ y.pc # "zrange"
    BY <2>2 DEF Writing, Settling, Trimming
  <2>4. \A t : HeldIn(entry', slipped', t) \subseteq HeldIn(entry, slipped, t) BY <1>4
  <2> QED BY <2>1, <2>2, <2>3, <2>4, <1>2, <1>3, PlainKeepsCap
<1> QED BY <1>5, <1>6

LEMMA DegradeKeepsCap ==
  ASSUME FlowInv, CapInv, NEW r \in Requests, degrade(r)
  PROVE  CapInv'
<1>1. PICK y : Settles(r, y) /\ UNCHANGED <<entry, slipped, scopeIndex>> /\ y.pc = "done" /\ y.failed
  BY DegradeSettles
<1>2. PICK x : x = req[r] OBVIOUS
<1>3. /\ req' = [req EXCEPT ![r] = y] /\ SoundRequest(y) /\ x.complete /\ y.complete /\ Key(y) = Key(x)
  BY <1>1, <1>2, SettledFields
<1>4. x.pc # "done" BY <1>2 DEF degrade
<1>5. y.pc \notin Writing /\ y.pc \notin Settling /\ y.pc \notin Trimming /\ y.pc # "zrange"
  BY <1>1 DEF Writing, Settling, Trimming
<1>6. \A t : HeldIn(entry', slipped', t) \subseteq HeldIn(entry, slipped, t) BY <1>1
<1> QED BY <1>1, <1>2, <1>3, <1>4, <1>5, <1>6, PlainKeepsCap

\* Entries that are deleted leave every scope with no more.
LEMMA DeletionShrinks ==
  ASSUME NEW S, entry' = removed(S), slipped' = slipped \ S
  PROVE  \A t : HeldIn(entry', slipped', t) \subseteq HeldIn(entry, slipped, t)
<1>1. ASSUME NEW i \in Ids, entry'[i].val \in Requests PROVE entry[i].val \in Requests /\ (i \in slipped => i \in slipped')
  <2>1. i \notin S BY <1>1, Constants, NoEntryIsSound DEF removed
  <2> QED BY <1>1, <2>1 DEF removed
<1> QED BY <1>1, HeldShrinks

LEMMA DeleteKeepsCap ==
  ASSUME FlowInv, CapInv, NEW r \in Requests, trimDelete(r)
  PROVE  CapInv'
<1>1. PICK y : /\ Settles(r, y) /\ scopeIndex' = scopeIndex /\ req[r].pc = "del"
               /\ y.pc = "zrem" /\ y.drop = req[r].drop
               /\ entry' = removed(req[r].drop) /\ slipped' = slipped \ req[r].drop
  BY DeleteSettles
<1>2. PICK x : x = req[r] OBVIOUS
<1>3. /\ req' = [req EXCEPT ![r] = y] /\ SoundRequest(y) /\ x.complete /\ y.complete /\ Key(y) = Key(x)
  BY <1>1, <1>2, SettledFields
<1>4. /\ x.pc # "done" /\ y.pc # "done" /\ y.pc # "zrange" /\ y.pc \notin Writing /\ x.pc \in Settling /\ x.pc \in Trimming
  BY <1>1, <1>2 DEF Writing, Settling, Trimming
<1>5. \A t : HeldIn(entry', slipped', t) \subseteq HeldIn(entry, slipped, t)
  <2>1. PICK S : S = req[r].drop OBVIOUS
  <2> QED BY <2>1, <1>1, DeletionShrinks
<1>6. y.n = x.n
  <2>1. req'[r] = [x EXCEPT !.pc = "zrem"] BY <1>2 DEF trimDelete, step, FlowInv
  <2>2. req'[r] = y BY <1>3 DEF FlowInv
  <2>3. DOMAIN x = Fields BY <1>2 DEF FlowInv, SoundRequest
  <2> QED BY <2>1, <2>2, <2>3 DEF Fields
<1>7. Agree(req, req', r)
  <2>1. req'[r] = y BY <1>3 DEF FlowInv
  <2> QED BY <2>1, <1>1, <1>2, <1>6 DEF Agree
<1> QED BY <1>1, <1>2, <1>3, <1>4, <1>5, <1>7, PlainKeepsCap

\* A step within the trim that leaves the scope's index and its entries alone: given
\* what it does to the cap of its own scope.
LEMMA TrimKeepsCap ==
  ASSUME FlowInv, CapInv, NEW r \in Requests, NEW y, Settles(r, y), UNCHANGED <<entry, slipped, scopeIndex>>,
         y.pc = "zrange" => y.n \in Nat \ {0}, NEW s, s = ScopeOf(Key(req[r])),
         s \in Scopes => \A F \in SUBSET Requests :
           CapFor(req, Members(scopeIndex, s), HeldIn(entry, slipped, s), s, F) =>
             \E E \in SUBSET Requests : CapFor(req', Members(scopeIndex, s), HeldIn(entry, slipped, s), s, E)
  PROVE  CapInv'
<1>1. /\ req' = [req EXCEPT ![r] = y] /\ SoundRequest(y) /\ y.complete /\ Key(y) = Key(req[r]) /\ s = ScopeOf(Key(y))
  BY SettledFields
<1>2. DOMAIN scopeIndex' = Scopes /\ (s \in Scopes => IsFiniteSet(Members(scopeIndex', s))) BY CapParts
<1>3. /\ \A t \in Scopes \ {s} : scopeIndex'[t] = scopeIndex[t]
      /\ \A t \in Scopes \ {s} : HeldIn(entry', slipped', t) \subseteq HeldIn(entry, slipped, t)
      /\ Members(scopeIndex', s) = Members(scopeIndex, s) /\ HeldIn(entry', slipped', s) = HeldIn(entry, slipped, s)
  OBVIOUS
<1>4. s \in Scopes => \A F \in SUBSET Requests :
           CapFor(req, Members(scopeIndex, s), HeldIn(entry, slipped, s), s, F) =>
             \E E \in SUBSET Requests : CapFor(req', Members(scopeIndex', s), HeldIn(entry', slipped', s), s, E)
  BY <1>3
<1> QED BY <1>1, <1>2, <1>3, <1>4, OneScope

LEMMA ScopeOfStore ==
  ASSUME FlowInv, NEW r \in Requests, req[r].complete
  PROVE  ScopeOf(Key(req[r])) \in Scopes
<1>1. Asked(req[r]) BY DEF FlowInv, SoundRequest
<1> QED BY <1>1, PartsOfKey DEF Asked, Key

LEMMA CountKeepsCap ==
  ASSUME FlowInv, CapInv, NEW r \in Requests, trimCount(r)
  PROVE  CapInv'
<1>1. PICK x, s, n : x = req[r] /\ s = ScopeOf(Key(x)) /\ n = overflow(scopeIndex[s]) OBVIOUS
<1>2. PICK y : /\ Settles(r, y) /\ UNCHANGED <<entry, slipped, scopeIndex>> /\ x.pc = "zcard"
               /\ IF n = 0 THEN y.pc = "done" /\ ~ y.failed ELSE y.pc = "zrange" /\ y.n = n
  <2>1. KeyOf(r) = Key(x) BY <1>1 DEF KeyOf, Key
  <2> QED BY <2>1, <1>1, CountSettles
<1>3. /\ req' = [req EXCEPT ![r] = y] /\ SoundRequest(y) /\ x.complete /\ y.complete /\ Key(y) = Key(x)
  BY <1>1, <1>2, SettledFields
<1>4. s \in Scopes BY <1>1, <1>3, ScopeOfStore
<1>5. PICK D : D = Members(scopeIndex, s) OBVIOUS
<1>6. IsFiniteSet(D) /\ Cardinality(D) \in Nat BY <1>4, <1>5, CapParts, FS_CardinalityType
<1>7. n = IF Cardinality(D) > MaxScopeEntries THEN Cardinality(D) - MaxScopeEntries ELSE 0
  BY <1>1, <1>5 DEF overflow, Members
<1>8. Moves(req, req', r, x, y) BY <1>1, <1>3 DEF Moves, FlowInv
<1>9. y.pc = "zrange" => y.n \in Nat \ {0} BY <1>2, <1>6, <1>7, CapConstant
<1>10. ASSUME NEW F \in SUBSET Requests, CapFor(req, Members(scopeIndex, s), HeldIn(entry, slipped, s), s, F)
       PROVE  \E E \in SUBSET Requests : CapFor(req', Members(scopeIndex, s), HeldIn(entry, slipped, s), s, E)
  <2>1. PICK H, R, Q : H = HeldIn(entry, slipped, s) /\ R = req /\ Q = req' OBVIOUS
  <2>2. Moves(R, Q, r, x, y) /\ CapFor(R, D, H, s, F) BY <2>1, <1>5, <1>8, <1>10
  <2>3. CASE n = 0
    <3>1. Cardinality(D) <= MaxScopeEntries BY <2>3, <1>6, <1>7, CapConstant
    <3>2. F \ {r} \in SUBSET Requests BY <1>10
    <3>3. \A T : Trimmed(R, D, F \ {r}, T) BY <3>1, <3>2, <1>6, WithinCap
    <3>4. x.pc \in Settling /\ y.pc = "done" /\ ~ y.failed BY <1>2, <2>3 DEF Settling
    <3>5. CapFor(Q, D, H, s, F \ {r}) BY <2>2, <3>3, <3>4, <1>1, <1>3, CapLeaves
    <3> QED BY <2>1, <3>2, <3>5, <1>5
  <2>4. CASE n # 0
    <3>1. Cardinality(D) > MaxScopeEntries /\ y.n = Cardinality(D) - MaxScopeEntries BY <2>4, <1>2, <1>7
    <3>2. x.pc = "zcard" /\ y.pc = "zrange" BY <2>4, <1>2
    <3>3. CapFor(Q, D, H, s, F) BY <2>2, <3>1, <3>2, <1>1, <1>3, <1>6, CapCounts
    <3> QED BY <2>1, <3>3, <1>5
  <2> QED BY <2>3, <2>4
<1> QED BY <1>1, <1>2, <1>9, <1>10, TrimKeepsCap

LEMMA VictimsKeepCap ==
  ASSUME FlowInv, CapInv, NEW r \in Requests, trimVictims(r)
  PROVE  CapInv'
<1>1. PICK x, s, n : x = req[r] /\ s = ScopeOf(Key(x)) /\ n = req[r].n OBVIOUS
<1>2. PICK V \in zoldest(scopeIndex[s], n) : \E y :
               /\ Settles(r, y) /\ UNCHANGED <<entry, slipped, scopeIndex>> /\ x.pc = "zrange"
               /\ IF V = {} THEN y.pc = "done" /\ ~ y.failed ELSE y.pc = "del" /\ y.drop = V
  <2>1. KeyOf(r) = Key(x) BY <1>1 DEF KeyOf, Key
  <2> QED BY <2>1, <1>1, VictimsSettle
<1>3. PICK y : /\ Settles(r, y) /\ UNCHANGED <<entry, slipped, scopeIndex>> /\ x.pc = "zrange"
               /\ IF V = {} THEN y.pc = "done" /\ ~ y.failed ELSE y.pc = "del" /\ y.drop = V
  BY <1>2
<1>4. /\ req' = [req EXCEPT ![r] = y] /\ SoundRequest(y) /\ x.complete /\ y.complete /\ Key(y) = Key(x)
  BY <1>1, <1>3, SettledFields
<1>5. s \in Scopes BY <1>1, <1>4, ScopeOfStore
<1>6. PICK D : D = Members(scopeIndex, s) OBVIOUS
<1>7. IsFiniteSet(D) /\ Cardinality(D) \in Nat BY <1>5, <1>6, CapParts, FS_CardinalityType
<1>8. n \in Nat \ {0} /\ x.n = n BY <1>1, <1>3, CapParts DEF Counted
<1>9. V \subseteq D /\ Cardinality(V) = Min({n, Cardinality(D)}) BY <1>2, <1>6 DEF zoldest, Members
<1>10. Cardinality(V) = IF n <= Cardinality(D) THEN n ELSE Cardinality(D) BY <1>7, <1>8, <1>9, SmallerOfTwo
<1>11. Cardinality(V) = n \/ V = D BY <1>7, <1>9, <1>10, FS_Subset
<1>12. Moves(req, req', r, x, y) BY <1>1, <1>4 DEF Moves, FlowInv
<1>13. ASSUME NEW F \in SUBSET Requests, CapFor(req, Members(scopeIndex, s), HeldIn(entry, slipped, s), s, F)
       PROVE  \E E \in SUBSET Requests : CapFor(req', Members(scopeIndex, s), HeldIn(entry, slipped, s), s, E)
  <2>1. PICK H, R, Q : H = HeldIn(entry, slipped, s) /\ R = req /\ Q = req' OBVIOUS
  <2>2. Moves(R, Q, r, x, y) /\ CapFor(R, D, H, s, F) BY <2>1, <1>6, <1>12, <1>13
  <2>3. CASE V = {}
    <3>1. Cardinality(V) = 0 BY <2>3, FS_EmptySet
    <3>2. Cardinality(D) <= MaxScopeEntries BY <3>1, <1>7, <1>8, <1>10, CapConstant
    <3>3. F \ {r} \in SUBSET Requests BY <1>13
    <3>4. \A T : Trimmed(R, D, F \ {r}, T) BY <3>2, <3>3, <1>7, WithinCap
    <3>5. x.pc \in Settling /\ y.pc = "done" /\ ~ y.failed BY <1>3, <2>3 DEF Settling, Trimming
    <3>6. CapFor(Q, D, H, s, F \ {r}) BY <2>2, <3>4, <3>5, <1>1, <1>4, CapLeaves
    <3> QED BY <2>1, <3>3, <3>6, <1>6
  <2>4. CASE V # {}
    <3>1. x.pc = "zrange" /\ y.pc = "del" /\ y.drop = V BY <2>4, <1>3
    <3>2. V \in SUBSET D /\ (Cardinality(V) = x.n \/ V = D) /\ x.n \in Nat BY <1>8, <1>9, <1>11
    <3>3. CapFor(Q, D, H, s, F) BY <2>2, <3>1, <3>2, <1>1, <1>4, <1>7, CapVictims
    <3> QED BY <2>1, <3>3, <1>6
  <2> QED BY <2>3, <2>4
<1>14. y.pc # "zrange" BY <1>3
<1> QED BY <1>1, <1>3, <1>13, <1>14, TrimKeepsCap

LEMMA ForgetKeepsCap ==
  ASSUME FlowInv, CapInv, NEW r \in Requests, trimForget(r)
  PROVE  CapInv'
<1>1. PICK x, s, V : x = req[r] /\ s = ScopeOf(Key(x)) /\ V = x.drop OBVIOUS
<1>2. PICK y : /\ Settles(r, y) /\ entry' = entry /\ x.pc = "zrem" /\ y.pc = "done" /\ ~ y.failed
               /\ scopeIndex' = [scopeIndex EXCEPT ![s] = zrem(scopeIndex[s], V)]
               /\ slipped' = slipped \cup {i \in V : entry[i].val # None}
  <2>1. KeyOf(r) = Key(x) BY <1>1 DEF KeyOf, Key
  <2> QED BY <2>1, <1>1, ForgetSettles
<1>3. /\ req' = [req EXCEPT ![r] = y] /\ SoundRequest(y) /\ x.complete /\ y.complete /\ Key(y) = Key(x)
  BY <1>1, <1>2, SettledFields
<1>4. s \in Scopes BY <1>1, <1>3, ScopeOfStore
<1>5. DOMAIN scopeIndex = Scopes BY CapParts
<1>6. PICK D, H : D = Members(scopeIndex, s) /\ H = HeldIn(entry, slipped, s) OBVIOUS
<1>7. IsFiniteSet(D) BY <1>4, <1>6, CapParts
<1>8. DOMAIN scopeIndex' = Scopes /\ Members(scopeIndex', s) = D \ V /\ \A t \in Scopes \ {s} : scopeIndex'[t] = scopeIndex[t]
  BY <1>2, <1>4, <1>5, <1>6 DEF Members, zrem
<1>9. \A t : HeldIn(entry', slipped', t) \subseteq HeldIn(entry, slipped, t) BY <1>2, HeldShrinks
<1>10. HeldIn(entry', slipped', s) \subseteq H \ V BY <1>2, <1>6, Constants DEF HeldIn
<1>11. PICK G : G = HeldIn(entry', slipped', s) OBVIOUS
<1>12. IsFiniteSet(D \ V) BY <1>7, FS_Subset
<1>13. Moves(req, req', r, x, y) BY <1>1, <1>3 DEF Moves, FlowInv
<1>14. ASSUME NEW F \in SUBSET Requests, CapFor(req, D, H, s, F)
       PROVE  \E E \in SUBSET Requests : CapFor(req', D \ V, G, s, E)
  <2>1. PICK R, Q : R = req /\ Q = req' OBVIOUS
  <2>2. Moves(R, Q, r, x, y) /\ CapFor(R, D, H, s, F) /\ Counted(R) BY <2>1, <1>13, <1>14, CapParts
  <2>3. x.pc \in Settling /\ x.pc \in Trimming BY <1>2 DEF Settling, Trimming
  <2>4. r \in TrimmersIn(R, s) /\ R[r].pc = "zrem" /\ R[r].drop = V
    BY <2>1, <2>3, <1>1, <1>2, <1>3 DEF TrimmersIn, StoresIn
  <2>5. \A T \in SUBSET (TrimmersIn(R, s) \ {r}) : Trimmed(R, D \ V, F \ {r}, T) BY <2>2, <2>4, <1>7, CapForgets
  <2>6. G \subseteq H /\ D \cap G \subseteq D \ V BY <1>10, <1>11
  <2>7. CapFor(Q, D \ V, G, s, F \ {r}) BY <2>2, <2>3, <2>5, <2>6, <1>1, <1>2, <1>3, CapLeaves
  <2>8. F \ {r} \in SUBSET Requests BY <1>14
  <2> QED BY <2>1, <2>7, <2>8
<1>15. \A F \in SUBSET Requests :
         CapFor(req, Members(scopeIndex, s), HeldIn(entry, slipped, s), s, F) =>
           \E E \in SUBSET Requests : CapFor(req', Members(scopeIndex', s), HeldIn(entry', slipped', s), s, E)
  BY <1>6, <1>8, <1>11, <1>14
<1>16. IsFiniteSet(Members(scopeIndex', s)) BY <1>8, <1>12
<1>17. y.pc # "zrange" /\ s = ScopeOf(Key(y)) /\ Key(y) = Key(req[r]) BY <1>1, <1>2, <1>3
<1> QED BY <1>3, <1>8, <1>9, <1>15, <1>16, <1>17, OneScope

LEMMA StoreKeepsCap ==
  ASSUME FlowInv, CapInv, NEW r \in Requests, Store(r)
  PROVE  CapInv'
<1>1. Outcomes \subseteq BOOLEAN BY DEF Outcomes
<1>2. CASE Is(r, "miss") /\ \E resp \in Responses, h \in Headers, ok \in Outcomes : storeInCache(r, resp, h, ok)
  BY <1>1, <1>2, StoreBegins, BeginKeepsCap, BrowseKeepsCap
<1>3. CASE putExpire(r) BY <1>3, StoreExpires, ExpireKeepsCap
<1>4. CASE Is(r, "indexes") /\ \E n \in 0 .. 4 : putIndexes(r, n) BY <1>4, IndexesKeepCap
<1>5. CASE trimCount(r) BY <1>5, CountKeepsCap
<1>6. CASE trimVictims(r) BY <1>6, VictimsKeepCap
<1>7. CASE trimDelete(r) BY <1>7, DeleteKeepsCap
<1>8. CASE trimForget(r) BY <1>8, ForgetKeepsCap
<1>9. CASE degrade(r) BY <1>9, DegradeKeepsCap
<1> QED BY <1>2, <1>3, <1>4, <1>5, <1>6, <1>7, <1>8, <1>9 DEF Store

\* Steps that leave the requests and the scopes' indexes alone.
LEMMA CalmKeepsCap ==
  ASSUME FlowInv, CapInv, UNCHANGED <<req, scopeIndex>>,
         \A s : HeldIn(entry', slipped', s) \subseteq HeldIn(entry, slipped, s)
  PROVE  CapInv'
<1>1. Counted(req') BY CapParts
<1> QED BY <1>1, NoScope

LEMMA DeleteKeysKeepsCap ==
  ASSUME FlowInv, CapInv, deleteKeys
  PROVE  CapInv'
<1>1. PICK S : S = purge.keys.scope OBVIOUS
<1>2. /\ scopeIndex' = [s \in Scopes |-> IF s \in S THEN Empty ELSE scopeIndex[s]] /\ req' = req /\ entry' = entry
      /\ slipped' = slipped \cup {i \in Ids : ScopeOf(i) \in S /\ entry[i].val # None}
  BY <1>1 DEF deleteKeys
<1>3. DOMAIN scopeIndex' = Scopes /\ Counted(req') BY <1>2, CapParts
<1>4. ASSUME NEW s \in Scopes
      PROVE  /\ IsFiniteSet(Members(scopeIndex', s))
             /\ \E F \in SUBSET Requests : CapFor(req', Members(scopeIndex', s), HeldIn(entry', slipped', s), s, F)
  <2>1. PICK F \in SUBSET Requests : CapFor(req, Members(scopeIndex, s), HeldIn(entry, slipped, s), s, F) BY CapParts
  <2>2. IsFiniteSet(Members(scopeIndex, s)) BY CapParts
  <2>3. PICK D, H, G, R : /\ D = Members(scopeIndex, s) /\ H = HeldIn(entry, slipped, s)
                          /\ G = HeldIn(entry', slipped', s) /\ R = req
    OBVIOUS
  <2>4. CASE s \in S
    <3>1. Members(scopeIndex', s) = {} BY <1>2, <2>4 DEF Members, Empty
    <3>2. G = {} BY <2>3, <2>4, <1>2, Constants DEF HeldIn
    <3>3. CapFor(R, {}, {}, s, F) BY <2>1, <2>3, CapEmptied
    <3> QED BY <3>1, <3>2, <3>3, <2>3, <1>2, FS_EmptySet
  <2>5. CASE s \notin S
    <3>1. Members(scopeIndex', s) = D BY <1>2, <2>3, <2>5 DEF Members
    <3>2. G \subseteq H BY <1>2, <2>3 DEF HeldIn
    <3>3. CapFor(R, D, G, s, F) BY <2>1, <2>3, <3>2, CapStays
    <3> QED BY <3>1, <3>3, <2>2, <2>3, <1>2
  <2> QED BY <2>4, <2>5
<1> QED BY <1>3, <1>4, CapAfter

LEMMA CapIsKept ==
  ASSUME FlowInv, CapInv, [Next]_vars
  PROVE  CapInv'
<1>1. CASE \E r \in Requests : Lookup(r) \/ Store(r) BY <1>1, LookupBrowses, BrowseKeepsCap, StoreKeepsCap
<1>2. ASSUME UNCHANGED <<req, scopeIndex, entry, slipped>> PROVE CapInv' BY <1>2, CalmKeepsCap
<1>3. CASE (\E t \in PurgedTeams : PurgeTeam(t)) \/ (\E i \in PurgedIds : PurgePrefix(i))
  BY <1>2, <1>3 DEF PurgeTeam, PurgePrefix, calm, redis, history
<1>4. CASE PurgeAll \/ scanKeys \/ purgeFails
  BY <1>2, <1>4 DEF PurgeAll, scanKeys, purgeFails, calm, redis, history
<1>5. CASE UNCHANGED vars BY <1>2, <1>5 DEF vars, redis, history
<1>6. CASE deleteEntries
  <2>1. PICK S : S = purge.ids OBVIOUS
  <2>2. entry' = removed(S) /\ slipped' = slipped \ S /\ UNCHANGED <<req, scopeIndex>> BY <2>1, <1>6 DEF deleteEntries
  <2> QED BY <2>2, DeletionShrinks, CalmKeepsCap
<1>7. CASE Tick
  <2>1. PICK S : S = {i \in Ids : entry[i].expires <= now + 1} OBVIOUS
  <2>2. entry' = removed(S) /\ slipped' = slipped \ S /\ UNCHANGED <<req, scopeIndex>> BY <2>1, <1>7 DEF Tick
  <2> QED BY <2>2, DeletionShrinks, CalmKeepsCap
<1>8. CASE deleteKeys BY <1>8, DeleteKeysKeepsCap
<1> QED BY <1>1, <1>3, <1>4, <1>5, <1>6, <1>7, <1>8 DEF Next

LEMMA StartCapped ==
  ASSUME Init
  PROVE  CapInv
<1>1. PICK w : w = EntryID(WarmAsk[1], WarmAsk[2]) OBVIOUS
<1>2. /\ w \in Ids /\ Warm \in Requests /\ req[Warm].pc = "done" /\ Key(req[Warm]) = w
      /\ \A r \in Requests \ {Warm} : req[r] = Fresh
      /\ DOMAIN entry = Ids /\ \A i \in Ids \ {w} : entry[i] = NoEntry
  BY <1>1, Start
<1>3. scopeIndex = [s \in Scopes |-> IF s = ScopeOf(w) THEN zadd(Empty, w, 1) ELSE Empty] BY <1>1 DEF Init
<1>4. DOMAIN zadd(Empty, w, 1) = {w} /\ DOMAIN Empty = {} BY DEF zadd, Empty
<1>5. Counted(req) BY <1>2, FreshIsSound DEF Counted
<1>6. \A s : \A r \in StoresIn(req, s) : r = Warm /\ req[r].pc = "done" BY <1>2, FreshIsSound DEF StoresIn
<1>7. ASSUME NEW s \in Scopes
      PROVE  /\ IsFiniteSet(Members(scopeIndex, s))
             /\ CapFor(req, Members(scopeIndex, s), HeldIn(entry, slipped, s), s, {})
  <2>1. PICK D, H, R : D = Members(scopeIndex, s) /\ H = HeldIn(entry, slipped, s) /\ R = req OBVIOUS
  <2>2. D = IF s = ScopeOf(w) THEN {w} ELSE {} BY <2>1, <1>3, <1>4 DEF Members
  <2>3. IsFiniteSet(D) /\ Cardinality(D) <= MaxScopeEntries
    <3>1. IsFiniteSet({w}) /\ Cardinality({w}) = 1 BY FS_Singleton
    <3>2. IsFiniteSet({}) /\ Cardinality({}) = 0 BY FS_EmptySet
    <3>3. 1 <= MaxScopeEntries /\ 0 <= MaxScopeEntries BY Constants
    <3>4. CASE s = ScopeOf(w) BY <2>2, <3>1, <3>3, <3>4
    <3>5. CASE s # ScopeOf(w) BY <2>2, <3>2, <3>3, <3>5
    <3> QED BY <3>4, <3>5
  <2>4. H \subseteq D BY <2>1, <2>2, <1>2, Constants, NoEntryIsSound DEF HeldIn
  <2>5. \A T : Trimmed(R, D, {}, T) BY <2>3, WithinCap
  <2>6. \A r \in StoresIn(R, s) : R[r].pc \notin Settling BY <2>1, <1>6 DEF Settling, Trimming
  <2>7. CapFor(R, D, H, s, {}) BY <2>4, <2>5, <2>6 DEF CapFor
  <2> QED BY <2>1, <2>3, <2>7
<1>8. DOMAIN scopeIndex = Scopes BY <1>3
<1> QED BY <1>5, <1>7, <1>8, CapParts

\* What the invariant says of the cap.
LEMMA CapIsBounded ==
  ASSUME CapInv
  PROVE  CapIsSoft
<1> SUFFICES ASSUME NEW s \in Scopes
             PROVE  Cardinality(HeldIn(entry, slipped, s)) <= MaxScopeEntries + Cardinality(OverIn(req, s))
  BY DEF CapIsSoft, HeldIn, OverIn, StoresIn, Answer, KeyOf, Key
<1>1. PICK F \in SUBSET Requests : CapFor(req, Members(scopeIndex, s), HeldIn(entry, slipped, s), s, F) BY CapParts
<1>2. IsFiniteSet(Members(scopeIndex, s)) BY CapParts
<1> QED BY <1>1, <1>2, CapBounds

\* A scope holds at most its cap and what the stores under way or failed have added, but
\* for entries stored again under a trim or purge, however many trims of the scope
\* interleave and wherever they are cut.
THEOREM ScopesStayNearCap == Spec => []CapIsSoft
<1>1. Init => FlowInv /\ CapInv BY StartFlows, StartCapped
<1>2. FlowInv /\ CapInv /\ [Next]_vars => (FlowInv /\ CapInv)' BY FlowIsKept, CapIsKept
<1>3. FlowInv /\ CapInv => CapIsSoft BY CapIsBounded
<1> QED BY <1>1, <1>2, <1>3, PTL DEF Spec

=============================================================================
