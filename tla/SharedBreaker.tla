--------------------------- MODULE SharedBreaker ---------------------------
(***************************************************************************)
(* The breaker of one provider+model in every replica of the gateway,      *)
(* sharing its verdict through Redis (breaker.go with a BreakerStore, and  *)
(* breaker_store.go).                                                      *)
(*                                                                         *)
(* A request c runs on replica Home[c].  Each of its steps is one critical *)
(* section (b.mu or cacheMu) or one Redis command, and pc names the next   *)
(* one; the steps of different requests interleave.  A Redis command may   *)
(* fail MaxFaults times in a behaviour: "lost" did not reach Redis, "late" *)
(* took effect but the caller saw only its timeout.                        *)
(*                                                                         *)
(* A unit of time is longer than a critical section and a Redis round trip *)
(* (redisTimeout is 50ms, StateCacheTTL 500ms): the clock advances only    *)
(* while no request is between two of those steps.  Provider calls last    *)
(* any time.                                                               *)
(***************************************************************************)
EXTENDS Breaker, FiniteSets

CONSTANTS
  Replicas,
  Calls,           \* the requests that may be in flight at once
  Home,            \* Home[c]: the replica that serves c
  StateCacheTTL,   \* how long a read of the shared state is reused
  StateTTLSlack,   \* how long an episode's key outlives its cooldown
  MaxFaults,       \* Redis commands that fail in a behaviour
  MaxResets        \* operator resets in a behaviour

ASSUME SharedAssumption ==
  /\ Replicas # {} /\ Calls # {}
  /\ Home \in [Calls -> Replicas]
  /\ StateCacheTTL \in Nat \ {0}
  /\ StateTTLSlack \in Nat \ {0}
  /\ MaxFaults \in Nat /\ MaxResets \in Nat

VARIABLES
  br,       \* br[r]: the Breaker of replica r
  cache,    \* cache[r]: its cached, cachedOK and cachedAt (time left before a refresh)
  redis,    \* the state key and the probe key
  call,     \* call[c]: where request c is, and what it has read
  faults,   \* Redis failures left
  resets,   \* operator resets left
  failing,  \* provider calls may still fail
  holder,   \* history: the running request that took the probe key, as a set
  stray,    \* history: a probe key was deleted by a request that did not hold it
  forced,   \* history: replicas a Reset told "closed" while Redis holds an episode
  episodeAge \* history: time since the current episode was published

vars == <<br, cache, redis, call, faults, resets, failing, holder, stray, forced, episodeAge>>

SharedState == [state : States, reopens : 0 .. ReopensBound, successes : 0 .. SuccessThreshold]
Shared(s, r, n) == [state |-> s, reopens |-> r, successes |-> n]
NoShared == Shared(Closed, 0, 0)

Steps == {"idle", "read", "mirror", "claim", "local", "running",
          "pubSuccess", "installSuccess", "mirrorSuccess",
          "pubOpen", "installOpen", "published", "unpublish", "invalidate",
          "resetStore", "resetInstall", "resetLocal"}

\* probe: how the running call was admitted; s, cooldown: what it carries to
\* its next step.
CallType == [pc : Steps, probe : {"none", "local", "shared"}, age : 0 .. ProbeTimeout,
             s : SharedState, cooldown : 0 .. CooldownMax]
Idle == [pc |-> "idle", probe |-> "none", age |-> 0, s |-> NoShared, cooldown |-> 0]

RedisType == [ttl : 0 .. CooldownMax + StateTTLSlack, until : 0 .. CooldownMax,
              reopens : 0 .. ReopensBound, successes : 0 .. SuccessThreshold,
              probe : 0 .. ProbeTimeout]
NoKeys == [ttl |-> 0, until |-> 0, reopens |-> 0, successes |-> 0, probe |-> 0]

TypeOK ==
  /\ br \in [Replicas -> BreakerType]
  /\ cache \in [Replicas -> [shared : SharedState, ok : BOOLEAN, left : 0 .. StateCacheTTL]]
  /\ redis \in RedisType
  /\ call \in [Calls -> CallType]
  /\ faults \in 0 .. MaxFaults
  /\ resets \in 0 .. MaxResets
  /\ failing \in BOOLEAN
  /\ holder \in SUBSET Calls
  /\ stray \in BOOLEAN
  /\ forced \in SUBSET Replicas
  /\ episodeAge \in 0 .. StateCacheTTL + 1

Init ==
  /\ br = [r \in Replicas |-> NewBreaker]
  /\ cache = [r \in Replicas |-> [shared |-> NoShared, ok |-> FALSE, left |-> 0]]
  /\ redis = NoKeys
  /\ call = [c \in Calls |-> Idle]
  /\ faults = MaxFaults
  /\ resets = MaxResets
  /\ failing = TRUE
  /\ holder = {}
  /\ stray = FALSE
  /\ forced = {}
  /\ episodeAge = 0

-----------------------------------------------------------------------------
(* The Redis scripts.  A state key with ttl 0 does not exist.              *)

loadScript ==
  IF redis.ttl = 0 THEN NoShared
  ELSE Shared(IF redis.until > 0 THEN Open ELSE HalfOpen, redis.reopens, redis.successes)

openScript(cooldown, reopens) ==
  [ttl |-> cooldown + StateTTLSlack, until |-> cooldown,
   reopens |-> reopens, successes |-> 0, probe |-> 0]

probeSuccessScript ==
  IF redis.ttl = 0 \/ redis.successes + 1 >= SuccessThreshold THEN NoKeys
  ELSE [redis EXCEPT !.successes = @ + 1, !.probe = 0]

\* The two-element reply leaves Reopens zero.
probeSuccessReply ==
  IF redis.ttl = 0 THEN NoShared
  ELSE Shared(IF redis.successes + 1 >= SuccessThreshold THEN Closed ELSE HalfOpen,
              0, redis.successes + 1)

\* Mutant of claimProbeCommand: the lock expires before the probe times out.
claimProbeCommandShort ==
  IF redis.probe = 0 THEN [redis EXCEPT !.probe = ProbeTimeout - 1] ELSE redis

\* SET NX PX.
claimProbeCommand ==
  IF redis.probe = 0 THEN [redis EXCEPT !.probe = ProbeTimeout] ELSE redis

\* How a Redis command may end: whether it took effect, whether the caller
\* sees its reply.
Outcomes == {"ok"} \cup (IF faults > 0 THEN {"lost", "late"} ELSE {})
Command(out, effect) ==
  /\ redis' = IF out = "lost" THEN redis ELSE effect
  /\ faults' = IF out = "ok" THEN faults ELSE faults - 1
  /\ episodeAge' = IF redis'.ttl = 0 \/ redis.ttl = 0 THEN 0 ELSE episodeAge

\* History of a command of c that deletes the probe key.
DeletesProbe(c, out) ==
  /\ stray' = (stray \/ (out # "lost" /\ redis.probe > 0 /\ c \notin holder))
  /\ holder' = IF out = "lost" THEN holder ELSE {}

-----------------------------------------------------------------------------
At(c, step) == call[c].pc = step
Goto(c, step) == call' = [call EXCEPT ![c].pc = step]
Done(c) == call' = [call EXCEPT ![c] = Idle]
Admit(c, how) == call' = [call EXCEPT ![c] = [Idle EXCEPT !.pc = "running", !.probe = how]]
usesStore(r) == ~ br[r].unpublished
installShared(r, s) ==
  cache' = [cache EXCEPT ![r] = [shared |-> s, ok |-> TRUE, left |-> StateCacheTTL]]

\* Allow, first section: is the shared path in play?
AllowEnter(c) ==
  /\ At(c, "idle")
  /\ Goto(c, IF usesStore(Home[c]) THEN "read" ELSE "local")
  /\ UNCHANGED <<br, cache, redis, faults, resets, failing, holder, stray, forced, episodeAge>>

\* Mutant of ReadCached: the cache is used whatever its age.
ReadCachedForever(c) ==
  LET r == Home[c]
  IN  /\ At(c, "read")
      /\ call' = [call EXCEPT ![c].pc = IF cache[r].ok THEN "mirror" ELSE "local",
                              ![c].s = cache[r].shared]
      /\ UNCHANGED <<br, cache, redis, faults, resets, failing, holder, stray, forced, episodeAge>>

\* sharedState with a fresh cache.
ReadCached(c) ==
  LET r == Home[c]
  IN  /\ At(c, "read")
      /\ cache[r].left > 0
      /\ call' = [call EXCEPT ![c].pc = IF cache[r].ok THEN "mirror" ELSE "local",
                              ![c].s = cache[r].shared]
      /\ UNCHANGED <<br, cache, redis, faults, resets, failing, holder, stray, forced, episodeAge>>

\* sharedState with a stale cache: a Load, whose failure is cached as well.
ReadStore(c) ==
  LET r == Home[c]
  IN  /\ At(c, "read")
      /\ cache[r].left = 0
      /\ \E out \in Outcomes \ {"late"} :
           LET s == IF out = "ok" THEN loadScript ELSE NoShared
           IN  /\ Command(out, redis)
               /\ cache' = [cache EXCEPT ![r] = [shared |-> s, ok |-> (out = "ok"),
                                                 left |-> StateCacheTTL]]
               /\ call' = [call EXCEPT ![c].pc = IF out = "ok" THEN "mirror" ELSE "local",
                                       ![c].s = s]
      /\ forced' = forced \ {r}
      /\ UNCHANGED <<br, resets, failing, holder, stray>>

\* allowShared: the fleet's verdict replaces the local state.
mirrorShared(b, s) ==
  [IF s.state # b.state THEN setState(b, s.state) ELSE b
     EXCEPT !.reopens = s.reopens, !.successStreak = s.successes]

AllowShared(c) ==
  LET r == Home[c]
      s == call[c].s
  IN  /\ At(c, "mirror")
      /\ br' = [br EXCEPT ![r] = mirrorShared(@, s)]
      /\ \/ s.state = Closed /\ Admit(c, "none")
         \/ s.state = HalfOpen /\ Goto(c, "claim")
         \/ s.state = Open /\ Done(c)
      /\ UNCHANGED <<cache, redis, faults, resets, failing, holder, stray, forced, episodeAge>>

\* claimSharedProbe: an error counts as "slot taken".
ClaimSharedProbe(c) ==
  /\ At(c, "claim")
  /\ \E out \in Outcomes :
       /\ Command(out, claimProbeCommand)
       /\ IF out = "ok" /\ redis.probe = 0
          THEN /\ Admit(c, "shared")
               /\ holder' = {c}
          ELSE /\ Done(c)
               /\ UNCHANGED holder
  /\ stray' = (stray /\ \E d \in Calls \ {c} : At(d, "running") /\ call[d].probe = "shared")
  /\ UNCHANGED <<br, cache, resets, failing, forced>>

\* allowLocal: this replica's own state machine.
AllowLocal(c) ==
  LET r == Home[c]
      half == afterCooldown(br[r])
  IN  /\ At(c, "local")
      /\ \/ /\ half.state = Closed
            /\ Admit(c, "none")
            /\ UNCHANGED br
         \/ /\ half.state = HalfOpen /\ probeAvailable(half)
            /\ br' = [br EXCEPT ![r] = claimProbe(half)]
            /\ Admit(c, "local")
         \/ /\ half.state = HalfOpen /\ ~ probeAvailable(half)
            /\ Done(c)
            /\ UNCHANGED br
         \/ /\ half.state = Open
            /\ Done(c)
            /\ UNCHANGED br
      /\ UNCHANGED <<cache, redis, faults, resets, failing, holder, stray, forced, episodeAge>>

-----------------------------------------------------------------------------
\* RecordSuccess under b.mu: only a half-open breaker has anything to do, and
\* with a store the streak is counted there.
RecordSuccess(c) ==
  LET r == Home[c]
      released == releaseProbe(br[r])
  IN  /\ At(c, "running")
      /\ \/ /\ br[r].state # HalfOpen
            /\ br' = [br EXCEPT ![r] = released]
            /\ Done(c)
         \/ /\ br[r].state = HalfOpen /\ usesStore(r)
            /\ br' = [br EXCEPT ![r] = released]
            /\ Goto(c, "pubSuccess")
         \/ /\ br[r].state = HalfOpen /\ ~ usesStore(r)
            /\ br' = [br EXCEPT ![r] = countSuccess(released)]
            /\ Done(c)
      /\ UNCHANGED <<cache, redis, faults, resets, failing, holder, stray, forced, episodeAge>>

\* publishProbeSuccess: the script, then installShared, then the mirror.
PublishProbeSuccess(c) ==
  /\ At(c, "pubSuccess")
  /\ \E out \in Outcomes :
       /\ Command(out, probeSuccessScript)
       /\ DeletesProbe(c, out)
       /\ call' = [call EXCEPT
                     ![c].pc = IF out = "ok" THEN "installSuccess" ELSE "invalidate",
                     ![c].s = IF out = "ok" THEN probeSuccessReply ELSE NoShared]
  /\ UNCHANGED <<br, cache, resets, failing, forced>>

InstallProbeSuccess(c) ==
  /\ At(c, "installSuccess")
  /\ installShared(Home[c], call[c].s)
  /\ Goto(c, "mirrorSuccess")
  /\ UNCHANGED <<br, redis, faults, resets, failing, holder, stray, forced, episodeAge>>

mirrorSuccess(b, s) ==
  LET streak == [b EXCEPT !.successStreak = s.successes]
      moved == IF s.state # b.state THEN setState(streak, s.state) ELSE streak
  IN  IF s.state = Closed
      THEN [moved EXCEPT !.reopens = 0, !.cooldown = CooldownBase, !.unpublished = FALSE]
      ELSE moved

MirrorProbeSuccess(c) ==
  /\ At(c, "mirrorSuccess")
  /\ br' = [br EXCEPT ![Home[c]] = mirrorSuccess(@, call[c].s)]
  /\ Done(c)
  /\ UNCHANGED <<cache, redis, faults, resets, failing, holder, stray, forced, episodeAge>>

\* RecordFailure under b.mu.
RecordFailure(c) ==
  LET r == Home[c]
      after == countFailure(br[r])
  IN  /\ At(c, "running")
      /\ failing
      /\ br' = [br EXCEPT ![r] = after]
      /\ IF opensOnFailure(br[r]) /\ usesStore(r)
         THEN call' = [call EXCEPT ![c].pc = "pubOpen", ![c].cooldown = after.cooldown,
                                   ![c].s = Shared(Open, after.reopens, 0)]
         ELSE Done(c)
      /\ UNCHANGED <<cache, redis, faults, resets, failing, holder, stray, forced, episodeAge>>

\* publishOpen: the script, then installShared and unpublished := false, or
\* unpublished := true and invalidateShared.
PublishOpen(c) ==
  /\ At(c, "pubOpen")
  /\ \E out \in Outcomes :
       /\ Command(out, openScript(call[c].cooldown, call[c].s.reopens))
       /\ DeletesProbe(c, out)
       /\ Goto(c, IF out = "ok" THEN "installOpen" ELSE "unpublish")
  /\ UNCHANGED <<br, cache, resets, failing, forced>>

InstallOpen(c) ==
  /\ At(c, "installOpen")
  /\ installShared(Home[c], call[c].s)
  /\ Goto(c, "published")
  /\ UNCHANGED <<br, redis, faults, resets, failing, holder, stray, forced, episodeAge>>

MarkPublished(c) ==
  /\ At(c, "published")
  /\ br' = [br EXCEPT ![Home[c]].unpublished = FALSE]
  /\ Done(c)
  /\ UNCHANGED <<cache, redis, faults, resets, failing, holder, stray, forced, episodeAge>>

MarkUnpublished(c) ==
  /\ At(c, "unpublish")
  /\ br' = [br EXCEPT ![Home[c]].unpublished = TRUE]
  /\ Goto(c, "invalidate")
  /\ UNCHANGED <<cache, redis, faults, resets, failing, holder, stray, forced, episodeAge>>

InvalidateShared(c) ==
  /\ At(c, "invalidate")
  /\ cache' = [cache EXCEPT ![Home[c]].left = 0]
  /\ Done(c)
  /\ UNCHANGED <<br, redis, faults, resets, failing, holder, stray, forced, episodeAge>>

\* runChain skips an admitted candidate on budget and never reports it.
Abandon(c) ==
  /\ At(c, "running")
  /\ failing
  /\ Done(c)
  /\ UNCHANGED <<br, cache, redis, faults, resets, failing, holder, stray, forced, episodeAge>>

-----------------------------------------------------------------------------
\* Reset through the admin API of one replica: the shared keys, the cache, and
\* then the local state, the last two whether or not Redis answered.
ResetEnter(c) ==
  /\ At(c, "idle")
  /\ resets > 0
  /\ resets' = resets - 1
  /\ Goto(c, "resetStore")
  /\ UNCHANGED <<br, cache, redis, faults, failing, holder, stray, forced, episodeAge>>

ResetStore(c) ==
  /\ At(c, "resetStore")
  /\ \E out \in Outcomes :
       /\ Command(out, NoKeys)
       /\ DeletesProbe(c, out)
       /\ Goto(c, "resetInstall")
  /\ UNCHANGED <<br, cache, resets, failing, forced>>

ResetInstall(c) ==
  /\ At(c, "resetInstall")
  /\ installShared(Home[c], NoShared)
  /\ Goto(c, "resetLocal")
  /\ forced' = IF redis.ttl = 0 THEN forced ELSE forced \cup {Home[c]}
  /\ UNCHANGED <<br, redis, faults, resets, failing, holder, stray, episodeAge>>

ResetLocal(c) ==
  /\ At(c, "resetLocal")
  /\ br' = [br EXCEPT ![Home[c]] = resetLocally(@)]
  /\ Done(c)
  /\ UNCHANGED <<cache, redis, faults, resets, failing, holder, stray, forced, episodeAge>>

-----------------------------------------------------------------------------
Decrement(n) == IF n > 0 THEN n - 1 ELSE 0

\* Redis's clock: cooldown, key expiry and probe lock.
redisAfterTick ==
  IF redis.ttl > 1
  THEN [redis EXCEPT !.ttl = @ - 1, !.until = Decrement(@), !.probe = Decrement(@)]
  ELSE [NoKeys EXCEPT !.probe = Decrement(redis.probe)]

Quiet == \A c \in Calls : call[c].pc \in {"idle", "running"}

Tick ==
  /\ Quiet
  /\ br' = [r \in Replicas |-> age(br[r])]
  /\ cache' = [r \in Replicas |-> [cache[r] EXCEPT !.left = Decrement(@)]]
  /\ redis' = redisAfterTick
  /\ call' = [c \in Calls |->
                IF call[c].probe # "none" /\ call[c].age < ProbeTimeout
                THEN [call[c] EXCEPT !.age = @ + 1] ELSE call[c]]
  /\ episodeAge' = IF redis'.ttl = 0 THEN 0
                   ELSE IF episodeAge <= StateCacheTTL THEN episodeAge + 1 ELSE episodeAge
  /\ UNCHANGED <<faults, resets, failing, holder, stray, forced>>

\* The provider is well again: from here on calls succeed and are reported.
Recover ==
  /\ failing
  /\ failing' = FALSE
  /\ UNCHANGED <<br, cache, redis, call, faults, resets, holder, stray, forced, episodeAge>>

\* Every step of request c but its provider call.
Step(c) ==
  \/ ReadCached(c) \/ ReadStore(c) \/ AllowShared(c) \/ ClaimSharedProbe(c) \/ AllowLocal(c)
  \/ PublishProbeSuccess(c) \/ InstallProbeSuccess(c) \/ MirrorProbeSuccess(c)
  \/ PublishOpen(c) \/ InstallOpen(c) \/ MarkPublished(c) \/ MarkUnpublished(c)
  \/ InvalidateShared(c) \/ ResetStore(c) \/ ResetInstall(c) \/ ResetLocal(c)

Next ==
  \/ \E c \in Calls : \/ AllowEnter(c) \/ Step(c)
                      \/ RecordSuccess(c) \/ RecordFailure(c) \/ Abandon(c) \/ ResetEnter(c)
  \/ Tick
  \/ Recover

Spec == Init /\ [][Next]_vars

\* Time passes: steps are short, so no request is inside one infinitely often,
\* and the clock advances at such moments.  The provider recovers, every request
\* that has started runs to its end, and requests keep arriving at every replica.
FairSpec ==
  /\ Spec
  /\ []<>Quiet
  /\ SF_vars(Tick) /\ WF_vars(Recover)
  /\ \A c \in Calls : /\ WF_vars(Step(c))
                      /\ WF_vars(RecordSuccess(c))
                      /\ WF_vars(AllowEnter(c))

-----------------------------------------------------------------------------
\* Requests running on the fleet-wide probe slot, within its lifetime.
SharedProbes ==
  {c \in Calls : At(c, "running") /\ call[c].probe = "shared" /\ call[c].age < ProbeTimeout}

\* ClaimProbe is "promoted from one process to the whole fleet": as long as no
\* request deleted a probe key it had not taken, one replica probes at a time.
FleetProbeExclusion == ~ stray => Cardinality(SharedProbes) <= 1

\* StateCacheTTL bounds how long "one may still be admitting traffic a moment
\* after another has opened the circuit": a replica on the shared path never
\* takes "closed" for the fleet's verdict, and so never waves traffic through, on
\* an episode published StateCacheTTL ago or earlier, unless an operator's Reset
\* forced it closed while Redis kept the episode.
BoundedStaleness ==
  [][\A c \in Calls :
       At(c, "read") /\ call'[c].pc = "mirror" /\ call'[c].s.state = Closed /\ Home[c] \notin forced
         => episodeAge < StateCacheTTL]_vars

\* Once calls stop failing and Redis answers, every replica closes and the
\* shared episode is gone: no lost publish, stale install, abandoned probe or
\* expired lock wedges the fleet.
FleetHeals == <>[](redis.ttl = 0 /\ \A r \in Replicas : br[r].state = Closed)
=============================================================================
