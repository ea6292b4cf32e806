------------------------ MODULE SharedBreakerProofs ------------------------
(***************************************************************************)
(* SharedBreaker for any number of replicas, requests and Redis failures:  *)
(* the probe lock of the fleet, and the age of what a replica believes.    *)
(* Neither depends on the breakers' own fields, so br is left untyped.     *)
(***************************************************************************)
EXTENDS SharedBreaker, FiniteSetTheorems, TLAPS

Fields == {"pc", "probe", "age", "s", "cooldown"}

\* The shape of the records that the steps update.
CallShape ==
  /\ DOMAIN call = Calls
  /\ \A c \in Calls : DOMAIN call[c] = Fields /\ call[c].age \in 0 .. ProbeTimeout
RedisShape ==
  /\ DOMAIN redis = {"ttl", "until", "reopens", "successes", "probe"}
  /\ redis.probe \in 0 .. ProbeTimeout
CacheShape ==
  /\ DOMAIN cache = Replicas
  /\ \A r \in Replicas : /\ DOMAIN cache[r] = {"shared", "ok", "left"}
                         /\ cache[r].left \in 0 .. StateCacheTTL

\* A probe that runs within its lifetime was the last to take the lock, and the lock
\* expires when that lifetime is over.
LockInv ==
  /\ \A c, d \in holder : c = d
  /\ ~ stray => \A c \in SharedProbes :
                  c \in holder /\ redis.probe = ProbeTimeout - call[c].age

\* "closed" in a cache entry is no older than the entry, and "closed" about to be
\* installed is news.
FreshInv ==
  /\ redis.ttl = 0 => episodeAge = 0
  /\ \A r \in Replicas \ forced :
       cache[r].ok /\ cache[r].left > 0 /\ cache[r].shared.state = Closed
         => episodeAge + cache[r].left <= StateCacheTTL
  /\ \A c \in Calls :
       /\ At(c, "installSuccess") /\ call[c].s.state = Closed => episodeAge = 0
       /\ call[c].pc \in {"pubOpen", "installOpen"} => call[c].s.state = Open

SharedInv ==
  /\ CallShape /\ RedisShape /\ CacheShape /\ episodeAge \in Nat /\ stray \in BOOLEAN
  /\ LockInv /\ FreshInv

-----------------------------------------------------------------------------
(* How a step moves its request.                                           *)

OthersStay(c) == \A d \in Calls \ {c} : call'[d] = call[d]

LEMMA Constants ==
  /\ ProbeTimeout \in Nat \ {0} /\ StateCacheTTL \in Nat \ {0} /\ StateTTLSlack \in Nat \ {0}
  /\ \A c \in Calls : Home[c] \in Replicas
BY BreakerConfigValid, SharedAssumption

LEMMA Replaced ==
  ASSUME CallShape, NEW c \in Calls, NEW q, DOMAIN q = Fields, q.age \in 0 .. ProbeTimeout,
         call' = [call EXCEPT ![c] = q]
  PROVE  CallShape' /\ OthersStay(c) /\ call'[c] = q
BY DEF CallShape, OthersStay

\* c goes on to another step with what it has.
LEMMA GotoMoves ==
  ASSUME CallShape, NEW c \in Calls, NEW step, Goto(c, step)
  PROVE  CallShape' /\ OthersStay(c) /\ call'[c].pc = step /\ call'[c].s = call[c].s
<1> DEFINE q == [call[c] EXCEPT !.pc = step]
<1>1. DOMAIN q = Fields /\ q.age \in 0 .. ProbeTimeout /\ q.pc = step /\ q.s = call[c].s
  BY DEF CallShape, Fields
<1>2. call' = [call EXCEPT ![c] = q]
  BY DEF Goto
<1> HIDE DEF q
<1> QED  BY <1>1, <1>2, Replaced

\* c goes on with a verdict of the store.
LEMMA CarryMoves ==
  ASSUME CallShape, NEW c \in Calls, NEW step, NEW s,
         call' = [call EXCEPT ![c].pc = step, ![c].s = s]
  PROVE  CallShape' /\ OthersStay(c) /\ call'[c].pc = step /\ call'[c].s = s
<1> DEFINE q == [call[c] EXCEPT !.pc = step, !.s = s]
<1>1. DOMAIN q = Fields /\ q.age \in 0 .. ProbeTimeout /\ q.pc = step /\ q.s = s
  BY DEF CallShape, Fields
<1>2. call' = [call EXCEPT ![c] = q]
  BY DEF CallShape
<1> HIDE DEF q
<1> QED  BY <1>1, <1>2, Replaced

LEMMA OpenMoves ==
  ASSUME CallShape, NEW c \in Calls, NEW step, NEW s, NEW w,
         call' = [call EXCEPT ![c].pc = step, ![c].cooldown = w, ![c].s = s]
  PROVE  CallShape' /\ OthersStay(c) /\ call'[c].pc = step /\ call'[c].s = s
<1> DEFINE q == [call[c] EXCEPT !.pc = step, !.cooldown = w, !.s = s]
<1>1. DOMAIN q = Fields /\ q.age \in 0 .. ProbeTimeout /\ q.pc = step /\ q.s = s
  BY DEF CallShape, Fields
<1>2. call' = [call EXCEPT ![c] = q]
  BY DEF CallShape
<1> HIDE DEF q
<1> QED  BY <1>1, <1>2, Replaced

LEMMA DoneMoves ==
  ASSUME CallShape, NEW c \in Calls, Done(c)
  PROVE  CallShape' /\ OthersStay(c) /\ call'[c].pc = "idle"
<1>1. DOMAIN Idle = Fields /\ Idle.age \in 0 .. ProbeTimeout /\ Idle.pc = "idle"
  BY Constants DEF Idle, Fields
<1> QED  BY <1>1, Replaced DEF Done

LEMMA AdmitMoves ==
  ASSUME CallShape, NEW c \in Calls, NEW how, Admit(c, how)
  PROVE  /\ CallShape' /\ OthersStay(c)
         /\ call'[c].pc = "running" /\ call'[c].probe = how /\ call'[c].age = 0
<1> DEFINE q == [Idle EXCEPT !.pc = "running", !.probe = how]
<1>1. DOMAIN q = Fields /\ q.age = 0 /\ q.pc = "running" /\ q.probe = how
  BY DEF Idle, Fields
<1>2. call' = [call EXCEPT ![c] = q] /\ 0 \in 0 .. ProbeTimeout
  BY Constants DEF Admit
<1> HIDE DEF q
<1> QED  BY <1>1, <1>2, Replaced

-----------------------------------------------------------------------------
(* The lock.                                                               *)

\* Steps that leave the lock and its history alone and admit no shared probe.
LEMMA LockUntouched ==
  ASSUME LockInv, CallShape, NEW c \in Calls, OthersStay(c),
         call'[c].pc # "running" \/ call'[c].probe # "shared",
         redis'.probe = redis.probe, UNCHANGED <<holder, stray>>
  PROVE  LockInv'
<1>1. \A d \in SharedProbes' : d \in SharedProbes /\ call'[d] = call[d]
  BY DEF SharedProbes, At, OthersStay
<1> QED  BY <1>1 DEF LockInv

\* A command of c, which is past its call, deletes the lock or does not reach Redis.
LEMMA LockDeleted ==
  ASSUME LockInv, RedisShape, CallShape, NEW c \in Calls, OthersStay(c), ~ At(c, "running"),
         call'[c].pc # "running", NEW out, DeletesProbe(c, out), stray \in BOOLEAN,
         redis'.probe = IF out = "lost" THEN redis.probe ELSE 0
  PROVE  LockInv'
<1>1. \A d \in SharedProbes' : d \in SharedProbes /\ call'[d] = call[d] /\ d # c
  BY DEF SharedProbes, At, OthersStay
<1>2. CASE out = "lost"
  BY <1>1, <1>2 DEF LockInv, DeletesProbe
<1>3. CASE out # "lost"
  <2>1. holder' = {} /\ redis'.probe = 0
        /\ (stray' <=> (stray \/ (redis.probe > 0 /\ c \notin holder)))
    BY <1>3 DEF DeletesProbe
  <2>2. ASSUME ~ stray', NEW d \in SharedProbes'
        PROVE  FALSE
    <3>1. ~ stray /\ d \in SharedProbes /\ d # c
      BY <1>1, <2>1, <2>2
    <3>2. d \in holder /\ redis.probe = ProbeTimeout - call[d].age
      BY <3>1 DEF LockInv
    <3>3. call[d].age < ProbeTimeout /\ call[d].age \in 0 .. ProbeTimeout
      BY <3>1 DEF SharedProbes, CallShape
    <3>4. redis.probe > 0
      BY <3>2, <3>3, Constants
    <3>5. c \in holder
      BY <2>1, <2>2, <3>4
    <3> QED  BY <3>1, <3>2, <3>5 DEF LockInv
  <2> QED  BY <2>1, <2>2 DEF LockInv
<1> QED  BY <1>2, <1>3

\* No probe within its lifetime runs while the lock is free.
LEMMA FreeLock ==
  ASSUME LockInv, CallShape, ~ stray, redis.probe = 0
  PROVE  SharedProbes = {}
<1>1. ASSUME NEW d \in SharedProbes
      PROVE  FALSE
  <2>1. redis.probe = ProbeTimeout - call[d].age /\ call[d].age < ProbeTimeout
        /\ call[d].age \in 0 .. ProbeTimeout
    BY DEF LockInv, SharedProbes, CallShape
  <2> QED  BY <2>1, Constants
<1> QED  BY <1>1

LEMMA ClaimKeepsLock ==
  ASSUME LockInv, CallShape, RedisShape, stray \in BOOLEAN, NEW c \in Calls, ClaimSharedProbe(c)
  PROVE  LockInv' /\ CallShape' /\ RedisShape'
<1>1. At(c, "claim")
      /\ (stray' <=> (stray /\ \E d \in Calls \ {c} : At(d, "running") /\ call[d].probe = "shared"))
  BY DEF ClaimSharedProbe
<1>2. PICK out \in Outcomes :
        /\ redis' = IF out = "lost" THEN redis ELSE claimProbeCommand
        /\ IF out = "ok" /\ redis.probe = 0
           THEN Admit(c, "shared") /\ holder' = {c}
           ELSE Done(c) /\ UNCHANGED holder
  BY DEF ClaimSharedProbe, Command
<1>3. DOMAIN claimProbeCommand = DOMAIN redis
      /\ claimProbeCommand.probe = (IF redis.probe = 0 THEN ProbeTimeout ELSE redis.probe)
  BY DEF claimProbeCommand, RedisShape
<1>4. ProbeTimeout \in 0 .. ProbeTimeout /\ ProbeTimeout \in Nat
  BY Constants
<1>5. RedisShape'
  BY <1>2, <1>3, <1>4 DEF RedisShape
<1>6. CASE out = "ok" /\ redis.probe = 0
  <2>1. CallShape' /\ OthersStay(c) /\ call'[c].age = 0 /\ holder' = {c}
    BY <1>2, <1>6, AdmitMoves
  <2>2. redis'.probe = ProbeTimeout
    BY <1>2, <1>3, <1>6
  <2>3. ASSUME ~ stray', NEW d \in SharedProbes', d # c
        PROVE  FALSE
    <3>1. d \in SharedProbes
      BY <2>1, <2>3 DEF SharedProbes, At, OthersStay
    <3>2. stray
      BY <1>6, <3>1, FreeLock
    <3> QED  BY <1>1, <2>3, <3>1, <3>2 DEF SharedProbes
  <2>4. ProbeTimeout = ProbeTimeout - 0
    BY <1>4
  <2> QED  BY <1>5, <2>1, <2>2, <2>3, <2>4 DEF LockInv
<1>7. CASE ~ (out = "ok" /\ redis.probe = 0)
  <2>1. CallShape' /\ OthersStay(c) /\ call'[c].pc = "idle" /\ UNCHANGED holder
    BY <1>2, <1>7, DoneMoves
  <2>2. \A d \in SharedProbes' : d \in SharedProbes /\ call'[d] = call[d] /\ d # c
    BY <2>1 DEF SharedProbes, At, OthersStay
  <2>3. ASSUME ~ stray', NEW d \in SharedProbes'
        PROVE  d \in holder /\ redis'.probe = ProbeTimeout - call'[d].age
    <3>1. ~ stray
      BY <1>1, <2>2, <2>3 DEF SharedProbes
    <3>2. redis.probe # 0
      BY <2>2, <2>3, <3>1, FreeLock
    <3>3. redis'.probe = redis.probe
      BY <1>2, <1>3, <3>2
    <3> QED  BY <2>2, <3>1, <3>3 DEF LockInv
  <2> QED  BY <1>5, <2>1, <2>3 DEF LockInv
<1> QED  BY <1>6, <1>7

-----------------------------------------------------------------------------
(* The age of what a replica believes.                                     *)

LEMMA CommandMoves ==
  ASSUME NEW out, NEW effect, Command(out, effect), episodeAge \in Nat
  PROVE  /\ redis' = (IF out = "lost" THEN redis ELSE effect)
         /\ episodeAge' \in {0, episodeAge} /\ episodeAge' \in Nat
         /\ redis'.ttl = 0 => episodeAge' = 0
BY DEF Command

\* A step of c that may change the cache of its own replica, and starts no new episode's age.
LEMMA FreshMoves ==
  ASSUME FreshInv, CacheShape, NEW c \in Calls, OthersStay(c),
         episodeAge \in Nat, episodeAge' \in {0, episodeAge}, redis'.ttl = 0 => episodeAge' = 0,
         \A r \in Replicas \ {Home[c]} : cache'[r] = cache[r] /\ (r \in forced => r \in forced'),
         LET e == cache'[Home[c]]
         IN  Home[c] \notin forced' /\ e.ok /\ e.left > 0 /\ e.shared.state = Closed
               => episodeAge' + e.left <= StateCacheTTL,
         call'[c].pc = "installSuccess" /\ call'[c].s.state = Closed => episodeAge' = 0,
         call'[c].pc \in {"pubOpen", "installOpen"} => call'[c].s.state = Open
  PROVE  FreshInv'
<1>1. Home[c] \in Replicas /\ StateCacheTTL \in Nat
  BY Constants
<1>2. ASSUME NEW r \in Replicas \ forced',
             cache'[r].ok, cache'[r].left > 0, cache'[r].shared.state = Closed
      PROVE  episodeAge' + cache'[r].left <= StateCacheTTL
  <2>1. CASE r = Home[c]
    BY <1>2, <2>1
  <2>2. CASE r # Home[c]
    <3>1. cache'[r] = cache[r] /\ r \notin forced
      BY <1>2, <2>2
    <3>2. cache[r].left \in Nat /\ episodeAge + cache[r].left <= StateCacheTTL
      BY <1>2, <3>1, Constants DEF FreshInv, CacheShape
    <3> QED  BY <1>1, <3>1, <3>2
  <2> QED  BY <2>1, <2>2
<1>3. ASSUME NEW d \in Calls
      PROVE  /\ At(d, "installSuccess")' /\ call'[d].s.state = Closed => episodeAge' = 0
             /\ call'[d].pc \in {"pubOpen", "installOpen"} => call'[d].s.state = Open
  <2>1. CASE d = c
    BY <2>1 DEF At
  <2>2. CASE d # c
    BY <2>2 DEF At, OthersStay, FreshInv
  <2> QED  BY <2>1, <2>2
<1> QED  BY <1>2, <1>3 DEF FreshInv

\* The same for a step that leaves the cache and the operator's mark alone.
LEMMA FreshElsewhere ==
  ASSUME FreshInv, CacheShape, NEW c \in Calls, OthersStay(c), UNCHANGED <<cache, forced>>,
         episodeAge \in Nat, episodeAge' \in {0, episodeAge}, redis'.ttl = 0 => episodeAge' = 0,
         call'[c].pc = "installSuccess" /\ call'[c].s.state = Closed => episodeAge' = 0,
         call'[c].pc \in {"pubOpen", "installOpen"} => call'[c].s.state = Open
  PROVE  FreshInv' /\ CacheShape'
<1>1. Home[c] \in Replicas /\ StateCacheTTL \in Nat
  BY Constants
<1> DEFINE e == cache'[Home[c]]
<1>2. ASSUME Home[c] \notin forced', e.ok, e.left > 0, e.shared.state = Closed
      PROVE  episodeAge' + e.left <= StateCacheTTL
  <2>1. e = cache[Home[c]] /\ e.left \in Nat
    BY <1>1 DEF CacheShape
  <2>2. episodeAge + e.left <= StateCacheTTL
    BY <1>1, <1>2, <2>1 DEF FreshInv
  <2> HIDE DEF e
  <2> QED  BY <1>1, <2>1, <2>2
<1>3. CacheShape'
  BY DEF CacheShape
<1> QED  BY <1>2, <1>3, FreshMoves

\* installShared puts a new entry in the cache of c's replica.
LEMMA InstallMoves ==
  ASSUME CacheShape, NEW c \in Calls, NEW e, DOMAIN e = {"shared", "ok", "left"}, e.left = StateCacheTTL,
         cache' = [cache EXCEPT ![Home[c]] = e]
  PROVE  /\ CacheShape'
         /\ cache'[Home[c]] = e
         /\ \A r \in Replicas \ {Home[c]} : cache'[r] = cache[r]
<1>1. Home[c] \in Replicas /\ StateCacheTTL \in 0 .. StateCacheTTL
  BY Constants
<1> QED  BY <1>1 DEF CacheShape

-----------------------------------------------------------------------------
(* The steps.                                                              *)

\* Steps that touch neither Redis nor the cache, and admit no shared probe.
LEMMA LocalSteps ==
  ASSUME SharedInv, NEW c \in Calls,
         \/ AllowEnter(c) \/ ReadCached(c) \/ AllowShared(c) \/ AllowLocal(c) \/ RecordSuccess(c)
         \/ MirrorProbeSuccess(c) \/ RecordFailure(c) \/ MarkPublished(c) \/ MarkUnpublished(c)
         \/ Abandon(c) \/ ResetEnter(c) \/ ResetLocal(c)
  PROVE  SharedInv'
<1>1. UNCHANGED <<redis, cache, forced, episodeAge, holder, stray>>
  BY DEF AllowEnter, ReadCached, AllowShared, AllowLocal, RecordSuccess, MirrorProbeSuccess, RecordFailure,
         MarkPublished, MarkUnpublished, Abandon, ResetEnter, ResetLocal
<1>2. CallShape /\ CacheShape /\ RedisShape /\ LockInv /\ FreshInv /\ episodeAge \in Nat /\ stray \in BOOLEAN
  BY DEF SharedInv
<1>3. /\ CallShape' /\ OthersStay(c)
      /\ call'[c].pc # "running" \/ call'[c].probe # "shared"
      /\ call'[c].pc # "installSuccess"
      /\ call'[c].pc \in {"pubOpen", "installOpen"} => call'[c].s.state = Open
  <2>1. CASE AllowEnter(c) \/ MarkUnpublished(c) \/ ResetEnter(c)
    <3>1. PICK step \in {"read", "local", "invalidate", "resetStore"} : Goto(c, step)
      BY <2>1 DEF AllowEnter, MarkUnpublished, ResetEnter
    <3> QED  BY <1>2, <3>1, GotoMoves
  <2>2. CASE ReadCached(c)
    <3>1. PICK step \in {"mirror", "local"} :
            call' = [call EXCEPT ![c].pc = step, ![c].s = cache[Home[c]].shared]
      BY <2>2 DEF ReadCached
    <3> QED  BY <1>2, <3>1, CarryMoves
  <2>3. CASE AllowShared(c) \/ AllowLocal(c)
    <3>1. (\E how \in {"none", "local"} : Admit(c, how)) \/ Goto(c, "claim") \/ Done(c)
      BY <2>3 DEF AllowShared, AllowLocal
    <3>2. CASE \E how \in {"none", "local"} : Admit(c, how)
      BY <1>2, <3>2, AdmitMoves
    <3>3. CASE Goto(c, "claim")
      BY <1>2, <3>3, GotoMoves
    <3>4. CASE Done(c)
      BY <1>2, <3>4, DoneMoves
    <3> QED  BY <3>1, <3>2, <3>3, <3>4
  <2>4. CASE RecordSuccess(c)
    <3>1. Goto(c, "pubSuccess") \/ Done(c)
      BY <2>4 DEF RecordSuccess
    <3>2. CASE Goto(c, "pubSuccess")
      BY <1>2, <3>2, GotoMoves
    <3>3. CASE Done(c)
      BY <1>2, <3>3, DoneMoves
    <3> QED  BY <3>1, <3>2, <3>3
  <2>5. CASE RecordFailure(c)
    <3> DEFINE after == countFailure(br[Home[c]])
               s == Shared(Open, after.reopens, 0)
               w == after.cooldown
    <3>1. Done(c) \/ call' = [call EXCEPT ![c].pc = "pubOpen", ![c].cooldown = w, ![c].s = s]
      BY <2>5 DEF RecordFailure
    <3>2. s.state = Open
      BY DEF Shared
    <3> HIDE DEF after, s, w
    <3>3. CASE Done(c)
      BY <1>2, <3>3, DoneMoves
    <3>4. CASE call' = [call EXCEPT ![c].pc = "pubOpen", ![c].cooldown = w, ![c].s = s]
      <4>1. CallShape
        BY <1>2
      <4>2. CallShape' /\ OthersStay(c) /\ call'[c].pc = "pubOpen" /\ call'[c].s = s
        BY <3>4, <4>1, OpenMoves
      <4> QED  BY <3>2, <4>2
    <3> QED  BY <3>1, <3>3, <3>4
  <2>6. CASE MirrorProbeSuccess(c) \/ MarkPublished(c) \/ Abandon(c) \/ ResetLocal(c)
    <3>1. Done(c)
      BY <2>6 DEF MirrorProbeSuccess, MarkPublished, Abandon, ResetLocal
    <3> QED  BY <1>2, <3>1, DoneMoves
  <2> QED  BY <2>1, <2>2, <2>3, <2>4, <2>5, <2>6
<1>4. LockInv'
  BY <1>1, <1>2, <1>3, LockUntouched
<1>5. redis'.ttl = 0 => episodeAge' = 0
  BY <1>1, <1>2 DEF FreshInv
<1>6. FreshInv' /\ CacheShape'
  BY <1>1, <1>2, <1>3, <1>5, FreshElsewhere
<1>7. RedisShape'
  BY <1>1, <1>2 DEF RedisShape
<1> QED  BY <1>1, <1>2, <1>3, <1>4, <1>6, <1>7 DEF SharedInv

LEMMA ReadStoreKeeps ==
  ASSUME SharedInv, NEW c \in Calls, ReadStore(c)
  PROVE  SharedInv'
<1>1. CallShape /\ CacheShape /\ RedisShape /\ LockInv /\ FreshInv /\ episodeAge \in Nat /\ stray \in BOOLEAN
  BY DEF SharedInv
<1>2. PICK out \in Outcomes \ {"late"} :
        LET s == IF out = "ok" THEN loadScript ELSE NoShared
        IN  /\ Command(out, redis)
            /\ cache' = [cache EXCEPT ![Home[c]] = [shared |-> s, ok |-> (out = "ok"), left |-> StateCacheTTL]]
            /\ call' = [call EXCEPT ![c].pc = IF out = "ok" THEN "mirror" ELSE "local", ![c].s = s]
  BY DEF ReadStore
<1> DEFINE s == IF out = "ok" THEN loadScript ELSE NoShared
           e == [shared |-> s, ok |-> (out = "ok"), left |-> StateCacheTTL]
           step == IF out = "ok" THEN "mirror" ELSE "local"
<1>3. /\ cache' = [cache EXCEPT ![Home[c]] = e]
      /\ call' = [call EXCEPT ![c].pc = step, ![c].s = s]
  BY <1>2
<1>4. e.ok /\ e.shared.state = Closed => redis.ttl = 0
  BY DEF loadScript, NoShared, Shared, Closed, Open, HalfOpen
<1>5. step \in {"mirror", "local"} /\ DOMAIN e = {"shared", "ok", "left"} /\ e.left = StateCacheTTL
  OBVIOUS
<1> HIDE DEF s, e, step
<1>6. redis' = redis /\ episodeAge' \in {0, episodeAge} /\ episodeAge' \in Nat
      /\ (redis'.ttl = 0 => episodeAge' = 0)
  BY <1>1, <1>2, CommandMoves
<1>7. UNCHANGED <<holder, stray>> /\ forced' = forced \ {Home[c]}
  BY DEF ReadStore
<1>8. CallShape' /\ OthersStay(c) /\ call'[c].pc \in {"mirror", "local"}
  BY <1>1, <1>3, <1>5, CarryMoves
<1>9. CacheShape' /\ cache'[Home[c]] = e /\ \A r \in Replicas \ {Home[c]} : cache'[r] = cache[r]
  BY <1>1, <1>3, <1>5, InstallMoves
<1>10. LockInv'
  BY <1>1, <1>6, <1>7, <1>8, LockUntouched
<1>11. FreshInv'
  <2>1. ASSUME redis.ttl = 0
        PROVE  episodeAge' + StateCacheTTL <= StateCacheTTL
    <3>1. episodeAge' = 0 /\ StateCacheTTL \in Nat
      BY <1>6, <2>1, Constants
    <3> QED  BY <3>1
  <2>2. LET k == cache'[Home[c]]
        IN  Home[c] \notin forced' /\ k.ok /\ k.left > 0 /\ k.shared.state = Closed
              => episodeAge' + k.left <= StateCacheTTL
    BY <1>4, <1>5, <1>9, <2>1
  <2>3. \A r \in Replicas \ {Home[c]} : cache'[r] = cache[r] /\ (r \in forced => r \in forced')
    BY <1>7, <1>9
  <2> QED  BY <1>1, <1>6, <1>8, <2>2, <2>3, FreshMoves
<1>12. RedisShape'
  BY <1>1, <1>6 DEF RedisShape
<1> QED  BY <1>1, <1>6, <1>7, <1>8, <1>9, <1>10, <1>11, <1>12 DEF SharedInv

LEMMA ClaimKeeps ==
  ASSUME SharedInv, NEW c \in Calls, ClaimSharedProbe(c)
  PROVE  SharedInv'
<1>1. CallShape /\ CacheShape /\ RedisShape /\ LockInv /\ FreshInv /\ episodeAge \in Nat /\ stray \in BOOLEAN
  BY DEF SharedInv
<1>2. PICK out \in Outcomes : Command(out, claimProbeCommand) /\ (Admit(c, "shared") \/ Done(c))
  BY DEF ClaimSharedProbe
<1>3. UNCHANGED <<cache, forced>> /\ stray' \in BOOLEAN
  BY DEF ClaimSharedProbe
<1>4. episodeAge' \in {0, episodeAge} /\ episodeAge' \in Nat /\ (redis'.ttl = 0 => episodeAge' = 0)
  BY <1>1, <1>2, CommandMoves
<1>5. OthersStay(c) /\ call'[c].pc \in {"running", "idle"}
  BY <1>1, <1>2, AdmitMoves, DoneMoves
<1>6. FreshInv' /\ CacheShape'
  BY <1>1, <1>3, <1>4, <1>5, FreshElsewhere
<1>7. LockInv' /\ CallShape' /\ RedisShape'
  BY <1>1, ClaimKeepsLock
<1> QED  BY <1>3, <1>4, <1>6, <1>7 DEF SharedInv

\* The commands that delete the probe key.
LEMMA PublishKeeps ==
  ASSUME SharedInv, NEW c \in Calls, PublishProbeSuccess(c) \/ PublishOpen(c) \/ ResetStore(c)
  PROVE  SharedInv'
<1>1. CallShape /\ CacheShape /\ RedisShape /\ LockInv /\ FreshInv /\ episodeAge \in Nat /\ stray \in BOOLEAN
  BY DEF SharedInv
<1>2. UNCHANGED <<cache, forced>> /\ ~ At(c, "running")
  BY DEF PublishProbeSuccess, PublishOpen, ResetStore, At
<1>3. 0 \in 0 .. ProbeTimeout
  BY Constants
<1>4. ASSUME NEW out \in Outcomes, NEW effect, Command(out, effect), DeletesProbe(c, out),
             DOMAIN effect = DOMAIN redis, effect.probe = 0,
             CallShape', OthersStay(c), call'[c].pc # "running",
             call'[c].pc = "installSuccess" /\ call'[c].s.state = Closed => episodeAge' = 0,
             call'[c].pc \in {"pubOpen", "installOpen"} => call'[c].s.state = Open
      PROVE  SharedInv'
  <2>1. redis' = (IF out = "lost" THEN redis ELSE effect)
        /\ episodeAge' \in {0, episodeAge} /\ episodeAge' \in Nat /\ (redis'.ttl = 0 => episodeAge' = 0)
    BY <1>1, <1>4, CommandMoves
  <2>2. RedisShape' /\ redis'.probe = IF out = "lost" THEN redis.probe ELSE 0
    BY <1>1, <1>3, <1>4, <2>1 DEF RedisShape
  <2>3. LockInv'
    BY <1>1, <1>2, <1>4, <2>2, LockDeleted
  <2>4. FreshInv' /\ CacheShape'
    BY <1>1, <1>2, <1>4, <2>1, FreshElsewhere
  <2>5. stray' \in BOOLEAN
    BY <1>4 DEF DeletesProbe
  <2> QED  BY <1>4, <2>1, <2>2, <2>3, <2>4, <2>5 DEF SharedInv
<1>5. CASE PublishProbeSuccess(c)
  <2>1. PICK out \in Outcomes :
          /\ Command(out, probeSuccessScript) /\ DeletesProbe(c, out)
          /\ call' = [call EXCEPT ![c].pc = IF out = "ok" THEN "installSuccess" ELSE "invalidate",
                                  ![c].s = IF out = "ok" THEN probeSuccessReply ELSE NoShared]
    BY <1>5 DEF PublishProbeSuccess
  <2> DEFINE step == IF out = "ok" THEN "installSuccess" ELSE "invalidate"
             s == IF out = "ok" THEN probeSuccessReply ELSE NoShared
  <2>2. call' = [call EXCEPT ![c].pc = step, ![c].s = s]
    BY <2>1
  <2>3. step = "installSuccess" => out = "ok" /\ s = probeSuccessReply
    OBVIOUS
  <2>4. step \in {"installSuccess", "invalidate"}
    OBVIOUS
  <2> HIDE DEF step, s
  <2>5. CallShape' /\ OthersStay(c) /\ call'[c].pc = step /\ call'[c].s = s
    BY <1>1, <2>2, CarryMoves
  <2>6. DOMAIN probeSuccessScript = DOMAIN redis /\ probeSuccessScript.probe = 0
    BY <1>1 DEF probeSuccessScript, NoKeys, RedisShape
  <2>7. probeSuccessReply.state = Closed => probeSuccessScript = NoKeys
    BY DEF probeSuccessReply, probeSuccessScript, Shared, NoShared, Closed, HalfOpen
  <2>8. call'[c].pc = "installSuccess" /\ call'[c].s.state = Closed => episodeAge' = 0
    <3>1. SUFFICES ASSUME step = "installSuccess", s.state = Closed
                   PROVE  episodeAge' = 0
      BY <2>5
    <3>2. redis' = NoKeys
      BY <1>1, <2>1, <2>3, <2>7, <3>1, CommandMoves
    <3> QED  BY <1>1, <2>1, <3>2, CommandMoves DEF NoKeys
  <2> QED  BY <1>4, <2>1, <2>4, <2>5, <2>6, <2>8
<1>6. CASE PublishOpen(c)
  <2>1. PICK out \in Outcomes :
          /\ Command(out, openScript(call[c].cooldown, call[c].s.reopens)) /\ DeletesProbe(c, out)
          /\ Goto(c, IF out = "ok" THEN "installOpen" ELSE "unpublish")
    BY <1>6 DEF PublishOpen
  <2> DEFINE effect == openScript(call[c].cooldown, call[c].s.reopens)
  <2>2. DOMAIN effect = DOMAIN redis /\ effect.probe = 0
    BY <1>1 DEF openScript, RedisShape
  <2> HIDE DEF effect
  <2>3. CallShape' /\ OthersStay(c) /\ call'[c].pc \in {"installOpen", "unpublish"} /\ call'[c].s = call[c].s
    BY <1>1, <2>1, GotoMoves
  <2>4. call[c].s.state = Open
    BY <1>1, <1>6 DEF PublishOpen, At, FreshInv
  <2>5. Command(out, effect)
    BY <2>1 DEF effect
  <2> QED  BY <1>4, <2>1, <2>2, <2>3, <2>4, <2>5
<1>7. CASE ResetStore(c)
  <2>1. PICK out \in Outcomes : Command(out, NoKeys) /\ DeletesProbe(c, out) /\ Goto(c, "resetInstall")
    BY <1>7 DEF ResetStore
  <2>2. DOMAIN NoKeys = DOMAIN redis /\ NoKeys.probe = 0
    BY <1>1 DEF NoKeys, RedisShape
  <2>3. CallShape' /\ OthersStay(c) /\ call'[c].pc = "resetInstall"
    BY <1>1, <2>1, GotoMoves
  <2> QED  BY <1>4, <2>1, <2>2, <2>3
<1> QED  BY <1>5, <1>6, <1>7

\* The steps under cacheMu.
LEMMA CacheSteps ==
  ASSUME SharedInv, NEW c \in Calls,
         InstallProbeSuccess(c) \/ InstallOpen(c) \/ ResetInstall(c) \/ InvalidateShared(c)
  PROVE  SharedInv'
<1>1. CallShape /\ CacheShape /\ RedisShape /\ LockInv /\ FreshInv /\ episodeAge \in Nat /\ stray \in BOOLEAN
  BY DEF SharedInv
<1>2. UNCHANGED <<redis, episodeAge, holder, stray>>
  BY DEF InstallProbeSuccess, InstallOpen, ResetInstall, InvalidateShared
<1>3. CallShape' /\ OthersStay(c) /\ call'[c].pc \in {"mirrorSuccess", "published", "resetLocal", "idle"}
  <2>1. CASE InvalidateShared(c)
    BY <1>1, <2>1, DoneMoves DEF InvalidateShared
  <2>2. CASE InstallProbeSuccess(c) \/ InstallOpen(c) \/ ResetInstall(c)
    <3>1. PICK step \in {"mirrorSuccess", "published", "resetLocal"} : Goto(c, step)
      BY <2>2 DEF InstallProbeSuccess, InstallOpen, ResetInstall
    <3> QED  BY <1>1, <3>1, GotoMoves
  <2> QED  BY <2>1, <2>2
<1>4. LockInv'
  BY <1>1, <1>2, <1>3, LockUntouched
<1>5. redis'.ttl = 0 => episodeAge' = 0
  BY <1>1, <1>2 DEF FreshInv
<1>6. RedisShape'
  BY <1>1, <1>2 DEF RedisShape
<1>7. ASSUME CacheShape',
             \A r \in Replicas \ {Home[c]} : cache'[r] = cache[r] /\ (r \in forced => r \in forced'),
             LET e == cache'[Home[c]]
             IN  Home[c] \notin forced' /\ e.ok /\ e.left > 0 /\ e.shared.state = Closed
                   => episodeAge' + e.left <= StateCacheTTL
      PROVE  SharedInv'
  <2>1. FreshInv'
    BY <1>1, <1>2, <1>3, <1>5, <1>7, FreshMoves
  <2> QED  BY <1>1, <1>2, <1>3, <1>4, <1>6, <1>7, <2>1 DEF SharedInv
<1>8. StateCacheTTL \in Nat /\ Home[c] \in Replicas
  BY Constants
<1>9. CASE InvalidateShared(c)
  <2>1. cache' = [cache EXCEPT ![Home[c]].left = 0] /\ UNCHANGED forced
    BY <1>9 DEF InvalidateShared
  <2> DEFINE e == [cache[Home[c]] EXCEPT !.left = 0]
  <2>2. DOMAIN e = {"shared", "ok", "left"} /\ e.left = 0 /\ cache' = [cache EXCEPT ![Home[c]] = e]
    BY <1>1, <1>8, <2>1 DEF CacheShape
  <2> HIDE DEF e
  <2>3. CacheShape' /\ cache'[Home[c]] = e /\ \A r \in Replicas \ {Home[c]} : cache'[r] = cache[r]
    BY <1>1, <1>8, <2>2 DEF CacheShape
  <2> QED  BY <1>7, <2>1, <2>2, <2>3
<1>10. ASSUME NEW s, installShared(Home[c], s), s.state = Closed /\ Home[c] \notin forced' => episodeAge = 0,
              \A r \in forced : r \in forced'
       PROVE  SharedInv'
  <2> DEFINE e == [shared |-> s, ok |-> TRUE, left |-> StateCacheTTL]
  <2>1. DOMAIN e = {"shared", "ok", "left"} /\ e.left = StateCacheTTL /\ e.shared = s
        /\ cache' = [cache EXCEPT ![Home[c]] = e]
    BY <1>10 DEF installShared
  <2> HIDE DEF e
  <2>2. CacheShape' /\ cache'[Home[c]] = e /\ \A r \in Replicas \ {Home[c]} : cache'[r] = cache[r]
    BY <1>1, <2>1, InstallMoves
  <2>3. s.state = Closed /\ Home[c] \notin forced' => episodeAge' + StateCacheTTL <= StateCacheTTL
    BY <1>2, <1>8, <1>10
  <2> QED  BY <1>7, <1>10, <2>1, <2>2, <2>3
<1>11. CASE InstallProbeSuccess(c)
  BY <1>1, <1>10, <1>11 DEF InstallProbeSuccess, FreshInv
<1>12. CASE InstallOpen(c)
  <2>1. call[c].s.state # Closed
    BY <1>1, <1>12 DEF InstallOpen, At, FreshInv, Open, Closed
  <2> QED  BY <1>10, <1>12, <2>1 DEF InstallOpen
<1>13. CASE ResetInstall(c)
  <2>1. installShared(Home[c], NoShared) /\ forced' = IF redis.ttl = 0 THEN forced ELSE forced \cup {Home[c]}
    BY <1>13 DEF ResetInstall
  <2>2. Home[c] \notin forced' => episodeAge = 0
    BY <1>1, <2>1 DEF FreshInv
  <2> QED  BY <1>10, <2>1, <2>2
<1> QED  BY <1>9, <1>11, <1>12, <1>13

LEMMA TickKeeps ==
  ASSUME SharedInv, Tick
  PROVE  SharedInv'
<1>1. CallShape /\ CacheShape /\ RedisShape /\ LockInv /\ FreshInv /\ episodeAge \in Nat /\ stray \in BOOLEAN
  BY DEF SharedInv
<1>2. ProbeTimeout \in Nat \ {0} /\ StateCacheTTL \in Nat \ {0}
  BY Constants
<1>3. UNCHANGED <<holder, stray, forced>>
  BY DEF Tick
<1>4. ASSUME NEW c \in Calls
      PROVE  /\ DOMAIN call'[c] = Fields /\ call'[c].age \in 0 .. ProbeTimeout
             /\ call'[c].pc = call[c].pc /\ call'[c].probe = call[c].probe
             /\ call'[c].age = IF call[c].probe # "none" /\ call[c].age < ProbeTimeout
                               THEN call[c].age + 1 ELSE call[c].age
  <2>1. DOMAIN call[c] = Fields /\ call[c].age \in 0 .. ProbeTimeout
    BY <1>1 DEF CallShape
  <2>2. call'[c] = IF call[c].probe # "none" /\ call[c].age < ProbeTimeout
                   THEN [call[c] EXCEPT !.age = @ + 1] ELSE call[c]
    BY DEF Tick
  <2>3. CASE call[c].probe # "none" /\ call[c].age < ProbeTimeout
    BY <1>2, <2>1, <2>2, <2>3 DEF Fields
  <2>4. CASE ~ (call[c].probe # "none" /\ call[c].age < ProbeTimeout)
    BY <2>1, <2>2, <2>4
  <2> QED  BY <2>3, <2>4
<1>5. CallShape'
  <2>1. DOMAIN call' = Calls
    BY DEF Tick
  <2> QED  BY <1>4, <2>1 DEF CallShape
<1>6. RedisShape' /\ redis'.probe = IF redis.probe > 0 THEN redis.probe - 1 ELSE 0
  <2>1. redis' = redisAfterTick
    BY DEF Tick
  <2>2. redis.probe \in 0 .. ProbeTimeout
    BY <1>1 DEF RedisShape
  <2>3. Decrement(redis.probe) = (IF redis.probe > 0 THEN redis.probe - 1 ELSE 0)
        /\ Decrement(redis.probe) \in 0 .. ProbeTimeout
    BY <1>2, <2>2 DEF Decrement
  <2>4. DOMAIN redisAfterTick = DOMAIN redis /\ redisAfterTick.probe = Decrement(redis.probe)
    BY <1>1 DEF redisAfterTick, NoKeys, RedisShape
  <2> QED  BY <1>1, <2>1, <2>3, <2>4 DEF RedisShape
<1>7. ASSUME NEW r \in Replicas
      PROVE  /\ DOMAIN cache'[r] = {"shared", "ok", "left"} /\ cache'[r].left \in 0 .. StateCacheTTL
             /\ cache'[r].shared = cache[r].shared /\ cache'[r].ok = cache[r].ok
             /\ cache'[r].left > 0 => cache[r].left = cache'[r].left + 1
  <2>1. DOMAIN cache[r] = {"shared", "ok", "left"} /\ cache[r].left \in 0 .. StateCacheTTL
    BY <1>1 DEF CacheShape
  <2>2. cache'[r] = [cache[r] EXCEPT !.left = Decrement(cache[r].left)]
    BY DEF Tick
  <2>3. Decrement(cache[r].left) \in 0 .. StateCacheTTL
        /\ (Decrement(cache[r].left) > 0 => cache[r].left = Decrement(cache[r].left) + 1)
    BY <1>2, <2>1 DEF Decrement
  <2> QED  BY <2>1, <2>2, <2>3
<1>8. CacheShape'
  <2>1. DOMAIN cache' = Replicas
    BY DEF Tick
  <2> QED  BY <1>7, <2>1 DEF CacheShape
<1>9. episodeAge' \in Nat /\ episodeAge' <= episodeAge + 1 /\ (redis'.ttl = 0 => episodeAge' = 0)
  BY <1>1, <1>2 DEF Tick
<1>10. LockInv'
  <2>1. ASSUME ~ stray, NEW c \in SharedProbes'
        PROVE  c \in holder /\ redis'.probe = ProbeTimeout - call'[c].age
    <3>1. c \in Calls /\ call[c].pc = "running" /\ call[c].probe = "shared" /\ call'[c].age < ProbeTimeout
      BY <1>4 DEF SharedProbes, At
    <3>2. call[c].age \in 0 .. ProbeTimeout
      BY <1>1, <3>1 DEF CallShape
    <3>3. call[c].age < ProbeTimeout /\ call'[c].age = call[c].age + 1
      BY <1>2, <1>4, <3>1, <3>2
    <3>4. c \in SharedProbes
      BY <3>1, <3>3 DEF SharedProbes, At
    <3>5. c \in holder /\ redis.probe = ProbeTimeout - call[c].age
      BY <1>1, <2>1, <3>4 DEF LockInv
    <3> QED  BY <1>2, <1>6, <3>2, <3>3, <3>5
  <2> QED  BY <1>1, <1>3, <2>1 DEF LockInv
<1>11. FreshInv'
  <2>1. ASSUME NEW r \in Replicas \ forced,
               cache'[r].ok, cache'[r].left > 0, cache'[r].shared.state = Closed
        PROVE  episodeAge' + cache'[r].left <= StateCacheTTL
    <3>1. cache[r].left = cache'[r].left + 1 /\ cache[r].ok /\ cache[r].shared.state = Closed
          /\ cache'[r].left \in 0 .. StateCacheTTL
      BY <1>7, <2>1
    <3>2. cache[r].left > 0
      BY <1>2, <3>1
    <3>3. episodeAge + cache[r].left <= StateCacheTTL
      BY <1>1, <3>1, <3>2 DEF FreshInv
    <3> QED  BY <1>1, <1>2, <1>9, <3>1, <3>3
  <2>2. \A c \in Calls : call'[c].pc \in {"idle", "running"}
    BY <1>4 DEF Tick, Quiet
  <2> QED  BY <1>3, <1>9, <2>1, <2>2 DEF FreshInv, At
<1> QED  BY <1>1, <1>3, <1>5, <1>6, <1>8, <1>9, <1>10, <1>11 DEF SharedInv

LEMMA SharedInit == Init => SharedInv
<1> SUFFICES ASSUME Init PROVE SharedInv
  OBVIOUS
<1>1. ProbeTimeout \in Nat \ {0} /\ StateCacheTTL \in Nat \ {0}
  BY Constants
<1>2. CallShape /\ \A c \in Calls : call[c].pc = "idle"
  BY <1>1 DEF Init, CallShape, Idle, Fields
<1>3. RedisShape
  BY <1>1 DEF Init, RedisShape, NoKeys
<1>4. CacheShape /\ \A r \in Replicas : cache[r].left = 0
  BY <1>1 DEF Init, CacheShape
<1>5. LockInv
  BY <1>2 DEF Init, LockInv, SharedProbes, At
<1>6. FreshInv
  BY <1>2, <1>4 DEF Init, FreshInv, At
<1> QED  BY <1>2, <1>3, <1>4, <1>5, <1>6 DEF Init, SharedInv

LEMMA SharedStep == SharedInv /\ [Next]_vars => SharedInv'
<1> SUFFICES ASSUME SharedInv, [Next]_vars PROVE SharedInv'
  OBVIOUS
<1>1. CASE Recover \/ UNCHANGED vars
  <2>1. UNCHANGED <<cache, redis, call, holder, stray, forced, episodeAge>>
    BY <1>1 DEF Recover, vars
  <2> QED  BY <2>1 DEF SharedInv, CallShape, RedisShape, CacheShape, LockInv, FreshInv, SharedProbes, At
<1>2. CASE Tick
  BY <1>2, TickKeeps
<1>3. ASSUME NEW c \in Calls,
             \/ AllowEnter(c) \/ Step(c)
             \/ RecordSuccess(c) \/ RecordFailure(c) \/ Abandon(c) \/ ResetEnter(c)
      PROVE  SharedInv'
  BY <1>3, LocalSteps, ReadStoreKeeps, ClaimKeeps, PublishKeeps, CacheSteps DEF Step
<1> QED  BY <1>1, <1>2, <1>3 DEF Next

\* The inductive invariant of the fleet: how the probe lock, its holder and the running
\* probes go together, and how old a cached "closed" may be.
THEOREM SharedCorrect == Spec => []SharedInv
BY SharedInit, SharedStep, PTL DEF Spec

\* ClaimProbe's SET NX with an expiry of ProbeTimeout is exclusive for the whole fleet: for
\* any number of replicas and requests, and whichever Redis commands are lost or answered
\* late, two probes within their lifetime run only after a delete by a non-holder.
THEOREM OneProbeInTheFleet == Spec => []FleetProbeExclusion
<1>1. SharedInv => FleetProbeExclusion
  <2>1. SUFFICES ASSUME SharedInv, ~ stray
                 PROVE  Cardinality(SharedProbes) <= 1
    BY DEF FleetProbeExclusion
  <2>2. \A c, d \in SharedProbes : c = d
    BY <2>1 DEF SharedInv, LockInv
  <2>3. CASE SharedProbes = {}
    <3>1. Cardinality(SharedProbes) = 0
      BY <2>3, FS_EmptySet, Zenon
    <3> QED  BY <3>1
  <2>4. CASE SharedProbes # {}
    <3>1. PICK c \in SharedProbes : SharedProbes = {c}
      BY <2>2, <2>4
    <3>2. Cardinality(SharedProbes) = 1
      BY <3>1, FS_Singleton, Zenon
    <3> QED  BY <3>2
  <2> QED  BY <2>3, <2>4
<1> QED  BY <1>1, SharedCorrect, PTL

-----------------------------------------------------------------------------
LEMMA OneRequestMoves ==
  ASSUME CallShape, NEW d \in Calls, Step(d) \/ AllowEnter(d) \/ RecordSuccess(d) \/ RecordFailure(d)
                                     \/ Abandon(d) \/ ResetEnter(d)
  PROVE  OthersStay(d)
<1> USE DEF OthersStay, CallShape, Goto, Done, Admit
<1>1. CASE AllowEnter(d) \/ ReadCached(d) \/ ReadStore(d) \/ AllowShared(d)
  BY <1>1 DEF AllowEnter, ReadCached, ReadStore, AllowShared
<1>2. CASE ClaimSharedProbe(d) \/ AllowLocal(d) \/ RecordSuccess(d)
  BY <1>2 DEF ClaimSharedProbe, AllowLocal, RecordSuccess
<1>3. CASE PublishProbeSuccess(d) \/ InstallProbeSuccess(d) \/ MirrorProbeSuccess(d)
  BY <1>3 DEF PublishProbeSuccess, InstallProbeSuccess, MirrorProbeSuccess
<1>4. CASE RecordFailure(d) \/ PublishOpen(d) \/ InstallOpen(d) \/ MarkPublished(d) \/ MarkUnpublished(d)
  BY <1>4 DEF RecordFailure, PublishOpen, InstallOpen, MarkPublished, MarkUnpublished
<1>5. CASE InvalidateShared(d) \/ Abandon(d) \/ ResetEnter(d) \/ ResetStore(d) \/ ResetInstall(d) \/ ResetLocal(d)
  BY <1>5 DEF InvalidateShared, Abandon, ResetEnter, ResetStore, ResetInstall, ResetLocal
<1> QED  BY <1>1, <1>2, <1>3, <1>4, <1>5 DEF Step

\* The reader takes "closed" for an answer.
TakesClosed(c) == At(c, "read") /\ call'[c].pc = "mirror" /\ call'[c].s.state = Closed /\ Home[c] \notin forced

LEMMA FreshVerdict ==
  ASSUME SharedInv, [Next]_vars, NEW c \in Calls, TakesClosed(c)
  PROVE  episodeAge < StateCacheTTL
<1>1. CallShape /\ CacheShape /\ FreshInv /\ episodeAge \in Nat
  BY DEF SharedInv
<1>2. Home[c] \in Replicas \ forced /\ StateCacheTTL \in Nat \ {0}
  BY Constants DEF TakesClosed
<1>3. ReadCached(c) \/ ReadStore(c)
  <2>1. CASE Tick
    <3>1. call'[c].pc = call[c].pc
      BY <1>1, <2>1 DEF Tick, CallShape, Fields
    <3> QED  BY <3>1 DEF TakesClosed, At
  <2>2. CASE Recover \/ UNCHANGED vars
    BY <2>2 DEF Recover, vars, TakesClosed, At
  <2>3. ASSUME NEW d \in Calls, Step(d) \/ AllowEnter(d) \/ RecordSuccess(d) \/ RecordFailure(d)
                                \/ Abandon(d) \/ ResetEnter(d)
        PROVE  ReadCached(c) \/ ReadStore(c)
    <3>1. d = c
      BY <1>1, <2>3, OneRequestMoves DEF TakesClosed, At, OthersStay
    <3> QED
      BY <2>3, <3>1
      DEF TakesClosed, At, Step, AllowEnter, AllowShared, ClaimSharedProbe, AllowLocal, RecordSuccess,
          PublishProbeSuccess, InstallProbeSuccess, MirrorProbeSuccess, RecordFailure, PublishOpen,
          InstallOpen, MarkPublished, MarkUnpublished, InvalidateShared, Abandon, ResetEnter, ResetStore,
          ResetInstall, ResetLocal
  <2> QED  BY <2>1, <2>2, <2>3 DEF Next
<1>4. CASE ReadCached(c)
  <2> DEFINE e == cache[Home[c]]
             step == IF e.ok THEN "mirror" ELSE "local"
             s == e.shared
  <2>1. call' = [call EXCEPT ![c].pc = step, ![c].s = s] /\ e.left > 0
    BY <1>4 DEF ReadCached
  <2>2. call'[c].pc = step /\ call'[c].s = s
    <3> HIDE DEF e, step, s
    <3> QED  BY <1>1, <2>1, CarryMoves
  <2>3. e.ok /\ e.shared.state = Closed /\ e.left \in Nat
    BY <1>1, <1>2, <2>2 DEF TakesClosed, CacheShape
  <2>4. episodeAge + e.left <= StateCacheTTL
    BY <1>1, <1>2, <2>1, <2>3 DEF FreshInv
  <2> HIDE DEF e
  <2> QED  BY <1>1, <1>2, <2>1, <2>3, <2>4
<1>5. CASE ReadStore(c)
  <2>1. PICK out \in Outcomes :
          call' = [call EXCEPT ![c].pc = IF out = "ok" THEN "mirror" ELSE "local",
                               ![c].s = IF out = "ok" THEN loadScript ELSE NoShared]
    BY <1>5 DEF ReadStore
  <2> DEFINE step == IF out = "ok" THEN "mirror" ELSE "local"
             s == IF out = "ok" THEN loadScript ELSE NoShared
  <2>2. call'[c].pc = step /\ call'[c].s = s
    <3>1. call' = [call EXCEPT ![c].pc = step, ![c].s = s]
      BY <2>1
    <3> HIDE DEF step, s
    <3> QED  BY <1>1, <3>1, CarryMoves
  <2>3. loadScript.state = Closed
    BY <2>2 DEF TakesClosed
  <2>4. redis.ttl = 0
    BY <2>3 DEF loadScript, Shared, Closed, Open, HalfOpen
  <2> QED  BY <1>1, <1>2, <2>4 DEF FreshInv
<1> QED  BY <1>3, <1>4, <1>5

\* StateCacheTTL is the staleness of the fleet: no replica takes "closed" from sharedState
\* once an episode has been published for StateCacheTTL, whatever fails and however
\* reads, installs, invalidations and resets interleave, but for an operator's Reset.
THEOREM StalenessIsBounded == Spec => BoundedStaleness
<1>1. SharedInv /\ [Next]_vars =>
        [\A c \in Calls :
           At(c, "read") /\ call'[c].pc = "mirror" /\ call'[c].s.state = Closed /\ Home[c] \notin forced
             => episodeAge < StateCacheTTL]_vars
  BY FreshVerdict DEF TakesClosed
<1> QED  BY <1>1, SharedCorrect, PTL DEF Spec, BoundedStaleness
=============================================================================
