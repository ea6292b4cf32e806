# A TLA+ verification of Switchyard

Switchyard is an LLM gateway in Go: it takes OpenAI-style chat requests from teams,
authenticates them, enforces rate limits and monthly budgets, chooses a provider, falls back
to others when one fails, protects providers with circuit breakers and health checks, and
logs and samples what it served. Several replicas may run against one Redis (limits, budgets,
breaker episodes, health verdicts, cache) and one Postgres (teams, sessions, request log).

This directory models the parts of it that are hard to test: state shared by concurrent
requests, replicas, timers and an unreliable Redis. `PROJECT.json` maps every definition
to the lines it stands for, and lists the hazards, the runs, the mutants and the theorems.

## 1. Inventory

| Component | State | Operations | Talks to | What is hard, what makes it correct |
|---|---|---|---|---|
| Circuit breaker (`internal/resilience/breaker.go`) | state, failure window, streak, reopens, cooldown, probe slot | `Allow`, `RecordSuccess`, `RecordFailure`, `Reset` | called by `runChain`; a mutex | late, missing and foreign reports; exclusive probe, exact window, monotonic backoff, recovery |
| Shared breaker state (`breaker_store.go`) | an episode key and a probe key in Redis, a 500 ms cache per replica | `Load`, `Open`, `ClaimProbe`, `RecordProbeSuccess`, `Reset` scripts | every replica's breakers | lock sections and commands interleave, commands are lost or late; fleet-wide exclusion, bounded staleness, healing |
| Breaker registry (`breaker_registry.go`) | map of breakers | `Get`, `AnyOpen`, `Reset` | health monitor, admin | `AnyOpen` closes a loop with health |
| Fallback chain and retries (`resilience/fallback.go`, `retry.go`, `proxy/fallback.go`) | a request's chain, attempts, failures | `BuildChain`, `runChain`, `Do` | health, breakers, budget, live config, providers | reads verdicts and configuration that change under it; authorization, attempt bound, complete failure list |
| Budget (`internal/budget`, `proxy/budget.go`) | a counter per team and month | `Reserve`, `Reconcile`, `Reset`, `admit` | chain, admin | concurrent reservations, month boundary, resets, unseen commands; the cap, exact settlement |
| Rate limiter (`internal/ratelimit`, `proxy/ratelimit.go`) | tokens, timestamp, TTL per bucket | `Consume`, `Reconcile` | handler | lazy refill, expiry with a debt, shedding, rounding; limit and Retry-After |
| Health monitor (`internal/health`) | sample ring per provider, status, streak, baseline, transition ring; verdict in Redis, shared by the replicas | `Record`, `check`, `Observe`, `restoreFromRedis` | checker goroutines, `BuildChain`, breakers | ring wrap, hysteresis, restarts, feedback; earned recovery, readmission |
| Chat handler (`proxy/handler.go`, `middleware.go`, `route.go`, `cache.go`) | per request: two reservations, chain, received text, metrics | `ChatCompletions`, `streamChatCompletions`, middleware | all of the above | deferred settlement on every way out, cut and stalled streams, panics after bytes; one ending, charged work, one verdict per call |
| Provider adapters (`internal/provider`) | decoder memory of one stream | `Complete`, `Stream`, `classify`, `translateResponse`, stream decoding | handler, upstreams | four dialects that end, report usage and fail differently |
| Live configuration (`cmd/gateway/reload.go`) | one atomic pointer | reload | handler, chain | two lookups of one request see different configurations |
| Team registry and store (`internal/auth`, `internal/teamstore`) | key → team snapshot, Postgres rows | CRUD, rotation, `Refresh` loop | proxy auth, admin | a refresh that started before a revocation finishes after it |
| Sessions and identity (`internal/identity`, `internal/oauth`) | session rows, cookies, access tokens | start, callback, `RotateSession`, replay, logout, `me`, CSRF | dashboard, Postgres row locks | concurrent rotations, lost replies, replay against rotation; linear chains, no false alarm, bounded access, lock cycles in one case only |
| Semantic cache (`internal/cache`, `proxy/cache.go`, `admin/cache.go`) | Redis entries, scope, team and candidate indices, hit counters | `Lookup`, `Store`, `trimScope`, `RecordHit`, three purges | handler, admin | commands of stores, trims, hits and purges interleave or fail half-way; isolation, lifetime, cap, purge |
| Request log (`internal/logstore/writer.go`) | bounded queue, batch | `Write`, `flush`, `finalFlush` | handler, Postgres | drop policy, panics, final flush; every row counted once |
| Quality sampling (`internal/quality`) | bounded queue, workers | `Decide`, `Enqueue`, `Score`, `SetQualityScore` | handler, judge, Postgres | same, and scores that race their rows |
| Chaos injection (`proxy/chaos.go`) | a set of rules | set, clear, apply | handler, admin | rules replaced under a running request |
| Supervision and process (`telemetry/supervise.go`, `cmd/gateway/main.go`) | boot stage, readiness, contexts, listeners, pool | boot, restart on panic, drain | everything in the background | order of boot and shutdown; readiness means serving, shutdown ends, backlogs drain |
| Complexity router, cost (`internal/router`, `internal/budget/cost.go`) | none of their own | `Plan`, `Escalate`, `Cost` | handler | keywords, allowlists and health in any combination |
| Configuration files, queries, audit, retention, summary, telemetry, tools, dashboard | none of their own, or I/O | formatting, parsing | | pure computation or I/O |

## 2. What is modelled, and how it corresponds to the code

**`Breaker`** holds the breaker's fields (`BreakerType`) and the pure part of its methods as
operators from a breaker to a breaker: `open`, `claimProbe`, `releaseProbe`, `countSuccess`,
`countFailure`, `pruneBefore`, `nextCooldown`, `resetLocally`. Instants are kept as ages or
as time left, so `age` is the clock. `ReopensBound` caps the episode counter; the ASSUME
requires it large enough for the cooldown to have reached its ceiling, so that nothing
changes above it.

**`LocalBreaker`** is a breaker with no store and `Calls` concurrent requests. Every method
is one critical section, hence one action. A call may finish, fail, or leave without a report
(`Abandon`: `runChain` skips a candidate on budget after the breaker admitted it).

**`SharedBreaker`** is the same breaker in several replicas with the Redis store. Every lock
section of `b.mu` or `cacheMu` and every Redis command is a step of its own, and the
continuation of a request is in its `pc`. Redis commands may be *lost* (no effect, error) or
*late* (effect, error). A time unit is longer than those steps, so the clock waits for them;
provider calls take any time.

**`Chain`** is one request from model resolution to its answer: resolving, building the
permitted list, asking for each provider's health once per band, walking the candidates
through breaker, budget, calls, retries and backoff, and reporting. Health flaps, a reload
and a disconnect happen between any two steps. Breaker and budget answer either way. A reload
may install any of `Reconfigs`; `moved` is history: where it put the models whose provider the
request had already looked up.

**`Budget`** is a team's counters in Redis and the requests that reserve, top up for costlier
candidates and settle, each command a step; month boundary, faults and operator resets
interleave. A call is covered by the base reservation alone or with one top-up (`covers`), but
its price is an estimate: prompt bytes by four (`estimateInputTokens`) and the output ceiling. A
call may cost up to `MaxOverrun` more. `pending`, `excess` and `lost` are history: overruns not
yet settled, those that no reservation of the month has seen settled, and what lost settlements
should have charged.

**`TokenBucket`** is one RPM or TPM bucket (one script serves both) with its lazy refill,
expiry, shedding floor and settlement; **`ContinuousBucket`** is what it promises: a level
that rises with time and is lowered by admissions, and that may forget the rest of a debt deeper
than the bucket. The refinement mapping is the balance the script would compute now. A settlement
has no floor and a request may exceed the capacity, as in the code; `TTLIsTwoWindows` is what
`bucketTTL` and `refillPerSecond` are to each other, and `forgiven` adds up what was owed when a
key expired.

**`HealthMonitor`** is a tier of providers as one replica sees them: the ring of samples, the
evaluation after each ping (`classify`, `transition`, `updateBaseline`, `setStatus`,
`persist`), the ring of transitions, the verdict in Redis and a restart. All replicas write one
key per provider, so `Overwrite` puts any verdict there at any time. The verdicts decide
which provider a call reaches, calls move the breaker, and an open breaker is an input of the
next verdict. Of the breaker only its state is kept, and an open one may be probed at any time
(cooldowns are in `Breaker`). The p99 of at most 100 samples is their maximum in the code
(`int(n * 0.99)` is `n - 1`), hence `Max`. Latencies are small integers and the
baseline's truncated average is coarser than the code's nanoseconds: it falls as in the code
and may stall short of a p99 that has risen.

**`TeamStore`** is the team rows in Postgres, each replica's registry snapshot with its two
indexes, the admin requests (create, patch, rotate, revoke, delete: lookup, statement,
write-through) and the refresh loop (load, then store). Statements may be lost or commit
unseen. A key is named after the request that minted it; of a team only its key and two limits
are kept. A restarted replica is one that refreshes.

**`Sessions`** is one browser with two tabs that share its cookie jar, the user's row and
session rows in Postgres, and the handlers `start`, `callback`, `refresh`, `logout` and `me`.
Each statement is a step; `SELECT ... FOR UPDATE` and `UPDATE` take row locks that the
transaction keeps until it ends. The `UPDATE` of a replay sees its rows at once and then locks
them one by one (`lockRow`), waiting for each with those before it in hand; Postgres aborts one
of the transactions of a circle (`breakDeadlock`). The rows come in the order in which they lie
(`HeapPlace`): a row without `revoked_at` was never updated and has not moved since it was
inserted, and both a scan of the table and one of `sessions_user_id_idx`, whose entries of one user
are sorted by place, visit rows in that order. A synchronized scan of a large table, which starts
anywhere, is left out. A statement may fail, or commit unseen; a reply may be lost, or arrive
after another one. What Google answers is an input (`Exchange`).

**`SemanticCache`** is the Redis side of the cache, one command (or one pipeline section) per
step: an exact then a semantic lookup, the hit counter, `Put` in its three stages, the trim of
a scope, and the purges by team, by entry and of everything. Entries carry what their store
was asked and by whom, so that a property can say what may be served to whom. Similarities
are given numbers (`Sim`); a `SCAN` is one step. A sorted set is a function from members to
scores. No two scores are equal (each store draws its own `stamp`), so `zrevrange` and
`zoldest` give the one order, and the one set of oldest members, by what they are.

**`Gateway`** is the process: `run()` from the first configuration file to exit, readiness,
the signal, failing listeners and reloads, with the request-log writer and the quality
workers under `Supervise`. A request appears where it touches these. An admin or sign-in request
is seen only as a query that has a connection of the pool: `pool.Close` waits for it, nothing
before that does, so a query that is still running when the workers have been waited for is one
that begins there (`Query`). What the process finds at start (files, settings, free ports) is
`env`.

**`Request`** is one chat request in all its detail: middleware, decoding, routing,
allowlists, cache, the TPM and budget reservations, the walk with chaos, retries and
fallbacks, a completion or a stream read event by event, the deferred settlements in their
order, the row and `Recoverer`. Rate limiter, budget, health, breakers and cache answer either
way at each step: their own modules say what they may answer. **`Adapters`** holds what the
four dialects make of errors, bodies and stream events, as operators. Text is its length in
bytes, and an estimate takes four of them for a token, rounded up (`contentTokens`). A streamed
answer has a piece of one byte and one of four, each a token by the provider's count. Gemini
counts the prompt alone until its last event, and what it counted last is what is charged.

Composition: `LocalBreaker` and `SharedBreaker` extend `Breaker`; `TokenBucket` instantiates
`ContinuousBucket`; `HealthMonitor` closes the loop of health, chain order and breaker state;
`Request` drives `Adapters` and puts chain, reservations, cache and stream into one order;
`Gateway` composes requests, log writer, quality workers and the process around them. The
theorems about a module are in the module of its name with `Proofs` appended, but for three
that share a module with a neighbour and name their specifications accordingly (`BucketSpec`,
`HealthSpec`, `StoreSpec`): `TokenBucket` in `RequestProofs` (requests reserve from it and settle
with it), `HealthMonitor` in `LocalBreakerProofs` (both judge a provider) and `TeamStore` in
`ChainProofs` (the allowlists a walk obeys are a team's).

## 3. The runs

All bounds are CONSTANTS with a name; `MC*` modules only define their values.

| Run | Checks | Bounds, and why they suffice |
|---|---|---|
| `MCLocalBreaker` | `ProbeExclusion`, `WindowIsExact`, `EpisodeInv`, `Heals` | three calls: a holder, its successor after a reclaim, and a stray; thresholds 2, so that counts can be left half-way; cooldowns 1 and 2, so that the backoff grows and is capped |
| `MCSharedBreaker` | `FleetProbeExclusion`, `BoundedStaleness`, `FleetHeals` | two replicas with a request each, one Redis failure, one reset, a cooldown longer than the cache; one success closes (a longer streak is in `MCLocalBreaker`) |
| `MCBudget` | `CallsAreCovered`, `SettledExactly`, `CapHolds` | two requests over three prices (0, 1, 2) against a cap of 3 (the dearest two do not fit together), calls that cost one more than estimated, so that an overrun crosses the cap; two months, one Redis failure, one reset |
| `MCChain` | `AvailabilityNeverOverridesAuthorization`, `WalkIsOrderly` | four models of three providers, one of them not allowed; two attempts per candidate, three per request, so that the limit cuts a candidate's retries; one flap; one reload that drops a model or moves it to the provider that is not allowed |
| `MCTokenBucket` | `UsageIsLimited`, `RetryAfterIsEnough`, `ImplementsContinuousBucket` | two requests, amounts from one token to one more than the bucket of 4, use of up to 6, so that a debt exceeds the bucket; keys expire after two windows, within the run; one Redis failure |
| `MCHealthMonitor` | `VerdictsAreEarned`, `Readmitted` | one provider; the rings (two samples, one transition) wrap, samples expire in the middle, streak and ping limit 2; another replica's verdicts at any time; one Redis failure, one restart |
| `MCTeamStore` | `SnapshotIsSound`, `Converges` | two teams, one yet to be created; two replicas, two admin requests of any kind that interleave with each other and with refreshes; one failing statement |
| `MCSessions` | `SignInConsistent`, `ReplayEndsSessions`, `NoFalseAlarm`, `AccessIsBounded`, `NoLockCycle` | two tabs, so that any two handlers overlap; four sessions, since a circle of two replays needs a spent row for each and rows they have yet to lock; three of them in behaviours in which time passes (`MaxAging`: one, its successor, and one of a second sign-in), which keeps the run small, since locks do not depend on the time; access tokens of 1 and sessions of 2 time units, so that each expires within the run; one failure |
| `MCSemanticCache` | `ServedIsShared`, `AnswersExpire`, `CapIsSoft`, `PurgeHolds` | a stored answer, and two requests of a team that shares it or of an isolated one; prompts above and below the threshold in one scope; lifetimes 1 and 2, a cap of 1 so that every store trims, one purge, one failure |
| `MCGateway` | `ReadyMeansServing`, `RowsCountedOnce`, `DrainKeepsRows`, `ShutdownTerminates`, `BacklogsDrain` | fourteen environments, each boot step failing in one; two requests of which one may bring the other's ID; a queue of 1 and a batch of 2, so that rows are dropped, batches fill and the ticker matters; one quality worker, one admin request, one fault, one reload |
| `MCRequest` | `SettledOnce`, `WorkIsCharged`, `OneEnding`, `CachedIsComplete`, `VerdictPerCall`, `RoutedWithinPolicy`, `GoneReleases` | a provider per dialect in two tiers, three deployments, two teams; answers of two pieces, of one and four bytes, so that a stream can break between them and rounding shows; two attempts per candidate, three per request; two changes of the chaos rules |
| `MCRequestAlias` | `ServedIsPriced`, violated | the same with answers that name their model by version |

Runs that end are those of systems that may stop: a request that was answered (`MCChain`,
`MCRequest`), requests that were settled (`MCBudget`), time that is used up (`MCTokenBucket`,
`MCSessions`, `MCSemanticCache`), a process that has exited (`MCGateway`). These have
`CHECK_DEADLOCK FALSE`. Symmetry is used only for interchangeable requests or tabs in runs
without liveness.

Four properties are conjunctions whose parts are stated next to them: `WalkIsOrderly` (the
order health gives, the attempt bound, the failure list, one breaker verdict per candidate, no
step after the client left), `VerdictsAreEarned` (a recovery has its streak, a verdict survives
a restart, or gives way to another replica's), `SnapshotIsSound` (the indexes agree, an accepted key was written, a revocation
holds) and `SignInConsistent` (types, audited grants, chains that do not fork). `TypeOK`
documents a module's state; it holds in the instances above, and is proved for `LocalBreaker`,
`TokenBucket`, `Budget`, `Gateway` and `Sessions`, where it is part of the inductive invariants.

`BoundedStaleness` is about the step that reads the cache or Redis. The value read is applied one
lock section later (`mirror`), and by then another request of the replica may have replaced the
entry, so the state after that section says nothing about how old the answer was.

`MCRequestAlias` is the one run that expects a violation. A completion is priced under the
name the provider reports (`proxy/handler.go:444`), which may be a versioned one that has no
price; its cost is then zero and the whole budget reservation is given back, against
`handler.go:578` ("every served model has a pricing entry by construction") and
`budget/cost.go:62`. The streaming path prices the candidate's own name and is right.

Other divergences between code and comments or documents met while modelling, which the
properties above are stated around:

* The second costlier candidate of one walk reserves its difference to the base reservation
  again (`proxy/budget.go:139`, against `:130`).
* A reload between the allowlist check and the lookup by model (`proxy/fallback.go:204`) may
  reach a provider that is not on the team's list: `runChain` asks for the model alone. This is
  against `resilience/fallback.go:62` ("availability never overrides authorization") and
  `cmd/gateway/reload.go:70` ("at worst, a single spurious error"). It happens in `MCChain`;
  `AvailabilityNeverOverridesAuthorization` says that it is the only way, and for which models.
* The price that is reserved is an estimate (`proxy/wire.go:118`, four bytes a token), so a call
  may cost more and take a month past its cap, by the overruns of the calls in flight at most.
  A top-up taken after midnight of the first is no cover in the month that is charged, and a
  settlement that is lost leaves its cost out of the counter. `CapHolds` bounds the charges by
  the cap and these amounts.
* With another provider healthy, a provider whose breaker is open gets no request, so the
  breaker is not probed, stays open and keeps it degraded (`health/status.go:379`, against
  `md_files/PART2_PLAN.md:288`).
* `loadRegistry` refuses a table without live teams (`teamstore/store.go:377`), so when the last
  team is deleted the other replicas keep their snapshot and accept its key for good (against
  `teamstore/store.go:287`).
* `releaseProbe` frees the slot for any report, so a call admitted while closed lets a second
  probe in without exceeding `ProbeTimeout` (`breaker.go:585` says it would have to).
  `ProbeExclusion` therefore assumes no stray report.
* A breaker that closes locally keeps `unpublished` (`breaker.go:246` says it clears).
* A candidate skipped on budget after `Allow` owes the breaker a report (`breaker.go:393`)
  that never comes; the slot waits for `ProbeTimeout`. It is `Abandon` in the models.
* A reservation that took effect after its timeout is never given back (`tracker.go:119`),
  and settlements of requests in flight drive a freshly reset counter below zero
  (`tracker.go:230`). `CapHolds` and `SettledExactly` account for both.
* A probe success that does not close the breaker installs a shared state without its reopen
  count (`breaker_store.go:329`), so the next failure starts the backoff over, which
  `breaker_store.go:176` says sharing prevents.
* A provider that turns degraded between the two passes of `BuildChain` is in the chain twice
  (`resilience/fallback.go:119`; `:57` says each is tried once). `AttemptsBounded` is per
  request and holds all the same.
* A refresh that read Postgres before a key was rotated or revoked may store its snapshot
  after the write-through, and the key works again until the next refresh; the write-throughs
  of two concurrent rotations of one team may be applied in the other order than the
  statements. `RevocationHolds` says what remains true.
* `Update` writes back limits it merged from its own snapshot (`teamstore/store.go:171`), so a
  patch of one limit undoes what another replica did to the other since the last refresh,
  though a nil field means "leave this alone" (`auth/registry.go:129`).
* A patch of a revoked team indexes it under the empty hash (`Registry.Update`); no key has
  that hash, so it is never accepted. `IndexesAgree` leaves that entry out.
* A request larger than a whole bucket is given a Retry-After after which it still does not
  fit (`ratelimit/bucket.go:53`); `RetryAfterIsEnough` says that the bucket is then full.
* A key expires two windows after its last use, which pays off a debt of one bucket. What is
  owed beyond that is forgotten, against `ratelimit/bucket.go:140` ("makes the team wait out the
  deficit") and `proxy/ratelimit.go:33` ("never evicted mid-refill"). `UsageIsLimited` counts
  it and `ContinuousBucket` has a step for it (`Forget`).
* Replicas judge a provider each on its own and write one key (`health/status.go:45`), so a
  restart may bring back what another replica thought (`status.go:273`), whose samples this one
  never saw. `VerdictSurvivesRestart` says whose verdict it is.
* `pool.Close` (`main.go:409`) waits for every connection that was acquired. Queries of admin and
  sign-in handlers run under `r.Context()`, without a deadline, and neither the drain's timeout nor
  anything after it cancels them (`main.go:798`): one that never returns keeps the process from
  exiting. `ShutdownTerminates` assumes that queries come back, and shows nothing else is needed.
* A Gemini stream that breaks off after events that count only the prompt (`gemini.go:293`) is
  charged for the prompt alone: the count is not zero, so the estimate of the text is not made
  (`handler.go:835`, against the comment below it). `WorkIsCharged` makes this exception.
* Two replays may deadlock: the `UPDATE` of one has yet to come to a live row, which is rotated
  and then presented again by the other; that one holds it and waits for a row the first has
  locked (`identity/session.go:112`). Postgres aborts one of the two, whose browser gets a 401 and
  loses its cookies. `NoLockCycle` says that circles arise in this way only.
* A sign-in or rotation that commits while a replay's `UPDATE` runs survives it
  (`identity/session.go:108`); a logout that races a refresh ends the old session and leaves its
  successor (`identity/handlers.go:224`), and the order of the replies decides the cookies.
* The CSRF cookie is set at sign-in only, for one `RefreshTTL`; a transient database failure in
  `refresh` or `me` clears the cookies; two tabs that sign in at once share one state cookie.
* A team's cache index lives as long as its last entry: after a store with a short lifetime
  longer-lived answers are missed by `PurgeTeam` (`cache/purge.go:22`). A purge also forgets
  what was added to the index between its `ZRANGE` and its `DEL`, a trim leaves uncounted what
  was stored again between its `DEL` and its `ZREM`, and `HINCRBY` on a key that is gone leaves
  a hash without a lifetime. `PurgeHolds` and `CapIsSoft` name these exceptions.
* A reload does not check the routing policy or the judge's model again
  (`router/policy.go:6`); `ReadyMeansServing` speaks of the file of the boot. A judge that
  writes "score: 10" in prose is read as 1 (`quality/judge.go:111`).
* A signal during the boot ends the process without its deferred calls. `Writer.Wait` gives up
  when a periodic flush precedes the final one and both are slow (`main.go:721`).
* An error object inside an OpenAI or Ollama stream decodes to an empty chunk
  (`provider/openai.go:239`, `provider/ollama.go:197`), and a body that ends early ends the
  stream cleanly: the client is sent `[DONE]` and health hears a success. Only the finish reason
  keeps such an answer out of the cache (`CachedIsComplete`).
* A panic after `[DONE]` adds an error event (`proxy/middleware.go:591`); a request that panics
  leaves no row (`requestlog.go:17` says "one row per authenticated request") and its stream's
  tokens are given back. `OneEnding` and `WorkIsCharged` say so.
* A call cut by the client before its answer is reported to health and breaker as the
  provider's failure; one cut while streaming is not (`handler.go:888`).
* A read error of a stream has no type, so before the first chunk it is answered 500 and not
  502. A fallback provider with a larger default ceiling may use more tokens than were reserved.

Every property of a passing run has a mutant: an operator with a comment `Mutant of`, next to
the definition it replaces, under which TLC finds the property violated.

### Fairness

* `LocalBreaker`: `Tick` (time), `Recover` (the provider gets well: the premise of `Heals`),
  `RecordSuccess` (a called provider answers, calls have a timeout), and a probe is asked for
  whenever one would be admitted (traffic goes on).
* `SharedBreaker`: the same, and each step of a started request, since goroutines run and
  every Redis command has a 50 ms timeout. `[]<>Quiet` says that these short steps do not
  overlap without a gap for ever; strong fairness of `Tick` then lets time pass in the gaps.
* `HealthMonitor`: time passes, every provider is pinged again and again (one goroutine
  each, supervised), and requests keep coming: a provider they can reach is called, and
  probed when its breaker is open. A restart, a change of the provider's condition and Redis
  failures are never required. `Readmitted` assumes that the provider stays well and its
  breaker closed from some time on.
* `TeamStore`: an admin request that has begun runs to its end (statements have timeouts) and
  each refresh loop ticks. Nobody has to make a request. `Converges` assumes that some team
  stays live, since an empty table is not loaded.
* `Gateway`: main's goroutine, the log writer and each quality worker are scheduled, timers
  fire, and their calls of the database and the judge return: the flush timeout, the judge's
  timeout and the workers' contexts end them. Requests may never end, nor may queries of the admin
  listener, which have no deadline: `ShutdownTerminates` has it as a premise that they come back.
  Nobody has to send a signal.
* `Request`: the handler's goroutine is scheduled, and whatever it waits for with a deadline
  answers. A stream may stall for good; only the client's context ends it.

## 4. What is proved

The proofs hold for every value of the constants that satisfies the ASSUMEs, hence for any
number of requests, replicas, tabs, failures and resets, and any limits. Each inductive invariant
was checked as an invariant of its module's run before it was proved.

| Module | Theorems, and the properties they state |
|---|---|
| `LocalBreakerProofs` | `TypeCorrect` (`TypeOK`), `SingleProbe` (`ProbeExclusion`), `EpisodesCorrect` (`EpisodeInv`) with `CooldownCorrect` and `StreakCorrect`, `WindowCorrect` (`WindowIsExact`) |
| `LocalBreakerProofs`, on `HealthMonitor` | `VerdictsHold` (`VerdictsAreEarned`) |
| `SharedBreakerProofs` | `SharedCorrect`, `OneProbeInTheFleet` (`FleetProbeExclusion`), `StalenessIsBounded` (`BoundedStaleness`) |
| `BudgetProofs` | `BudgetCorrect`, `EveryCallIsCovered` (`CallsAreCovered`), `SettlementIsExact` (`SettledExactly`), `TheCapIsKept` (`CapHolds`) |
| `ChainProofs` | `ChainCorrect`, `TheWalkIsOrderly` (`WalkIsOrderly`), `NobodyUnauthorizedIsCalled` (`AvailabilityNeverOverridesAuthorization`) |
| `ChainProofs`, on `TeamStore` | `SnapshotsHold` (`SnapshotIsSound`) |
| `RequestProofs` | `RequestCorrect`, `EveryReservationIsSettledOnce` (`SettledOnce`), `HealthHearsEveryCall` (`VerdictPerCall`), `ClientsAreToldOneEnding` (`OneEnding`), `RoutingFollowsPolicy` (`RoutedWithinPolicy`), `AnswersCorrect`, `GenerationIsCharged` (`WorkIsCharged`), `OnlyWholeAnswersAreCached` (`CachedIsComplete`) |
| `RequestProofs`, on `TokenBucket` | `BucketTypeCorrect` (`TypeOK`), `LimitHolds` (`UsageIsLimited`), `BucketRefines` (`ImplementsContinuousBucket`), `RetryAfterSuffices` (`RetryAfterIsEnough`) |
| `GatewayProofs` | `GatewayCorrect`, `ReadinessIsEarned` (`ReadyMeansServing`), `EveryRowIsCountedOnce` (`RowsCountedOnce`), `OrderlyExitKeepsRows` (`DrainKeepsRows`) |
| `SessionsProofs` | `SessionsCorrect`, `SignInIsConsistent` (`SignInConsistent`), `ReplaysEndSessions` (`ReplayEndsSessions`), `AlarmsAreTrue` (`NoFalseAlarm`), `AccessOutlivesSessionBriefly` (`AccessIsBounded`), `LocksNeverCycle` (`NoLockCycle`) |
| `SemanticCacheProofs` | `SharingHolds` (`ServedIsShared`), `ExpiryHolds` (`AnswersExpire`), `PurgesHold` (`PurgeHolds`), `ScopesStayNearCap` (`CapIsSoft`) |

**Local breaker**, for any set of calls and any configuration `BreakerConfigValid` allows.
Types follow from one lemma per operator of `Breaker`. Exclusion is not inductive by itself:
nothing in it says that a live probe is the one the slot belongs to. `SlotInv` adds that every
probe is running, that there are none outside half-open, that there is one holder, and that
without stray reports a live probe is the holder, the slot is taken and as old as the probe. A
slot is then reclaimed exactly when its probe is no longer live. `EpisodeInv` is inductive with
the types. `WindowInv` adds to `WindowIsExact` that outside Closed nothing is kept or counted;
pruning is a filter, and `PruneCounts` and `AppendCounts` say what it and an append do to the
number of failures of each age.

**Shared breaker**, for any replicas, requests and failures. `LockInv`: a probe within its
lifetime was the last to take the lock, and the lock expires exactly when that lifetime is over;
exclusion follows because the lock is taken only when it is free. `FreshInv`: a cached "closed"
plus what is left of its entry's life is never older than `StateCacheTTL`, unless an operator's
`Reset` forced it there. Neither depends on the breakers' own fields, so `br` stays untyped in
this proof.

**Token bucket**, for any set of requests, capacity, rate, amounts and use with
`BucketAssumption`, and the TTL of two windows (`TTLIsTwoWindows`). `LimiterInv` adds to the types
that whoever settles has reserved. Every step maps to a step of `ContinuousBucket` or a stutter.
The heart is what a unit of time does to the capped lazy refill: it is the capped refill of the
refill, also when the key expires with a debt of at most one bucket, since two windows pay that off; with a deeper one it is `Forget`, and the difference is what `forgiven` grows by. `PromiseKept` (the level plus the refill of the remaining wait covers the denied amount, or fills
the bucket) gives the Retry-After for requests of any size.

**Budget**, for any finite set of requests, any prices and any cap. `LedgerIsSound`: a month's
counter is what was charged, what requests hold and what they have still to give back, less the
overruns that are not settled: exactly, as long as no command failed, and otherwise at least that
much less what lost settlements left out. Charges and holdings together stay within the cap,
`excess` and `lost`. These are sums over requests and over
a request's top-ups. The provers cannot do induction over a recursive definition, so a sum is
stated by the existence of its partial sums (`SumsTo`, `HoldsOf`), and that changing one summand
changes the sum by as much (`AccountsMove`) is proved by a least counterexample.
`RequestsAreSound` says which reservations a request has at each step and that they are of one
month.

**Chain**, for any tier, limits, flaps and reloads. `WalkIsSound` ties the position in the chain
to calls, failures and verdicts; `Collected` says what the passes of `BuildChain` have put into
the chain so far, pass and place being part of the state: a provider whose health did not
change has been placed in the pass of its band, and two of them in their order.
`HealthOrdersChain` is what remains of it when the passes are over. `AuthorizationInv` says what
each step still has to do with the lists: a candidate was permitted as a pair of model and
provider, and a model's provider is the one looked up unless the pair is in `moved`.

**Request**, for any deployments, teams, scripts of answers and chaos rules.
`LedgerIsSound`: at each step, what is reserved is deferred or settled, and nothing is deferred
when the handler has returned. `VerdictsAreSound`: each call has its verdict, or is being
streamed, or was cut. `WireIsSound`: what has been written is a prefix of one ending.
`RoutingIsSound`: tier and model stay within what `Plan` and `Escalate` allow.
`AnswerInv` is about the answer itself: `ChainIsKnown` says that what is being tried has an
adapter; `AnswerIsSound` that text, finish reason, usage and the Anthropic decoder's memory are
what the events received so far bring, "stop" having come only with the whole text and a usage
only with a count that covers it or the prompt alone; `ChargeIsSound` that what is owed or settled
is at least `leastCharge` whenever a chunk was written. Its heart is `ScriptBrings`, one case for each event of each
dialect, and `BrokenBrings` for errors and garbage in any place. The dialects' scripts have a
fixed length, so this needs no induction; the theorem is for the scripts of `Adapters`, any
completions and any point at which they stop. `CacheInv` then needs only `BodiesAreWhole`, the
upstreams' side of it: a completion that says it stopped by itself has all its text, or none.

**Gateway**, for any environments, requests, workers, queue and batch. `BootIsOrdered` says what
a boot has checked and started at each stage, `ShutdownIsOrdered` that no request begins after
the listeners are closed and that the writer stops last. `RowsAreKept`: queue, batch and lost rows
are disjoint and without repetitions, every finished request is counted, and those missing from
the table are no more than were counted as lost. The counts are cardinalities; a sequence
without repetitions has as many elements as its set (`DistinctCount`).

**Sessions**, for any number of tabs and sessions. `LocksAreExclusive`: two requests hold
different row locks, and a holder knows its row's state, which makes chains linear. `EndsAreKept`:
what a replay is ending it will have ended. `TokensAreKnown`: a successor on its way to the browser
is known to nobody else, and a session that ended undisturbed is no longer presented, hence no
false alarm. `ScansAreOrdered`: an `UPDATE` has locked only rows that lie before those it has
yet to reach. In a circle in which no presented row is another's target every wait is for a row an
`UPDATE` has locked; of the requests in it, the one whose next row lies last waits for a row that
would have to lie before the next row of its holder, which lies no later: there is none.

**Health monitor**, for any tier, samples, thresholds, streak, failures and restarts that
`MonitorConfig.validate` accepts. `VerdictsAreEarned` speaks of single steps. `EvidenceIsCounted`
supplies what they need: a provider's streak, reset by every unhealthy evaluation, never claims
more clean evaluations than there were, and Redis holds the verdict of a provider, or the last
one of another replica, unless a command for it failed, so that a restart reads that back.

**Team store**, for any teams, replicas, administrators' requests and failing statements. The
sentence about snapshots rests on the rows and on the requests in flight. `OneTeamPerKey`: a key
is committed for one team only, since it is named by the request that minted it. `RowsAreSound`
and `ChangesAreSound`: a live row's key was committed, a minted key is nobody's before its
statement and its row's after it, unless two requests for a team overlap. `SnapshotsAreSound`:
the two indexes of every registry, one being loaded included, agree and hold only such keys, and
what is gone by a snapshot's account is gone for good. The five ways a registry changes have a
lemma each.

**Semantic cache**, for any teams, organizations, prompts, similarities, requests, rules, caps
and failing commands. Every step is one of five kinds (`EveryStep`): a lookup browses, a store
begins, sets its lifetime, or settles, a purge or the clock sweeps; each part of the invariant
is then proved five times, not once per Redis command.

* `FlowInv`: a request that is at a step has what the step needs (candidates of its own bucket,
  a best one that fits), an answer under a key is the complete answer of a request with that
  key, and what was served came from the bucket and fits. The bucket's fingerprint holds scope
  and parameters, hence `ServedIsShared`.
* `OvertakenIsMixed`: whoever's answer lies under a key that another store is about to give a
  lifetime knows of it. Without it `AnswersExpire` is not inductive.
* `ListsItsOwn` and `PurgeIsAimed`: a team's index lists what it has not lost, and until it
  ends a purge holds every answer it is for, or has removed it.
* `CapInv`: a trim counts, reads its victims, deletes and forgets them in four commands, and
  any number of trims of one scope overlap; two may pick the same victims. The account of a
  scope (`CapFor`) therefore quantifies over the sets `T` of trims now under way: were those in
  `T` to end, the members they have not condemned would be no more than the cap and the stores
  outside `T`, or one of them is about to take as many as it counted (`Trimmed`). An ended trim
  is the case of a smaller `T`.

Only model-checked: liveness (`Heals`, `FleetHeals`, `Readmitted`, `Converges`,
`ShutdownTerminates`, `BacklogsDrain`, `GoneReleases`), since the provers handle neither
fairness nor ENABLED, and `ServedIsPriced`, which is violated. Every other property that a run
checks is stated by a theorem.

## 5. What is not modelled

* The text classifier of the router and the embedding of prompts: their verdicts are inputs.
* Request bodies and framing of the adapters, the mock provider, the HTTP calls of OAuth.
* Parsing of configuration files: what it guarantees is assumed, or `valid` in `Gateway`.
* The retention sweep, log queries, audit and summary: SQL over data nothing here depends on.
* Metrics and spans, command-line tools, the dashboard: outputs.
* SIGKILL, which nothing in the code sees, and the retainer's unlock, for which `pool.Close` waits
  as it does for an admin query.
* Several requests at once are in `TokenBucket`, `Budget`, `LocalBreaker`, `SharedBreaker`,
  `SemanticCache` and `Gateway`; `Request` follows one, since requests share only what those
  modules model.

A data race is not modelled anywhere: the code guards its shared fields by mutexes, atomics
and Redis scripts.

## 6. Plan

Every component that carries state of its own is modelled, and all eleven state machines have
their safety properties proved. Left: an abstract breaker (closed, open, half-open with one
probe) that `LocalBreaker` implements, and the read-only queries of the request log.
