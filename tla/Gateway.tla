------------------------------- MODULE Gateway -------------------------------
(***************************************************************************)
(* The gateway process, from start to exit: cmd/gateway (main, run, serve, *)
(* shutdown, reload), the request-log writer (internal/logstore), the      *)
(* quality worker (internal/quality) and the supervisor both run under     *)
(* (internal/telemetry).                                                   *)
(*                                                                         *)
(* A request is seen where it touches these: it begins on an open          *)
(* listener, may offer a sample once its answer is on the wire, and ends   *)
(* with one row written to the log queue.  Its other steps are in Request. *)
(***************************************************************************)
EXTENDS Integers, FiniteSets, Sequences, SequencesExt

CONSTANTS
  Requests, Supplied,   \* requests, and request IDs callers supply themselves
  Admins,               \* requests of the admin listener: the admin API and sign-in
  Workers,              \* Concurrency of the quality worker
  QueueSize, BatchSize, \* of the request-log writer
  SampleQueue,          \* QueueSize of the quality worker
  Names,                \* names of models and tiers that occur
  AutoModel, Policy,         \* the routing keyword; the tiers the routing policy names
  JudgeModel,
  Files,                \* contents providers.yaml may have: validity, tiers, models
  Environments,         \* what the process may find when it starts
  Replies,              \* what the judge may answer
  MaxFaults,            \* database and judge calls that fail, panics, listener failures
  MaxReloads

ASSUME GatewayAssumption ==
  /\ {QueueSize, BatchSize, SampleQueue} \subseteq Nat \ {0}
  /\ MaxFaults \in Nat /\ MaxReloads \in Nat
  /\ Policy.simple \in Names /\ Policy.complex \in Names
  /\ AutoModel \in Names /\ JudgeModel \in Names
  /\ \A e \in Environments : e.file \in Files
  /\ \A reply \in Replies : reply.n \in Int
  /\ "none" \notin Requests

None == "none"
Listeners == {"public", "admin"}
Resources == {"tracing", "redis", "pool"} \cup Listeners

VARIABLES
  env,        \* what the process found: files, settings, free ports
  live,       \* the live configuration
  stage,      \* where run() is
  held,       \* what it has opened and not closed
  ready,      \* the flag behind /readyz
  signalled,  \* ctx is cancelled
  serverErrs, \* the serverErr channel: listeners that failed
  req,        \* req[r]: where it is, and its ID
  querying,   \* admin requests that have a connection of the pool
  queue, batch, writer, logCancelled,   \* the log writer
  counts,     \* its metric: rows by outcome
  rows,       \* the table: rows[id]: whose row it is
  samples, worker, qualityCancelled,    \* the quality worker
  score,      \* score[id]: the score on the row
  faults, reloads,
  slow,       \* a periodic flush was under way when the writer was cancelled
  excuses,    \* history: what went wrong on the way out
  lost        \* history: requests whose rows a panic took

process == <<env, live, stage, held, ready, signalled, serverErrs, reloads>>
logging == <<queue, batch, writer, logCancelled, counts, slow>>
judging == <<samples, worker, qualityCancelled>>
database == <<rows, score, querying>>
vars == <<process, req, logging, judging, database, faults, excuses, lost>>

Booting == {"config", "tracing", "resilience", "postgres", "cache", "router",
            "quality", "identity", "bindPublic", "bindAdmin"}
Draining == {"unready", "draining", "cancelQuality", "waitQuality", "cancelLog", "waitLog"}
Stages == Booting \cup {"start", "workers", "announce", "serving", "unwind", "exited"} \cup Draining

Ids == Requests \cup Supplied
WriterStates == {"off", "loop", "flush", "final", "backoff", "done"}
Idle == [pc |-> "idle", sample |-> None]

TypeOK ==
  /\ env \in Environments /\ live \in Files /\ stage \in Stages
  /\ held \subseteq Resources
  /\ {ready, signalled, logCancelled, qualityCancelled, slow} \subseteq BOOLEAN
  /\ serverErrs \subseteq Listeners
  /\ req \in [Requests -> [pc : {"none", "running", "sampled", "finished"}, id : Ids]]
  /\ querying \subseteq Admins
  /\ queue \in Seq(Requests) /\ Len(queue) <= QueueSize
  /\ batch \in Seq(Requests) /\ writer \in WriterStates
  /\ counts \in [{"written", "dropped", "failed"} -> Nat]
  /\ rows \in [Ids -> Requests \cup {None}] /\ score \in [Ids -> 0 .. 5]
  /\ samples \in Seq(Requests) /\ Len(samples) <= SampleQueue
  /\ worker \in [Workers -> [pc : {"off", "idle", "judging", "storing", "backoff", "stopped"},
                             sample : Requests \cup {None}]]
  /\ faults \in 0 .. MaxFaults /\ reloads \in 0 .. MaxReloads
  /\ lost \subseteq Requests

Init ==
  /\ env \in Environments
  /\ live = env.file
  /\ stage = "config" /\ held = {} /\ ready = FALSE /\ signalled = FALSE /\ serverErrs = {}
  /\ req = [r \in Requests |-> [pc |-> "none", id |-> r]]
  /\ querying = {}
  /\ queue = <<>> /\ batch = <<>> /\ writer = "off" /\ logCancelled = FALSE /\ slow = FALSE
  /\ counts = [o \in {"written", "dropped", "failed"} |-> 0]
  /\ rows = [i \in Ids |-> None] /\ score = [i \in Ids |-> 0]
  /\ samples = <<>> /\ worker = [w \in Workers |-> [Idle EXCEPT !.pc = "off"]] /\ qualityCancelled = FALSE
  /\ faults = MaxFaults /\ reloads = MaxReloads
  /\ excuses = {} /\ lost = {}

Alive == stage # "exited"
Fault == faults > 0 /\ faults' = faults - 1

-----------------------------------------------------------------------------
(* Booting.  Each step of run() either leads to the next or ends the boot; *)
(* what was deferred is then run by ClosePool and Exit.                    *)

Boot(here, ok, next, opened) ==
  /\ stage = here
  /\ stage' = IF ok THEN next ELSE "unwind"
  /\ held' = IF ok THEN held \cup opened ELSE held
  /\ UNCHANGED <<env, live, ready, signalled, serverErrs, reloads, req, logging, judging,
                 database, faults, excuses, lost>>

\* loadLiveConfig: what providers.yaml holds is checked as a whole.
loadLiveConfig(file) == file.valid

LoadConfig == Boot("config", loadLiveConfig(env.file), "tracing", {})

\* Tracing and the metrics registry may refuse; the Redis client connects lazily.
SetUpTracing == \E ok \in BOOLEAN : Boot("tracing", ok, "resilience", {"tracing", "redis"})

\* The breaker registry, the health monitor, its checker and the retry policy
\* each refuse settings that make no sense.
BuildResilience == Boot("resilience", env.settings, "postgres", {})

\* The password, the pool, and the team store's first snapshot.
OpenPostgres == Boot("postgres", env.database, "cache", {"pool"})

\* An absent file or enabled: false leaves the cache out.
BuildCache == Boot("cache", env.cache # "broken", "router", {})

\* Both tiers are declared, and no model bears the name of a routing keyword.
validateRoutingPolicy(file) ==
  /\ {Policy.simple, Policy.complex} \subseteq file.tiers
  /\ {AutoModel, Policy.simple, Policy.complex} \cap file.models = {}

BuildRouter ==
  Boot("router", env.router = "off" \/ (env.router = "on" /\ validateRoutingPolicy(live)), "quality", {})

\* The judge's model must be one that some provider serves.
BuildQuality ==
  Boot("quality", env.quality = "off" \/ (env.quality = "on" /\ JudgeModel \in live.models), "identity", {})

\* Dashboard sign-in must be configured; both servers are built.
BuildIdentity == Boot("identity", env.identity, "bindPublic", {})

BindPublic == Boot("bindPublic", "public" \in env.ports, "bindAdmin", {"public"})

\* When the admin port is taken the public one is closed again.
BindAdmin ==
  /\ stage = "bindAdmin"
  /\ IF "admin" \in env.ports
     THEN stage' = "start" /\ held' = held \cup {"admin"}
     ELSE stage' = "unwind" /\ held' = held \ {"public"}
  /\ UNCHANGED <<env, live, ready, signalled, serverErrs, reloads, req, logging, judging,
                 database, faults, excuses, lost>>

\* The listeners are served before the workers are started.
Serve ==
  /\ stage = "start"
  /\ stage' = "workers"
  /\ UNCHANGED <<env, live, held, ready, signalled, serverErrs, reloads, req, logging, judging,
                 database, faults, excuses, lost>>

\* Mutant: the gateway announces itself before its workers run.
StartWorkersReady ==
  /\ stage = "workers"
  /\ stage' = "announce"
  /\ ready' = TRUE
  /\ UNCHANGED <<env, live, held, signalled, serverErrs, reloads, req, logging, judging,
                 database, faults, excuses, lost>>

StartWorkers ==
  /\ stage = "workers"
  /\ stage' = "announce"
  /\ writer' = "loop"
  /\ worker' = [w \in Workers |-> IF env.quality = "on" THEN Idle ELSE worker[w]]
  /\ UNCHANGED <<env, live, held, ready, signalled, serverErrs, reloads, req, queue, batch,
                 logCancelled, counts, slow, samples, qualityCancelled, database, faults, excuses, lost>>

Announce ==
  /\ stage = "announce"
  /\ stage' = "serving"
  /\ ready' = TRUE
  /\ UNCHANGED <<env, live, held, signalled, serverErrs, reloads, req, logging, judging,
                 database, faults, excuses, lost>>

\* POST /admin/reload: the file as it is now is loaded in full, or refused.
Reload(file) ==
  /\ stage \in {"workers", "announce", "serving"} /\ reloads > 0
  /\ reloads' = reloads - 1
  /\ live' = IF loadLiveConfig(file) THEN file ELSE live
  /\ UNCHANGED <<env, stage, held, ready, signalled, serverErrs, req, logging, judging,
                 database, faults, excuses, lost>>

-----------------------------------------------------------------------------
(* Leaving.                                                                *)

\* SIGINT or SIGTERM.  Before NotifyContext it ends the process on the spot.
Signal ==
  /\ Alive /\ ~ signalled
  /\ signalled' = TRUE
  /\ IF stage \in Booting THEN stage' = "exited" /\ held' = {} ELSE UNCHANGED <<stage, held>>
  /\ UNCHANGED <<env, live, ready, serverErrs, reloads, req, logging, judging,
                 database, faults, excuses, lost>>

\* serve: an accept loop fails or panics; the error is buffered.
ListenerFails(l) ==
  /\ stage \in {"workers", "announce", "serving"}
  /\ l \in held
  /\ Fault
  /\ serverErrs' = serverErrs \cup {l} /\ held' = held \ {l}
  /\ UNCHANGED <<env, live, stage, ready, signalled, reloads, req, logging, judging,
                 database, excuses, lost>>

Move(from, to) ==
  /\ stage = from
  /\ stage' = to

Unchanged == UNCHANGED <<env, live, reloads, signalled, serverErrs, req, queue, batch, writer, counts, samples,
                         worker, database, faults, lost>>

\* The select of run(): readiness fails first.
StopServing ==
  /\ Move("serving", "unready")
  /\ signalled \/ serverErrs # {}
  /\ ready' = FALSE
  /\ Unchanged /\ UNCHANGED <<held, logCancelled, slow, qualityCancelled, excuses>>

\* Mutant: the log is drained together with the listeners.
CloseListenersAndLog ==
  /\ Move("unready", "draining")
  /\ held' = held \ Listeners
  /\ logCancelled' = TRUE
  /\ Unchanged /\ UNCHANGED <<ready, slow, qualityCancelled, excuses>>

\* shutdown: both listeners close at once.
CloseListeners ==
  /\ Move("unready", "draining")
  /\ held' = held \ Listeners
  /\ Unchanged /\ UNCHANGED <<ready, logCancelled, slow, qualityCancelled, excuses>>

Running == {r \in Requests : req[r].pc \in {"running", "sampled"}}

\* Mutant: the drain waits for its last request, however long it takes.
DrainPatiently ==
  /\ Move("draining", "cancelQuality")
  /\ Running = {}
  /\ Unchanged /\ UNCHANGED <<held, ready, logCancelled, slow, qualityCancelled, excuses>>

\* Shutdown returns when no request is left, or at the drain timeout.
Drain ==
  /\ Move("draining", "cancelQuality")
  /\ excuses' = IF Running = {} THEN excuses ELSE excuses \cup {"drain timed out"}
  /\ Unchanged /\ UNCHANGED <<held, ready, logCancelled, slow, qualityCancelled>>

CancelQuality ==
  /\ Move("cancelQuality", "waitQuality")
  /\ qualityCancelled' = TRUE
  /\ Unchanged /\ UNCHANGED <<held, ready, logCancelled, slow, excuses>>

\* Worker.Wait: until every worker has stopped, or three seconds.
WaitQuality ==
  /\ Move("waitQuality", "cancelLog")
  /\ Unchanged /\ UNCHANGED <<held, ready, logCancelled, slow, qualityCancelled, excuses>>

CancelLog ==
  /\ Move("cancelLog", "waitLog")
  /\ logCancelled' = TRUE
  /\ slow' = (writer = "flush")
  /\ Unchanged /\ UNCHANGED <<held, ready, qualityCancelled, excuses>>

\* Writer.Wait: until the writer is done.  One flush ends in time; a periodic
\* one followed by the final one may not.
WaitLog ==
  /\ Move("waitLog", "unwind")
  /\ writer = "done" \/ slow
  /\ excuses' = IF writer = "done" THEN excuses ELSE excuses \cup {"wait timed out"}
  /\ Unchanged /\ UNCHANGED <<held, ready, logCancelled, slow, qualityCancelled>>

Storing == {w \in Workers : worker[w].pc = "storing"}
Flushing == writer \in {"flush", "final"}

\* What was deferred, last first: the workers' contexts, the signal context,
\* then the pool, which is closed once its connections are back, whoever has them.
ClosePool ==
  /\ stage = "unwind" /\ "pool" \in held
  /\ Storing = {} /\ ~ Flushing /\ querying = {}
  /\ held' = held \ {"pool"}
  /\ qualityCancelled' = TRUE /\ logCancelled' = TRUE
  /\ UNCHANGED <<stage, ready, slow, excuses>> /\ Unchanged

\* Redis and tracing are closed, and the process ends.
Exit ==
  /\ Move("unwind", "exited")
  /\ "pool" \notin held
  /\ held' = held \ {"tracing", "redis"}
  /\ Unchanged /\ UNCHANGED <<ready, logCancelled, slow, qualityCancelled, excuses>>

-----------------------------------------------------------------------------
(* Requests.                                                               *)

\* RequestID: the caller's own, or a fresh one.
Begin(r, id) ==
  /\ Alive /\ req[r].pc = "none"
  /\ "public" \in held /\ stage \notin Booting \cup {"start"}
  /\ id \in {r} \cup Supplied
  /\ req' = [req EXCEPT ![r] = [pc |-> "running", id |-> id]]
  /\ UNCHANGED <<process, logging, judging, database, faults, excuses, lost>>

Kinds == {"plain", "routed", "downgraded", "near"}

\* Decide: the verdicts the sampler may reach.  A near-threshold hit and a
\* downgraded answer are always sampled, a routed one by the roll of a die.
Decide(kind) ==
  CASE kind \in {"near", "downgraded"} -> {TRUE}
    [] kind = "routed" -> BOOLEAN
    [] OTHER -> {FALSE}

\* considerQuality and Enqueue: a full queue drops the sample.
Sample(r, kind) ==
  /\ Alive /\ req[r].pc = "running"
  /\ env.quality = "on"
  /\ req' = [req EXCEPT ![r].pc = "sampled"]
  /\ \E chosen \in Decide(kind) :
       samples' = IF chosen /\ Len(samples) < SampleQueue THEN Append(samples, r) ELSE samples
  /\ UNCHANGED <<process, logging, worker, qualityCancelled, database, faults, excuses, lost>>

\* Writer.Write: a full queue drops the row.
Write(r) ==
  IF Len(queue) < QueueSize
  THEN queue' = Append(queue, r) /\ UNCHANGED counts
  ELSE counts' = [counts EXCEPT !["dropped"] = @ + 1] /\ UNCHANGED queue

\* RequestLog, behind the whole handler.
Finish(r) ==
  /\ Alive /\ r \in Running
  /\ req' = [req EXCEPT ![r].pc = "finished"]
  /\ Write(r)
  /\ UNCHANGED <<process, batch, writer, logCancelled, slow, judging, database, faults, excuses, lost>>

\* A request that came in on the admin listener queries the database under its own
\* context, which has no deadline.  Shutdown does not end the request when the drain
\* times out; a pool that is being closed gives out no connection.  Only
\* ClosePool waits for a query, so one is seen from the stage before it on.
Query(a) ==
  /\ stage = "waitLog"
  /\ a \notin querying
  /\ querying' = querying \cup {a}
  /\ UNCHANGED <<process, req, logging, judging, rows, score, faults, excuses, lost>>

\* The database answers, or the client hangs up.
QueryEnds(a) ==
  /\ Alive /\ a \in querying
  /\ querying' = querying \ {a}
  /\ UNCHANGED <<process, req, logging, judging, rows, score, faults, excuses, lost>>

-----------------------------------------------------------------------------
(* The log writer: loop, flush and finalFlush, under Supervise.            *)

\* loop: a row is taken; a full batch is flushed.
TakeRow ==
  /\ Alive /\ writer = "loop" /\ queue # <<>>
  /\ batch' = Append(batch, Head(queue))
  /\ queue' = Tail(queue)
  /\ writer' = IF Len(batch') >= BatchSize THEN "flush" ELSE "loop"
  /\ UNCHANGED <<process, req, logCancelled, counts, slow, judging, database, faults, excuses, lost>>

\* The ticker.
TickFlush ==
  /\ Alive /\ writer = "loop" /\ batch # <<>>
  /\ writer' = "flush"
  /\ UNCHANGED <<process, req, queue, batch, logCancelled, counts, slow, judging, database, faults, excuses, lost>>

\* finalFlush: everything still queued joins the batch.
FinalFlush ==
  /\ Alive /\ writer = "loop" /\ logCancelled
  /\ batch' = batch \o queue /\ queue' = <<>>
  /\ writer' = IF batch' = <<>> THEN "done" ELSE "final"
  /\ UNCHANGED <<process, req, logCancelled, counts, slow, judging, database, faults, excuses, lost>>

Batched == ToSet(batch)

\* ON CONFLICT (id) DO NOTHING: the first row of an ID stays.
inserted ==
  [i \in Ids |-> LET new == {k \in DOMAIN batch : req[batch[k]].id = i}
                 IN  IF rows[i] = None /\ new # {} THEN batch[Min(new)] ELSE rows[i]]

afterFlush == IF writer = "final" THEN "done" ELSE "loop"

\* Mutant: a batch that failed is kept for the next flush.
FlushFailsKeeping(reached) ==
  /\ Alive /\ Flushing
  /\ IF "pool" \in held THEN Fault ELSE UNCHANGED faults
  /\ rows' = IF reached /\ "pool" \in held THEN inserted ELSE rows
  /\ counts' = [counts EXCEPT !["failed"] = @ + Len(batch)]
  /\ writer' = afterFlush
  /\ UNCHANGED <<process, req, queue, batch, logCancelled, slow, judging, score, querying, excuses, lost>>

\* The batch is one round trip: all of it is written, or none.
FlushWritten ==
  /\ Alive /\ Flushing /\ "pool" \in held
  /\ rows' = inserted
  /\ counts' = [counts EXCEPT !["written"] = @ + Len(batch)]
  /\ batch' = <<>> /\ writer' = afterFlush
  /\ UNCHANGED <<process, req, queue, logCancelled, slow, judging, score, querying, faults, excuses, lost>>

\* An error: the rows are counted and given up, though an answer that was lost
\* leaves them written.
FlushFails(reached) ==
  /\ Alive /\ Flushing
  /\ IF "pool" \in held THEN Fault ELSE UNCHANGED faults
  /\ rows' = IF reached /\ "pool" \in held THEN inserted ELSE rows
  /\ counts' = [counts EXCEPT !["failed"] = @ + Len(batch)]
  /\ batch' = <<>> /\ writer' = afterFlush
  /\ UNCHANGED <<process, req, queue, logCancelled, slow, judging, score, querying, excuses, lost>>

\* A panic unwinds the loop, and its batch with it.
FlushPanics ==
  /\ Alive /\ Flushing
  /\ Fault
  /\ lost' = lost \cup Batched
  /\ batch' = <<>> /\ writer' = "backoff"
  /\ UNCHANGED <<process, req, queue, logCancelled, counts, slow, judging, database, excuses>>

\* Mutant: a panic ends the loop for good.
RestartWriterNever ==
  /\ Alive /\ writer = "backoff" /\ logCancelled
  /\ writer' = "loop"
  /\ UNCHANGED <<process, req, queue, batch, logCancelled, counts, slow, judging, database, faults, excuses, lost>>

\* Supervise: the loop starts over after the backoff.
RestartWriter ==
  /\ Alive /\ writer = "backoff"
  /\ writer' = "loop"
  /\ UNCHANGED <<process, req, queue, batch, logCancelled, counts, slow, judging, database, faults, excuses, lost>>

\* Supervise gives up when the context is cancelled during the backoff.
AbandonWriter ==
  /\ Alive /\ writer = "backoff" /\ logCancelled
  /\ writer' = "done"
  /\ excuses' = IF queue = <<>> THEN excuses ELSE excuses \cup {"writer abandoned"}
  /\ UNCHANGED <<process, req, queue, batch, logCancelled, counts, slow, judging, database, faults, lost>>

-----------------------------------------------------------------------------
(* The quality worker.                                                     *)

Pick(w) ==
  /\ Alive /\ worker[w].pc = "idle" /\ samples # <<>>
  /\ worker' = [worker EXCEPT ![w] = [pc |-> "judging", sample |-> Head(samples)]]
  /\ samples' = Tail(samples)
  /\ UNCHANGED <<process, req, logging, qualityCancelled, database, faults, excuses, lost>>

clamp(n) == IF n < 1 THEN 1 ELSE IF n > 5 THEN 5 ELSE n
leadingDigit(n) == IF n < 10 THEN n ELSE n \div 10

\* parseVerdict: a JSON score that is not zero is clamped; otherwise the first
\* digit after the word "score" counts, if it is one of 0 to 5.
parseVerdict(reply) ==
  CASE reply.json /\ reply.n # 0 -> clamp(reply.n)
    [] ~ (reply.json /\ reply.n # 0) /\ leadingDigit(reply.n) \in 0 .. 5 -> clamp(leadingDigit(reply.n))
    [] OTHER -> 0

\* Score: the judge's model is resolved anew, and its reply must hold a score.
Judged(w, reply) ==
  /\ Alive /\ worker[w].pc = "judging"
  /\ JudgeModel \in live.models /\ parseVerdict(reply) # 0
  /\ worker' = [worker EXCEPT ![w].pc = "storing"]
  /\ UNCHANGED <<process, req, logging, samples, qualityCancelled, database, faults, excuses, lost>>

\* No provider, no answer, no score in it, or the context is cancelled.
JudgeFails(w) ==
  /\ Alive /\ worker[w].pc = "judging"
  /\ IF JudgeModel \notin live.models \/ qualityCancelled \/ \E reply \in Replies : parseVerdict(reply) = 0
     THEN UNCHANGED faults ELSE Fault
  /\ worker' = [worker EXCEPT ![w] = Idle]
  /\ UNCHANGED <<process, req, logging, samples, qualityCancelled, database, excuses, lost>>

JudgePanics(w) ==
  /\ Alive /\ worker[w].pc = "judging"
  /\ Fault
  /\ worker' = [worker EXCEPT ![w] = [Idle EXCEPT !.pc = "backoff"]]
  /\ UNCHANGED <<process, req, logging, samples, qualityCancelled, database, excuses, lost>>

\* SetQualityScore: an UPDATE that finds no row does nothing, and is not an error.
StoreScore(w, reply) ==
  LET id == req[worker[w].sample].id
  IN  /\ Alive /\ worker[w].pc = "storing"
      /\ parseVerdict(reply) # 0
      /\ "pool" \in held /\ ~ qualityCancelled
      /\ score' = IF rows[id] = None THEN score ELSE [score EXCEPT ![id] = parseVerdict(reply)]
      /\ worker' = [worker EXCEPT ![w] = Idle]
      /\ UNCHANGED <<process, req, logging, samples, qualityCancelled, rows, querying, faults, excuses, lost>>

StoreFails(w) ==
  /\ Alive /\ worker[w].pc = "storing"
  /\ IF qualityCancelled THEN UNCHANGED faults ELSE Fault
  /\ worker' = [worker EXCEPT ![w] = Idle]
  /\ UNCHANGED <<process, req, logging, samples, qualityCancelled, database, excuses, lost>>

RestartWorker(w) ==
  /\ Alive /\ worker[w].pc = "backoff"
  /\ worker' = [worker EXCEPT ![w] = Idle]
  /\ UNCHANGED <<process, req, logging, samples, qualityCancelled, database, faults, excuses, lost>>

\* Run returns without draining its queue.
StopWorker(w) ==
  /\ Alive /\ worker[w].pc \in {"idle", "backoff"} /\ qualityCancelled
  /\ worker' = [worker EXCEPT ![w] = [Idle EXCEPT !.pc = "stopped"]]
  /\ UNCHANGED <<process, req, logging, samples, qualityCancelled, database, faults, excuses, lost>>

-----------------------------------------------------------------------------
Starting ==
  \/ LoadConfig \/ SetUpTracing \/ BuildResilience \/ OpenPostgres \/ BuildCache \/ BuildRouter
  \/ BuildQuality \/ BuildIdentity \/ BindPublic \/ BindAdmin \/ Serve \/ StartWorkers \/ Announce
Leaving ==
  \/ StopServing \/ CloseListeners \/ Drain \/ CancelQuality \/ WaitQuality \/ CancelLog \/ WaitLog
  \/ ClosePool \/ Exit
Main == Starting \/ Leaving
LogWriter ==
  \/ TakeRow \/ TickFlush \/ FinalFlush \/ FlushWritten \/ (\E reached \in BOOLEAN : FlushFails(reached))
  \/ FlushPanics \/ RestartWriter \/ AbandonWriter
QualityWorker(w) ==
  \/ Pick(w) \/ JudgeFails(w) \/ JudgePanics(w) \/ StoreFails(w) \/ RestartWorker(w) \/ StopWorker(w)
  \/ \E reply \in Replies : Judged(w, reply) \/ StoreScore(w, reply)
Request(r) == (\E id \in Ids : Begin(r, id)) \/ (\E kind \in Kinds : Sample(r, kind)) \/ Finish(r)
Admin(a) == Query(a) \/ QueryEnds(a)

Next ==
  \/ Main \/ LogWriter \/ Signal
  \/ \E l \in Listeners : ListenerFails(l)
  \/ \E file \in Files : Reload(file)
  \/ \E r \in Requests : Request(r)
  \/ \E a \in Admins : Admin(a)
  \/ \E w \in Workers : QualityWorker(w)

\* main's goroutine and the two workers are scheduled, their timers fire, and their
\* database and judge calls return: FlushTimeout, the judge's timeout and the workers'
\* contexts end them.  Requests may never end, and a query of the admin listener may
\* never return.
Spec == Init /\ [][Next]_vars /\ WF_vars(Main) /\ WF_vars(LogWriter)
        /\ \A w \in Workers : WF_vars(QualityWorker(w))

-----------------------------------------------------------------------------
Finished == {r \in Requests : req[r].pc = "finished"}

\* Whoever is told by /readyz to send traffic finds both listeners open, or
\* about to be reported as failed, over everything a request needs: the pool,
\* a running log writer and running quality workers.
ReadyMeansServing ==
  ready => /\ stage = "serving"
           /\ held \cup serverErrs = Resources
           /\ writer # "off"
           /\ env.quality = "on" => \A w \in Workers : worker[w].pc # "off"
           /\ env.router = "on" => {AutoModel, Policy.simple, Policy.complex} \cap env.file.models = {}

\* Every row handed to the writer is in one place: queued, in the batch,
\* counted once as written, dropped or failed, or in a batch a panic took.
RowsCountedOnce ==
  counts["written"] + counts["dropped"] + counts["failed"] + Cardinality(lost) + Len(queue) + Len(batch)
    = Cardinality(Finished)

\* After an exit in order (every request drained in time, the writer waited for
\* and not abandoned), a finished request has a row under its ID unless its row
\* was counted as dropped or failed or was taken by a panic.
DrainKeepsRows ==
  stage = "exited" /\ excuses = {} =>
    Cardinality({r \in Finished : rows[req[r].id] = None})
      <= counts["dropped"] + counts["failed"] + Cardinality(lost)

\* Once asked to stop, the process exits, though requests may never end, as long as
\* every connection an admin or sign-in request has borrowed from the pool comes back:
\* nothing else is waited for without a bound.
ShutdownTerminates ==
  (\A a \in Admins : []<>(a \notin querying))
    => ((signalled \/ serverErrs # {}) ~> (stage = "exited"))

Backlog == queue # <<>> \/ batch # <<>> \/ samples # <<>>

\* No row and no sample waits forever while the gateway works: panics are survived,
\* and both workers come back to their queues.  What a request that outlives the drain
\* queues after the writer has gone stays there until the process ends.
BacklogsDrain == Backlog ~> (~ Backlog \/ stage \in {"unwind", "exited"})
=============================================================================
