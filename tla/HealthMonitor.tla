--------------------------- MODULE HealthMonitor ---------------------------
(***************************************************************************)
(* The health of the providers of one tier, as one replica sees it:        *)
(* passive samples of real calls (health/passive.go), active pings         *)
(* (health/checker.go), the evaluation with hysteresis, its transition log *)
(* and the verdict kept in Redis over restarts (health/status.go).  The    *)
(* key has no replica in its name: every replica writes its own verdict to *)
(* it, and reads it when it starts.                                        *)
(*                                                                         *)
(* The loop is closed: a verdict decides which provider a call reaches     *)
(* (resilience/fallback.go), calls move the breaker, and an open breaker   *)
(* is an input of the next verdict (BreakerRegistry.AnyOpen).  Of a        *)
(* breaker only its state is kept; Breaker models the rest.                *)
(*                                                                         *)
(* Observe holds the provider's mutex throughout and the window has its    *)
(* own, so an evaluation is one step and a sample is one step.  Ages are   *)
(* kept relative to the clock; WindowDuration + 1 is "too old".            *)
(***************************************************************************)
EXTENDS Integers, Sequences, SequencesExt, FiniteSets

CONSTANTS
  Tier,                     \* the providers, in the tier's declared order
  WindowCapacity,           \* windowCapacity
  WindowDuration,           \* windowDuration
  Outcomes,                 \* how a call may end: [latency, failed]
  Good,                     \* how it ends while the provider is well
  DegradedErrorRate,        \* in percent
  DownErrorRate,            \* in percent
  DownConsecutiveFailures,
  RecoveryStreak,
  HistoryCapacity,          \* transitionHistoryCapacity
  MaxFaults,                \* Redis commands that fail in a behaviour
  MaxRestarts               \* restarts in a behaviour

Providers == ToSet(Tier)

\* MonitorConfig.validate, and what the constants of the package are.
validate ==
  /\ Len(Tier) = Cardinality(Providers)
  /\ WindowCapacity \in Nat \ {0} /\ WindowDuration \in Nat \ {0}
  /\ \A o \in Outcomes : o.latency \in Nat \ {0} /\ o.failed \in BOOLEAN
  /\ Good \in Outcomes /\ ~ Good.failed
  /\ DegradedErrorRate \in 1 .. 99 /\ DownErrorRate \in DegradedErrorRate + 1 .. 99
  /\ DownConsecutiveFailures \in Nat \ {0} /\ RecoveryStreak \in Nat \ {0}
  /\ HistoryCapacity \in Nat \ {0}
  /\ MaxFaults \in Nat /\ MaxRestarts \in Nat
ASSUME MonitorConfigValid == validate

Healthy == "healthy"
Degraded == "degraded"
Down == "down"
Statuses == {Healthy, Degraded, Down}
NoStatus == "none"

VARIABLES
  win,       \* win[p]: the ring buffer of samples, and where the next one goes
  st,        \* st[p]: providerState
  log,       \* log[p]: the ring buffer of transitions
  breaker,   \* breaker[p]: the state of p's breaker
  redis,     \* redis[p]: the persisted status
  well,      \* well[p]: p answers, and quickly
  faults, restarts,
  clean,     \* history: clean[p]: clean evaluations in a row while not healthy
  unsaved,   \* history: unsaved[p]: the last write of p's status failed
  foreign    \* history: foreign[p]: the verdict of another replica that was written last, if any

healthVars == <<win, st, log, breaker, redis, well, faults, restarts, clean, unsaved, foreign>>

Ages == 0 .. WindowDuration + 1
Sample == [age : Ages, outcome : Outcomes]
Transition == [from : Statuses, to : Statuses]

MaxLatency == Max({o.latency : o \in Outcomes})

HealthTypeOK ==
  /\ \A p \in Providers :
       /\ win[p].samples \in Seq(Sample) /\ Len(win[p].samples) <= WindowCapacity
       /\ win[p].next \in 0 .. WindowCapacity - 1
       /\ st[p] \in [status : Statuses, consecutiveFails : 0 .. DownConsecutiveFailures,
                     recoveryStreak : 0 .. RecoveryStreak - 1, baselineP99 : 0 .. MaxLatency]
       /\ log[p].entries \in Seq(Transition) /\ Len(log[p].entries) <= HistoryCapacity
       /\ log[p].next \in 0 .. HistoryCapacity - 1
  /\ breaker \in [Providers -> {"closed", "open", "half_open"}]
  /\ redis \in [Providers -> Statuses \cup {NoStatus}]
  /\ well \in [Providers -> BOOLEAN]
  /\ faults \in 0 .. MaxFaults /\ restarts \in 0 .. MaxRestarts
  /\ clean \in [Providers -> 0 .. RecoveryStreak]
  /\ unsaved \in [Providers -> BOOLEAN]
  /\ foreign \in [Providers -> Statuses \cup {NoStatus}]

-----------------------------------------------------------------------------
(* The two ring buffers.                                                   *)

append(entries, next, capacity, e) ==
  IF Len(entries) < capacity THEN Append(entries, e)
  ELSE [entries EXCEPT ![next + 1] = e]

record(w, s) ==
  [samples |-> append(w.samples, w.next, WindowCapacity, s),
   next |-> (w.next + 1) % WindowCapacity]

logTransition(l, t) ==
  [entries |-> append(l.entries, l.next, HistoryCapacity, t),
   next |-> (l.next + 1) % HistoryCapacity]

\* window.stats: only samples of at most WindowDuration count.  The index
\* int(n * 0.99) of the sorted latencies is the last one for n <= 100.
stats(samples) ==
  LET fresh == {k \in DOMAIN samples : samples[k].age <= WindowDuration}
  IN  [count |-> Cardinality(fresh),
       errors |-> Cardinality({k \in fresh : samples[k].outcome.failed}),
       p99 |-> IF fresh = {} THEN 0 ELSE Max({samples[k].outcome.latency : k \in fresh})]

NewWindow == [samples |-> <<>>, next |-> 0]
NewLog == [entries |-> <<>>, next |-> 0]

\* haveBaseline is baselineP99 > 0: a latency is never zero.
NewState(status) ==
  [status |-> status, consecutiveFails |-> 0, recoveryStreak |-> 0, baselineP99 |-> 0]

HealthInit ==
  /\ win = [p \in Providers |-> NewWindow]
  /\ st = [p \in Providers |-> NewState(Healthy)]
  /\ log = [p \in Providers |-> NewLog]
  /\ breaker = [p \in Providers |-> "closed"]
  /\ redis = [p \in Providers |-> NoStatus]
  /\ well \in [Providers -> BOOLEAN]
  /\ faults = MaxFaults
  /\ restarts = MaxRestarts
  /\ clean = [p \in Providers |-> 0]
  /\ unsaved = [p \in Providers |-> FALSE]
  /\ foreign = [p \in Providers |-> NoStatus]

-----------------------------------------------------------------------------
(* One evaluation.                                                         *)

AnyOpen(p) == breaker[p] = "open"

errorRateAtLeast(s, rate) == s.count > 0 /\ s.errors * 100 >= rate * s.count

\* The raw verdict, most severe reason first.
classify(p, fails, s) ==
  IF fails >= DownConsecutiveFailures \/ errorRateAtLeast(s, DownErrorRate) THEN Down
  ELSE IF \/ AnyOpen(p)
          \/ errorRateAtLeast(s, DegradedErrorRate)
          \/ st[p].baselineP99 > 0 /\ s.count > 0 /\ s.p99 >= 3 * st[p].baselineP99
       THEN Degraded
  ELSE Healthy

\* Mutant of transition: a failed ping short of the limit leaves the streak alone.
transitionForgiving(state, raw, pingOK) ==
  IF raw # Healthy THEN [state EXCEPT !.status = raw, !.recoveryStreak = 0]
  ELSE IF state.status = Healthy \/ ~ pingOK THEN state
  ELSE IF state.recoveryStreak + 1 < RecoveryStreak THEN [state EXCEPT !.recoveryStreak = @ + 1]
  ELSE [state EXCEPT !.status = Healthy, !.recoveryStreak = 0]

\* Mutant of transition: the streak is set to one where it should be counted up.
transitionStalled(state, raw, pingOK) ==
  IF raw # Healthy THEN [state EXCEPT !.status = raw, !.recoveryStreak = 0]
  ELSE IF state.status = Healthy THEN state
  ELSE IF ~ pingOK THEN [state EXCEPT !.recoveryStreak = 0]
  ELSE IF RecoveryStreak > 1 THEN [state EXCEPT !.recoveryStreak = 1]
  ELSE [state EXCEPT !.status = Healthy]

\* Bad news is immediate, recovery needs RecoveryStreak clean evaluations.
transition(state, raw, pingOK) ==
  IF raw # Healthy THEN [state EXCEPT !.status = raw, !.recoveryStreak = 0]
  ELSE IF state.status = Healthy THEN state
  ELSE IF ~ pingOK THEN [state EXCEPT !.recoveryStreak = 0]
  ELSE IF state.recoveryStreak + 1 < RecoveryStreak THEN [state EXCEPT !.recoveryStreak = @ + 1]
  ELSE [state EXCEPT !.status = Healthy, !.recoveryStreak = 0]

\* baselineAlpha = 0.2, truncated like a time.Duration (whose unit is finer).
updateBaseline(state, s) ==
  IF s.count = 0 THEN state
  ELSE IF state.baselineP99 = 0 THEN [state EXCEPT !.baselineP99 = s.p99]
  ELSE [state EXCEPT !.baselineP99 = (s.p99 + 4 * @) \div 5]

\* setStatus and persist: a change is logged and written to Redis, best effort.
Commit(p, new) ==
  IF new.status = st[p].status THEN UNCHANGED <<log, redis, faults, unsaved, foreign>>
  ELSE /\ log' = [log EXCEPT ![p] = logTransition(@, [from |-> st[p].status, to |-> new.status])]
       /\ \/ /\ redis' = [redis EXCEPT ![p] = new.status]
             /\ unsaved' = [unsaved EXCEPT ![p] = FALSE]
             /\ foreign' = [foreign EXCEPT ![p] = NoStatus]
             /\ UNCHANGED faults
          \/ /\ faults > 0
             /\ faults' = faults - 1
             /\ unsaved' = [unsaved EXCEPT ![p] = TRUE]
             /\ UNCHANGED <<redis, foreign>>

\* Checker.check and Observe.
Observe(p, pingOK) ==
  /\ well[p] => pingOK
  /\ LET counted == IF pingOK THEN 0 ELSE Min({st[p].consecutiveFails + 1, DownConsecutiveFailures})
     IN  \E s \in {stats(win[p].samples)} : \E raw \in {classify(p, counted, s)} :
         \E new \in {transition([st[p] EXCEPT !.consecutiveFails = counted], raw, pingOK)} :
           /\ st' = [st EXCEPT ![p] = updateBaseline(new, s)]
           /\ Commit(p, new)
           /\ clean' = [clean EXCEPT ![p] =
                          IF raw # Healthy \/ ~ pingOK \/ st[p].status = Healthy THEN 0
                          ELSE Min({@ + 1, RecoveryStreak})]
           /\ UNCHANGED <<win, breaker, well, restarts>>

-----------------------------------------------------------------------------
(* Traffic.                                                                *)

AllDown == \A p \in Providers : st[p].status = Down

\* BuildChain: q is tried before p.
band(p) == IF st[p].status = Healthy THEN 1 ELSE IF st[p].status = Degraded THEN 2 ELSE 3
place(p) == CHOOSE k \in DOMAIN Tier : Tier[k] = p
InChain(p) == st[p].status # Down \/ AllDown
Ahead(q, p) == InChain(q) /\ (band(q) < band(p) \/ (band(q) = band(p) /\ place(q) < place(p)))

\* runChain gets to p only when everyone ahead of it was skipped or failed.
Reaches(p) ==
  /\ InChain(p)
  /\ \A q \in Providers : Ahead(q, p) => breaker[q] # "closed" \/ ~ well[q]

\* A request finds the cooldown over and claims the probe.
ClaimProbe(p) ==
  /\ breaker[p] = "open"
  /\ Reaches(p)
  /\ breaker' = [breaker EXCEPT ![p] = "half_open"]
  /\ UNCHANGED <<win, st, log, redis, well, faults, restarts, clean, unsaved, foreign>>

\* A call that ends: the breaker hears of it, and the recorder (Recorder.Record).
Call(p, outcome) ==
  LET s == [age |-> 0, outcome |-> outcome]
      ok == ~ outcome.failed
  IN  /\ \/ breaker[p] = "closed" /\ Reaches(p)
         \/ breaker[p] = "half_open"
      /\ well[p] => outcome = Good
      /\ win' = [win EXCEPT ![p] = record(@, s)]
      /\ \/ ok /\ breaker' = [breaker EXCEPT ![p] = "closed"]
         \/ ~ ok /\ breaker' = [breaker EXCEPT ![p] = "open"]
         \/ ~ ok /\ breaker[p] = "closed" /\ UNCHANGED breaker
      /\ UNCHANGED <<st, log, redis, well, faults, restarts, clean, unsaved, foreign>>

-----------------------------------------------------------------------------
\* Time passes for the samples; how one ended is not told apart once it is
\* too old to be counted.
older(samples) ==
  [k \in DOMAIN samples |->
     IF samples[k].age < WindowDuration THEN [samples[k] EXCEPT !.age = @ + 1]
     ELSE [age |-> WindowDuration + 1, outcome |-> Good]]

Elapse ==
  /\ win' = [p \in Providers |-> [win[p] EXCEPT !.samples = older(@)]]
  /\ UNCHANGED <<st, log, breaker, redis, well, faults, restarts, clean, unsaved, foreign>>

\* The provider fails, or is well again.
Turn(p) ==
  /\ well' = [well EXCEPT ![p] = ~ @]
  /\ UNCHANGED <<win, st, log, breaker, redis, faults, restarts, clean, unsaved, foreign>>

\* parseStatus, and the default of a key that was never written.
parseStatus(s) == IF s = NoStatus THEN Healthy ELSE s

\* The process dies and comes back: NewMonitor and restoreFromRedis.
Restart ==
  /\ restarts > 0
  /\ restarts' = restarts - 1
  /\ \/ /\ st' = [p \in Providers |-> NewState(parseStatus(redis[p]))]
        /\ UNCHANGED <<faults, unsaved>>
     \/ /\ faults > 0
        /\ faults' = faults - 1
        /\ st' = [p \in Providers |-> NewState(Healthy)]
        /\ unsaved' = [p \in Providers |-> TRUE]
  /\ win' = [p \in Providers |-> NewWindow]
  /\ log' = [p \in Providers |-> NewLog]
  /\ breaker' = [p \in Providers |-> "closed"]
  /\ clean' = [p \in Providers |-> 0]
  /\ UNCHANGED <<redis, well, foreign>>

\* persist of another replica: its verdict goes to the same key.
Overwrite(p) ==
  /\ \E s \in Statuses :
       /\ redis' = [redis EXCEPT ![p] = s]
       /\ foreign' = [foreign EXCEPT ![p] = s]
  /\ unsaved' = [unsaved EXCEPT ![p] = FALSE]
  /\ UNCHANGED <<win, st, log, breaker, well, faults, restarts, clean>>

HealthNext ==
  \/ \E p \in Providers :
       \/ \E ok \in BOOLEAN : Observe(p, ok)
       \/ \E o \in Outcomes : Call(p, o)
       \/ ClaimProbe(p)
       \/ Turn(p)
       \/ Overwrite(p)
  \/ Elapse
  \/ Restart

HealthSpec == HealthInit /\ [][HealthNext]_healthVars

\* Each provider is pinged again and again, time passes, and requests keep
\* coming: a provider they can reach is called, its breaker probed.
HealthFairSpec ==
  /\ HealthSpec
  /\ WF_healthVars(Elapse)
  /\ \A p \in Providers :
       /\ WF_healthVars(\E ok \in BOOLEAN : Observe(p, ok))
       /\ WF_healthVars(\E o \in Outcomes : Call(p, o))
       /\ WF_healthVars(ClaimProbe(p))

-----------------------------------------------------------------------------
\* "only landing on Healthy needs sustained good evidence": a verdict returns
\* to healthy only after RecoveryStreak evaluations in a row with a good ping
\* and nothing against the provider (transition).
RecoveryIsEarned ==
  [][\A p \in Providers :
       st[p].status # Healthy /\ st'[p].status = Healthy /\ restarts' = restarts
         => clean'[p] >= RecoveryStreak]_healthVars

\* "what lets status survive a gateway restart": unless a Redis command failed, a
\* restart brings back the verdict the process died with, or the one that another
\* replica has written since this one wrote its own, and no older one.
VerdictSurvivesRestart ==
  [][\A p \in Providers :
       restarts' # restarts /\ ~ unsaved'[p]
         => st'[p].status = IF foreign[p] = NoStatus THEN st[p].status ELSE foreign[p]]_healthVars

\* Both: no evaluation makes a provider healthy unearned, and a restart only on the
\* word of the replica that judged it last.
VerdictsAreEarned == RecoveryIsEarned /\ VerdictSurvivesRestart

\* A provider that stays well, with a breaker that does not stay open, is
\* healthy in the end: no old sample, slow baseline, broken streak or restored
\* status keeps it out.
Readmitted ==
  \A p \in Providers :
    <>[](well[p] /\ breaker[p] = "closed") => <>[](st[p].status = Healthy)
=============================================================================
