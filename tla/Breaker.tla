------------------------------ MODULE Breaker ------------------------------
(***************************************************************************)
(* One circuit breaker of internal/resilience/breaker.go as a value: the   *)
(* record the mutex b.mu guards, and the helpers that are called with that *)
(* mutex held.  LocalBreaker and SharedBreaker put callers, a clock and,   *)
(* in the second, the Redis store around it.                               *)
(*                                                                         *)
(* Timestamps are kept relative to the clock, so that states repeat:       *)
(*   failures      the ages of the failures in the window, oldest first;   *)
(*                 an age of Window + 1 stands for "older than Window";    *)
(*   cooldownLeft  what is left of cooldown since openedAt;                *)
(*   probeAge      the time since probeStartedAt, up to ProbeTimeout.      *)
(***************************************************************************)
EXTENDS Integers, Sequences

CONSTANTS
  FailureThreshold,  \* failures within Window that open a closed breaker
  Window,            \* length of the rolling failure window
  CooldownBase,      \* first wait in Open
  CooldownMax,       \* cap of the exponential wait
  SuccessThreshold,  \* probe successes that close a half-open breaker
  ProbeTimeout,      \* age at which an unreported probe is abandoned
  ReopensBound       \* model bound: reopens saturates here

maxCooldownExponent == 20

\* BreakerConfig.validate, and a bound on reopens beyond which nextCooldown is flat.
ASSUME BreakerConfigValid ==
  /\ FailureThreshold \in Nat \ {0}
  /\ Window \in Nat \ {0}
  /\ CooldownBase \in Nat \ {0}
  /\ CooldownMax \in Nat /\ CooldownMax >= CooldownBase
  /\ SuccessThreshold \in Nat \ {0}
  /\ ProbeTimeout \in Nat \ {0}
  /\ ReopensBound \in Nat \ {0}

\* The shifts of nextCooldown, as arithmetic facts the provers do not know.
ASSUME PowersOfTwo == \A e \in 0 .. maxCooldownExponent : 2 ^ e \in Nat \ {0}

Closed == "closed"
Open == "open"
HalfOpen == "half_open"
States == {Closed, Open, HalfOpen}

BreakerType ==
  [state : States,
   failures : Seq(0 .. Window + 1),
   successStreak : Nat,
   probeInFlight : BOOLEAN,
   probeAge : 0 .. ProbeTimeout,
   cooldownLeft : 0 .. CooldownMax,
   cooldown : 1 .. CooldownMax,
   reopens : 0 .. ReopensBound,
   unpublished : BOOLEAN]

NewBreaker ==
  [state |-> Closed, failures |-> <<>>, successStreak |-> 0,
   probeInFlight |-> FALSE, probeAge |-> 0,
   cooldownLeft |-> 0, cooldown |-> CooldownBase, reopens |-> 0,
   unpublished |-> FALSE]

-----------------------------------------------------------------------------
\* CooldownBase doubled for each consecutive reopen, capped at CooldownMax.
nextCooldown(reopens) ==
  LET exponent == IF reopens - 1 < 0 THEN 0
                  ELSE IF reopens - 1 > maxCooldownExponent THEN maxCooldownExponent
                  ELSE reopens - 1
      d == CooldownBase * 2 ^ exponent
  IN  IF d <= 0 \/ d > CooldownMax THEN CooldownMax ELSE d

\* Past ReopensBound one more episode would not change the cooldown.
ASSUME ReopensSaturate == nextCooldown(ReopensBound) = CooldownMax

\* Mutant of pruneBefore: a failure exactly Window old is dropped too.
pruneBeforeStrict(ages) ==
  LET fresh == {i \in DOMAIN ages : ages[i] < Window}
  IN  IF fresh = {} THEN <<>>
      ELSE SubSeq(ages, CHOOSE i \in fresh : \A j \in fresh : i <= j, Len(ages))

\* Drops the failures older than Window from the front of the slice.
pruneBefore(ages) ==
  LET fresh == {i \in DOMAIN ages : ages[i] <= Window}
  IN  IF fresh = {} THEN <<>>
      ELSE SubSeq(ages, CHOOSE i \in fresh : \A j \in fresh : i <= j, Len(ages))

\* Every transition frees the probe slot; entering Open starts the cooldown.
\* (openedAt and probeStartedAt are not read outside Open and a taken slot.)
setState(b, next) ==
  [b EXCEPT !.state = next,
            !.cooldownLeft = IF next = Open THEN b.cooldown ELSE 0,
            !.probeInFlight = FALSE,
            !.probeAge = 0]

\* Mutant of open: the cooldown is computed before the episode is counted.
openCountsLate(b) ==
  LET reopens == IF b.reopens < ReopensBound THEN b.reopens + 1 ELSE ReopensBound
  IN  setState([b EXCEPT !.reopens = reopens,
                         !.cooldown = nextCooldown(b.reopens),
                         !.successStreak = 0,
                         !.failures = <<>>],
               Open)

open(b) ==
  LET reopens == IF b.reopens < ReopensBound THEN b.reopens + 1 ELSE ReopensBound
  IN  setState([b EXCEPT !.reopens = reopens,
                         !.cooldown = nextCooldown(reopens),
                         !.successStreak = 0,
                         !.failures = <<>>],
               Open)

\* allowLocal's first statement: the request that finds the cooldown over
\* moves the breaker to HalfOpen.
afterCooldown(b) ==
  IF b.state = Open /\ b.cooldownLeft = 0 THEN setState(b, HalfOpen) ELSE b

\* Mutant of probeAvailable: a silent holder keeps the slot for ever.
probeNeverReclaimed(b) == ~ b.probeInFlight

\* The slot is free, or its holder has been silent for ProbeTimeout.
probeAvailable(b) == ~ b.probeInFlight \/ b.probeAge >= ProbeTimeout

\* Mutant of claimProbe: a reclaimed slot keeps its old start time.
claimProbeUndated(b) == [b EXCEPT !.probeInFlight = TRUE]

claimProbe(b) == [b EXCEPT !.probeInFlight = TRUE, !.probeAge = 0]

releaseProbe(b) == [b EXCEPT !.probeInFlight = FALSE, !.probeAge = 0]

\* The part of recordSuccessLocally that runs without a store.
countSuccess(b) ==
  LET streak == b.successStreak + 1
      counted == [b EXCEPT !.successStreak = streak]
  IN  IF streak >= SuccessThreshold
      THEN setState([counted EXCEPT !.reopens = 0, !.cooldown = CooldownBase], Closed)
      ELSE counted

\* recordFailureLocally: a probe failure reopens at once, a closed failure
\* counts against the window, an open breaker has nothing to change.
windowAfterFailure(b) == pruneBefore(Append(b.failures, 0))

opensOnFailure(b) ==
  \/ b.state = HalfOpen
  \/ b.state = Closed /\ Len(windowAfterFailure(b)) >= FailureThreshold

countFailure(b) ==
  LET released == releaseProbe(b)
  IN  IF opensOnFailure(b) THEN open(released)
      ELSE IF b.state = Closed THEN [released EXCEPT !.failures = windowAfterFailure(b)]
      ELSE released

\* Reset's section under b.mu.
resetLocally(b) ==
  LET cleared == [b EXCEPT !.failures = <<>>, !.successStreak = 0, !.reopens = 0,
                           !.cooldown = CooldownBase, !.probeInFlight = FALSE,
                           !.probeAge = 0, !.unpublished = FALSE]
  IN  IF b.state # Closed THEN setState(cleared, Closed) ELSE cleared

-----------------------------------------------------------------------------
\* One unit of time passes for the breaker's three clocks.
age(b) ==
  [b EXCEPT !.failures = [i \in DOMAIN b.failures |->
                            IF b.failures[i] <= Window THEN b.failures[i] + 1
                                                       ELSE Window + 1],
            !.cooldownLeft = IF @ > 0 THEN @ - 1 ELSE 0,
            !.probeAge = IF b.probeInFlight /\ @ < ProbeTimeout THEN @ + 1 ELSE @]
=============================================================================
