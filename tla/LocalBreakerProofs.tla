------------------------- MODULE LocalBreakerProofs -------------------------
(* Proofs about LocalBreaker for any number of callers and any configuration. *)
EXTENDS LocalBreaker, HealthMonitor, SequenceTheorems, FiniteSetTheorems, FunctionTheorems, WellFoundedInduction,
        TLAPS

LEMMA NextCooldownType ==
  ASSUME NEW r \in 0 .. ReopensBound
  PROVE  nextCooldown(r) \in 1 .. CooldownMax
<1> DEFINE e == IF r - 1 < 0 THEN 0
                ELSE IF r - 1 > maxCooldownExponent THEN maxCooldownExponent
                ELSE r - 1
<1>1. e \in 0 .. maxCooldownExponent
  BY BreakerConfigValid DEF maxCooldownExponent
<1>2. 2 ^ e \in Nat \ {0}
  BY <1>1, PowersOfTwo
<1> DEFINE d == CooldownBase * 2 ^ e
<1>3. d \in Int
  <2> HIDE DEF e
  <2> QED BY <1>2, BreakerConfigValid
<1>4. nextCooldown(r) = IF d <= 0 \/ d > CooldownMax THEN CooldownMax ELSE d
  BY DEF nextCooldown
<1> HIDE DEF d
<1> QED
  BY <1>3, <1>4, BreakerConfigValid

LEMMA MinimumExists ==
  ASSUME NEW T, T \subseteq Nat, T # {}
  PROVE  \E x \in T : \A y \in T : x <= y
<1>1. PICK x \in T : \A y \in T : ~ (<<y, x>> \in OpToRel(<, Nat))
  BY NatLessThanWellFounded, WFMin
<1>2. \A y \in T : ~ (y < x)
  BY <1>1 DEF OpToRel
<1> QED BY <1>2

LEMMA SuffixType ==
  ASSUME NEW S, NEW s \in Seq(S), NEW m \in 1 .. Len(s)
  PROVE  SubSeq(s, m, Len(s)) \in Seq(S)
<1>1. Len(s) \in Int /\ m \in Int
  OBVIOUS
<1>2. \A i \in m .. Len(s) : s[i] \in S
  OBVIOUS
<1> QED BY <1>1, <1>2, SubSeqProperties, Zenon

LEMMA PruneType ==
  ASSUME NEW ages \in Seq(0 .. Window + 1)
  PROVE  pruneBefore(ages) \in Seq(0 .. Window + 1)
<1> DEFINE fresh == {i \in DOMAIN ages : ages[i] <= Window}
<1>1. CASE fresh = {}
  BY <1>1 DEF pruneBefore
<1>2. CASE fresh # {}
  <2> DEFINE first == CHOOSE i \in fresh : \A j \in fresh : i <= j
  <2>1. fresh \subseteq 1 .. Len(ages) /\ fresh \subseteq Nat /\ Len(ages) \in Nat
    OBVIOUS
  <2>2. \E i \in fresh : \A j \in fresh : i <= j
    <3> HIDE DEF fresh
    <3> QED BY <2>1, <1>2, MinimumExists
  <2>3. first \in fresh
    <3> HIDE DEF fresh
    <3> QED BY <2>2
  <2>4. pruneBefore(ages) = SubSeq(ages, first, Len(ages))
    BY <1>2 DEF pruneBefore
  <2> HIDE DEF first, fresh
  <2>5. first \in 1 .. Len(ages)
    BY <2>1, <2>3
  <2> QED BY <2>4, <2>5, SuffixType
<1> QED BY <1>1, <1>2

\* Members of the field ranges that the operators below assign.
LEMMA Ranges ==
  /\ 0 \in 0 .. ProbeTimeout /\ 0 \in 0 .. CooldownMax /\ 0 \in 0 .. ReopensBound
  /\ 0 \in 0 .. Window + 1 /\ <<>> \in Seq(0 .. Window + 1)
  /\ CooldownBase \in 1 .. CooldownMax
  /\ 1 .. CooldownMax \subseteq 0 .. CooldownMax
  BY BreakerConfigValid

LEMMA NewBreakerType == NewBreaker \in BreakerType
  BY Ranges DEF NewBreaker, BreakerType, States

LEMMA AgedFailuresType ==
  ASSUME NEW ages \in Seq(0 .. Window + 1)
  PROVE  [i \in DOMAIN ages |-> IF ages[i] <= Window THEN ages[i] + 1 ELSE Window + 1]
           \in Seq(0 .. Window + 1)
<1> DEFINE f == [i \in DOMAIN ages |->
                   IF ages[i] <= Window THEN ages[i] + 1 ELSE Window + 1]
<1>1. DOMAIN ages = 1 .. Len(ages) /\ Len(ages) \in Nat
  OBVIOUS
<1>2. ASSUME NEW i \in 1 .. Len(ages) PROVE f[i] \in 0 .. Window + 1
  <2>1. ages[i] \in 0 .. Window + 1
    BY ElementOfSeq
  <2> QED BY <1>1, <2>1, BreakerConfigValid
<1> QED BY <1>1, <1>2, IsASeq

LEMMA AgeType == ASSUME NEW x \in BreakerType PROVE age(x) \in BreakerType
<1> DEFINE f == [i \in DOMAIN x.failures |->
                   IF x.failures[i] <= Window THEN x.failures[i] + 1 ELSE Window + 1]
           l == IF x.cooldownLeft > 0 THEN x.cooldownLeft - 1 ELSE 0
           p == IF x.probeInFlight /\ x.probeAge < ProbeTimeout
                THEN x.probeAge + 1 ELSE x.probeAge
<1>1. f \in Seq(0 .. Window + 1)
  <2>1. x.failures \in Seq(0 .. Window + 1)
    BY DEF BreakerType
  <2> QED BY <2>1, AgedFailuresType
<1>2. l \in 0 .. CooldownMax /\ p \in 0 .. ProbeTimeout
  BY BreakerConfigValid DEF BreakerType
<1>3. age(x) = [x EXCEPT !.failures = f, !.cooldownLeft = l, !.probeAge = p]
  BY DEF age
<1> HIDE DEF f, l, p
<1> QED BY <1>1, <1>2, <1>3 DEF BreakerType

LEMMA SetStateType ==
  ASSUME NEW x \in BreakerType, NEW s \in States
  PROVE  setState(x, s) \in BreakerType
<1>1. (IF s = Open THEN x.cooldown ELSE 0) \in 0 .. CooldownMax
  BY Ranges DEF BreakerType
<1> QED BY <1>1, Ranges DEF BreakerType, setState

LEMMA ReleaseType == ASSUME NEW x \in BreakerType PROVE releaseProbe(x) \in BreakerType
  BY Ranges DEF BreakerType, releaseProbe

LEMMA ClaimType == ASSUME NEW x \in BreakerType PROVE claimProbe(x) \in BreakerType
  BY Ranges DEF BreakerType, claimProbe

LEMMA OpenType == ASSUME NEW x \in BreakerType PROVE open(x) \in BreakerType
<1> DEFINE r == IF x.reopens < ReopensBound THEN x.reopens + 1 ELSE ReopensBound
<1>1. r \in 0 .. ReopensBound
  BY BreakerConfigValid DEF BreakerType
<1>2. nextCooldown(r) \in 1 .. CooldownMax
  BY <1>1, NextCooldownType
<1> DEFINE y == [x EXCEPT !.reopens = r, !.cooldown = nextCooldown(r),
                          !.successStreak = 0, !.failures = <<>>]
<1>3. y \in BreakerType
  <2> HIDE DEF r
  <2> QED BY <1>1, <1>2, Ranges DEF BreakerType
<1>4. open(x) = setState(y, Open)
  BY DEF open
<1> HIDE DEF y
<1> QED BY <1>3, <1>4, SetStateType DEF States

LEMMA CountSuccessType ==
  ASSUME NEW x \in BreakerType PROVE countSuccess(x) \in BreakerType
<1> DEFINE y == [x EXCEPT !.successStreak = x.successStreak + 1]
           z == [y EXCEPT !.reopens = 0, !.cooldown = CooldownBase]
<1>1. y \in BreakerType
  BY DEF BreakerType
<1>2. z \in BreakerType
  <2> HIDE DEF y
  <2> QED BY <1>1, Ranges DEF BreakerType
<1>3. countSuccess(x) = IF x.successStreak + 1 >= SuccessThreshold
                        THEN setState(z, Closed) ELSE y
  BY DEF countSuccess
<1> HIDE DEF y, z
<1> QED BY <1>1, <1>2, <1>3, SetStateType DEF States

LEMMA CountFailureType ==
  ASSUME NEW x \in BreakerType PROVE countFailure(x) \in BreakerType
<1> DEFINE y == releaseProbe(x)
           w == windowAfterFailure(x)
<1>1. y \in BreakerType
  BY ReleaseType
<1>2. w \in Seq(0 .. Window + 1)
  <2>1. x.failures \in Seq(0 .. Window + 1)
    BY DEF BreakerType
  <2>2. Append(x.failures, 0) \in Seq(0 .. Window + 1)
    BY <2>1, Ranges
  <2> QED BY <2>2, PruneType DEF windowAfterFailure
<1>3. [y EXCEPT !.failures = w] \in BreakerType
  <2> HIDE DEF y, w
  <2> QED BY <1>1, <1>2 DEF BreakerType
<1> QED BY <1>1, <1>3, OpenType DEF countFailure

LEMMA ResetType == ASSUME NEW x \in BreakerType PROVE resetLocally(x) \in BreakerType
<1> DEFINE y == [x EXCEPT !.failures = <<>>, !.successStreak = 0, !.reopens = 0,
                          !.cooldown = CooldownBase, !.probeInFlight = FALSE,
                          !.probeAge = 0, !.unpublished = FALSE]
<1>1. y \in BreakerType
  BY Ranges DEF BreakerType
<1>2. resetLocally(x) = IF x.state # Closed THEN setState(y, Closed) ELSE y
  BY DEF resetLocally
<1> HIDE DEF y
<1> QED BY <1>1, <1>2, SetStateType DEF States

LEMMA AfterCooldownType ==
  ASSUME NEW x \in BreakerType PROVE afterCooldown(x) \in BreakerType
  BY SetStateType DEF afterCooldown, States

-----------------------------------------------------------------------------
\* Finish and Start keep call well typed.
LEMMA CallStep ==
  ASSUME TypeOK, NEW c \in Calls, Start(c) \/ Finish(c)
  PROVE  call' \in [Calls -> CallType]
<1>1. [pc |-> "running", age |-> 0] \in CallType /\ [pc |-> "idle", age |-> 0] \in CallType
  BY Ranges DEF CallType
<1> QED BY <1>1 DEF Start, Finish, TypeOK

LEMMA TickCallType == TypeOK /\ Tick => call' \in [Calls -> CallType]
<1> SUFFICES ASSUME TypeOK, Tick, NEW c \in Calls PROVE call'[c] \in CallType
             /\ call' = [d \in Calls |-> call'[d]]
  BY DEF Tick
<1>1. call[c] \in CallType
  BY DEF TypeOK
<1>2. call[c].age < ProbeTimeout => [call[c] EXCEPT !.age = @ + 1] \in CallType
  BY <1>1, BreakerConfigValid DEF CallType
<1> QED BY <1>1, <1>2 DEF Tick

\* Every state of a breaker without a store is well typed: no sequence of
\* callers, timeouts and resets leaves the windows, counters and clocks of the
\* Breaker struct out of range.
THEOREM TypeCorrect == Spec => []TypeOK
<1>1. Init => TypeOK
  <2> SUFFICES ASSUME Init PROVE TypeOK
    OBVIOUS
  <2>1. [pc |-> "idle", age |-> 0] \in CallType
    BY Ranges DEF CallType
  <2>2. NoFailures \in [0 .. Window -> Nat]
    BY DEF NoFailures
  <2>3. 0 \in 0 .. SuccessThreshold
    BY BreakerConfigValid
  <2> QED BY <2>1, <2>2, <2>3, NewBreakerType DEF Init, TypeOK
<1>2. TypeOK /\ [Next]_vars => TypeOK'
  <2> SUFFICES ASSUME TypeOK, [Next]_vars PROVE TypeOK'
    OBVIOUS
  <2>1. ASSUME NEW c \in Calls, AllowClosed(c) PROVE TypeOK'
    BY <2>1, CallStep DEF AllowClosed, TypeOK, history
  <2>2. ASSUME NEW c \in Calls, AllowProbe(c) PROVE TypeOK'
    <3>1. b' \in BreakerType
      BY <2>2, AfterCooldownType, ClaimType DEF AllowProbe, TypeOK
    <3>2. successes' \in 0 .. SuccessThreshold
      BY <2>2, BreakerConfigValid DEF AllowProbe, TypeOK
    <3>3. call' \in [Calls -> CallType]
      BY <2>2, CallStep DEF AllowProbe
    <3> QED BY <2>2, <3>1, <3>2, <3>3 DEF AllowProbe, TypeOK
  <2>3. ASSUME NEW c \in Calls, RecordSuccess(c) PROVE TypeOK'
    <3>1. b' \in BreakerType
      BY <2>3, ReleaseType, CountSuccessType DEF RecordSuccess, TypeOK
    <3>2. successes' \in 0 .. SuccessThreshold
      BY <2>3, BreakerConfigValid DEF RecordSuccess, TypeOK
    <3>3. call' \in [Calls -> CallType]
      BY <2>3, CallStep DEF RecordSuccess
    <3> QED BY <2>3, <3>1, <3>2, <3>3 DEF RecordSuccess, Reported, TypeOK
  <2>4. ASSUME NEW c \in Calls, RecordFailure(c) PROVE TypeOK'
    <3>1. b' \in BreakerType
      BY <2>4, CountFailureType DEF RecordFailure, TypeOK
    <3>2. failed' \in [0 .. Window -> Nat]
      <4>1. NoFailures \in [0 .. Window -> Nat]
        BY DEF NoFailures
      <4>2. [failed EXCEPT ![0] = failed[0] + 1] \in [0 .. Window -> Nat]
        BY BreakerConfigValid DEF TypeOK
      <4> QED BY <2>4, <4>1, <4>2 DEF RecordFailure
    <3>3. call' \in [Calls -> CallType]
      BY <2>4, CallStep DEF RecordFailure
    <3> QED BY <2>4, <3>1, <3>2, <3>3 DEF RecordFailure, Reported, TypeOK
  <2>5. ASSUME NEW c \in Calls, Abandon(c) PROVE TypeOK'
    BY <2>5, CallStep DEF Abandon, TypeOK
  <2>6. CASE Reset
    <3>1. NoFailures \in [0 .. Window -> Nat]
      BY DEF NoFailures
    <3> QED BY <2>6, <3>1, ResetType DEF Reset, TypeOK
  <2>7. CASE Tick
    <3>1. failed' \in [0 .. Window -> Nat]
      BY <2>7, BreakerConfigValid DEF Tick, TypeOK
    <3> QED BY <2>7, <3>1, AgeType, TickCallType DEF Tick, TypeOK
  <2>8. CASE Recover
    BY <2>8 DEF Recover, TypeOK, history
  <2>9. ASSUME NEW c \in Calls, AllowRejected(c) PROVE TypeOK'
    BY <2>9 DEF AllowRejected, TypeOK, vars
  <2>10. CASE UNCHANGED vars
    BY <2>10 DEF TypeOK, vars
  <2> QED
    BY <2>1, <2>2, <2>3, <2>4, <2>5, <2>6, <2>7, <2>8, <2>9, <2>10 DEF Next
<1> QED BY <1>1, <1>2, PTL DEF Spec

\* A report (RecordSuccess or RecordFailure) keeps SlotInv: either the breaker
\* changes state, or the reporter held the slot and was the only live probe,
\* or the period is marked stray.
LEMMA ReportKeepsSlotInv ==
  ASSUME TypeOK, SlotInv, NEW c \in Calls, call[c].pc = "running",
         Finish(c), Reported(c, b')
  PROVE  SlotInv'
<1>1. \A d \in probes' : d \in probes /\ d # c /\ call'[d] = call[d] /\ b'.state = b.state
  BY DEF Reported, Finish, TypeOK
<1>2. \A d \in probes' : call'[d].pc = "running"
  BY <1>1 DEF SlotInv
<1>3. b'.state # HalfOpen => probes' = {}
  BY DEF Reported, SlotInv
<1>4. \A d, e \in holder' : d = e
  BY DEF Reported, SlotInv
<1>5. ~ stray' => LiveProbes' = {}
  <2> SUFFICES ASSUME ~ stray', NEW d \in probes', call'[d].age < ProbeTimeout PROVE FALSE
    BY DEF LiveProbes
  <2>1. d \in LiveProbes /\ d # c /\ b'.state = b.state
    BY <1>1 DEF LiveProbes
  <2>2. ~ stray /\ c \in holder
    BY <2>1 DEF Reported
  <2>3. d \in holder
    BY <2>1, <2>2 DEF SlotInv
  <2> QED BY <2>1, <2>2, <2>3 DEF SlotInv
<1> QED BY <1>2, <1>3, <1>4, <1>5 DEF SlotInv

LEMMA SlotInvStep == TypeOK /\ SlotInv /\ [Next]_vars => SlotInv'
<1> SUFFICES ASSUME TypeOK, SlotInv, [Next]_vars PROVE SlotInv'
  OBVIOUS
<1>1. ASSUME NEW c \in Calls, AllowClosed(c) PROVE SlotInv'
  <2>1. probes = {} /\ probes' = {}
    BY <1>1 DEF AllowClosed, SlotInv, Closed, HalfOpen, history
  <2> QED BY <1>1, <2>1 DEF AllowClosed, SlotInv, LiveProbes, history
<1>2. ASSUME NEW c \in Calls, AllowProbe(c) PROVE SlotInv'
  <2>1. c \notin probes /\ call'[c] = [pc |-> "running", age |-> 0]
        /\ \A d \in Calls : d # c => call'[d] = call[d]
    BY <1>2 DEF AllowProbe, SlotInv, Start, TypeOK
  <2>2. b'.state = HalfOpen /\ b'.probeInFlight /\ b'.probeAge = 0
    <3>1. b' = claimProbe(afterCooldown(b)) /\ afterCooldown(b).state = HalfOpen
          /\ afterCooldown(b) \in BreakerType
      BY <1>2, AfterCooldownType DEF AllowProbe, TypeOK
    <3> HIDE DEF afterCooldown
    <3> QED BY <3>1 DEF claimProbe, BreakerType
  <2>3. holder' = {c}
    BY <1>2 DEF AllowProbe
  <2>4. CASE b.state = Open
    <3>1. probes' = {c}
      BY <1>2, <2>4 DEF AllowProbe
    <3> QED BY <2>1, <2>2, <2>3, <3>1 DEF SlotInv, LiveProbes
  <2>5. CASE b.state # Open
    <3>1. probes' = probes \cup {c} /\ stray' = stray /\ probeAvailable(b)
      BY <1>2, <2>5 DEF AllowProbe, afterCooldown
    <3>2. ~ stray => LiveProbes = {}
      BY <3>1, BreakerConfigValid DEF probeAvailable, SlotInv, LiveProbes, TypeOK, BreakerType, CallType
    <3>3. ~ stray' => \A d \in LiveProbes' : d = c
      BY <2>1, <3>1, <3>2 DEF LiveProbes, TypeOK
    <3>4. \A d \in probes' : call'[d].pc = "running"
      BY <2>1, <3>1 DEF SlotInv, TypeOK
    <3> QED BY <2>1, <2>2, <2>3, <3>3, <3>4 DEF SlotInv
  <2> QED BY <2>4, <2>5
<1>3. ASSUME NEW c \in Calls, RecordSuccess(c) PROVE SlotInv'
  BY <1>3, ReportKeepsSlotInv DEF RecordSuccess
<1>4. ASSUME NEW c \in Calls, RecordFailure(c) PROVE SlotInv'
  BY <1>4, ReportKeepsSlotInv DEF RecordFailure
<1>5. ASSUME NEW c \in Calls, Abandon(c) PROVE SlotInv'
  <2>1. \A d \in probes' : d \in probes /\ call'[d] = call[d]
    BY <1>5 DEF Abandon, Finish, TypeOK
  <2> QED BY <1>5, <2>1 DEF Abandon, SlotInv, LiveProbes
<1>6. CASE Reset
  BY <1>6 DEF Reset, SlotInv, LiveProbes
<1>7. CASE Tick
  <2>1. b'.state = b.state /\ b'.probeInFlight = b.probeInFlight
        /\ (b.probeInFlight /\ b.probeAge < ProbeTimeout => b'.probeAge = b.probeAge + 1)
    BY <1>7 DEF Tick, age, TypeOK, BreakerType
  <2>2. \A d \in Calls : call[d].pc = "running" =>
          /\ call'[d].pc = "running"
          /\ call'[d].age < ProbeTimeout =>
               call[d].age < ProbeTimeout /\ call'[d].age = call[d].age + 1
    <3> SUFFICES ASSUME NEW d \in Calls, call[d].pc = "running"
                 PROVE  /\ call'[d].pc = "running"
                        /\ call'[d].age < ProbeTimeout =>
                             call[d].age < ProbeTimeout /\ call'[d].age = call[d].age + 1
      OBVIOUS
    <3>1. call[d] \in CallType
      BY DEF TypeOK
    <3>2. call'[d] = IF call[d].age < ProbeTimeout
                     THEN [call[d] EXCEPT !.age = @ + 1] ELSE call[d]
      BY <1>7 DEF Tick
    <3> QED BY <3>1, <3>2 DEF CallType
  <2>3. probes' = probes /\ holder' = holder /\ stray' = stray
    BY <1>7 DEF Tick
  <2>4. \A d \in LiveProbes' : d \in LiveProbes /\ call'[d].age = call[d].age + 1
    BY <2>2, <2>3 DEF LiveProbes, SlotInv, TypeOK
  <2>5. ~ stray' => \A d \in LiveProbes' :
                      d \in holder' /\ b'.probeInFlight /\ call'[d].age = b'.probeAge
    BY <2>1, <2>3, <2>4 DEF SlotInv, LiveProbes
  <2> QED BY <2>1, <2>2, <2>3, <2>5 DEF SlotInv, TypeOK
<1>8. CASE Recover
  BY <1>8 DEF Recover, SlotInv, LiveProbes, history
<1>9. ASSUME NEW c \in Calls, AllowRejected(c) PROVE SlotInv'
  BY <1>9 DEF AllowRejected, SlotInv, LiveProbes, vars
<1>10. CASE UNCHANGED vars
  BY <1>10 DEF SlotInv, LiveProbes, vars
<1> QED
  BY <1>1, <1>2, <1>3, <1>4, <1>5, <1>6, <1>7, <1>8, <1>9, <1>10 DEF Next

\* The single-probe guard of claimProbe/releaseProbe/setState, for any number
\* of concurrent callers and any timeout: two probes younger than ProbeTimeout
\* run together only after a report from a call that does not hold the slot.
THEOREM SingleProbe == Spec => []ProbeExclusion
<1>1. Init => SlotInv
  BY DEF Init, SlotInv, LiveProbes
<1>2. SlotInv => ProbeExclusion
  BY DEF SlotInv, ProbeExclusion
<1> QED BY <1>1, <1>2, SlotInvStep, TypeCorrect, PTL DEF Spec

-----------------------------------------------------------------------------
LEMMA OpenResult ==
  ASSUME NEW x \in BreakerType
  PROVE  /\ open(x).state = Open
         /\ open(x).successStreak = 0
         /\ open(x).reopens > 0
         /\ open(x).cooldown = nextCooldown(open(x).reopens)
         /\ open(x).cooldownLeft = open(x).cooldown
<1> DEFINE r == IF x.reopens < ReopensBound THEN x.reopens + 1 ELSE ReopensBound
           n == nextCooldown(r)
<1>1. r > 0 /\ r \in Nat
  BY BreakerConfigValid DEF BreakerType
<1>2. open(x) = setState([x EXCEPT !.reopens = r, !.cooldown = n,
                                   !.successStreak = 0, !.failures = <<>>], Open)
  BY DEF open
<1>3. /\ open(x).state = Open /\ open(x).successStreak = 0 /\ open(x).reopens = r
      /\ open(x).cooldown = n /\ open(x).cooldownLeft = n
  <2> HIDE DEF r, n
  <2> QED BY <1>2 DEF setState, BreakerType
<1> QED BY <1>1, <1>3

LEMMA EpisodeInvStep == TypeOK /\ EpisodeInv /\ [Next]_vars => EpisodeInv'
<1> SUFFICES ASSUME TypeOK, EpisodeInv, [Next]_vars PROVE EpisodeInv'
  OBVIOUS
<1> USE DEF EpisodeInv, CooldownMatchesEpisode, StreakIsFresh
<1>1. ASSUME NEW c \in Calls, AllowClosed(c) PROVE EpisodeInv'
  BY <1>1 DEF AllowClosed, history
<1>2. ASSUME NEW c \in Calls, AllowProbe(c) PROVE EpisodeInv'
  <2>1. b' = claimProbe(afterCooldown(b)) /\ afterCooldown(b) \in BreakerType
        /\ afterCooldown(b).state = HalfOpen
    BY <1>2, AfterCooldownType DEF AllowProbe, TypeOK
  <2>2. afterCooldown(b).successStreak = b.successStreak
    BY DEF afterCooldown, setState, TypeOK, BreakerType
  <2>3. b'.state = HalfOpen /\ b'.successStreak = b.successStreak
    <3> HIDE DEF afterCooldown
    <3> QED BY <2>1, <2>2 DEF claimProbe, BreakerType
  <2>4. CASE b.state = Open
    BY <1>2, <2>3, <2>4, BreakerConfigValid DEF AllowProbe, Open, HalfOpen
  <2>5. CASE b.state # Open
    BY <1>2, <2>1, <2>3, <2>5 DEF AllowProbe, afterCooldown, Open, HalfOpen
  <2> QED BY <2>4, <2>5
<1>3. ASSUME NEW c \in Calls, RecordSuccess(c) PROVE EpisodeInv'
  <2> DEFINE x == releaseProbe(b)
  <2>1. /\ x \in BreakerType /\ x.state = b.state /\ x.successStreak = b.successStreak
        /\ x.reopens = b.reopens /\ x.cooldown = b.cooldown
        /\ x.cooldownLeft = b.cooldownLeft
    BY ReleaseType DEF releaseProbe, TypeOK, BreakerType
  <2> HIDE DEF x
  <2>2. CASE b.state = HalfOpen
    <3>1. b' = countSuccess(x)
      BY <1>3, <2>2 DEF RecordSuccess, x
    <3>2. CASE b.successStreak + 1 >= SuccessThreshold
      <4>1. b'.state = Closed
        BY <2>1, <3>1, <3>2 DEF countSuccess, setState, BreakerType
      <4> QED BY <4>1 DEF Closed, Open, HalfOpen
    <3>3. CASE ~ (b.successStreak + 1 >= SuccessThreshold)
      <4>1. b'.state = HalfOpen /\ b'.successStreak = b.successStreak + 1
        BY <2>1, <2>2, <3>1, <3>3 DEF countSuccess, BreakerType
      <4>2. successes' = successes + 1
        BY <1>3, <2>2, <3>3 DEF RecordSuccess, TypeOK, BreakerType
      <4> QED
        BY <2>2, <3>3, <4>1, <4>2, BreakerConfigValid DEF Open, HalfOpen, TypeOK, BreakerType
    <3> QED BY <3>2, <3>3
  <2>3. CASE b.state # HalfOpen
    BY <1>3, <2>1, <2>3 DEF RecordSuccess, x
  <2> QED BY <2>2, <2>3
<1>4. ASSUME NEW c \in Calls, RecordFailure(c) PROVE EpisodeInv'
  <2> DEFINE x == releaseProbe(b)
  <2>1. /\ x \in BreakerType /\ x.state = b.state /\ x.successStreak = b.successStreak
        /\ x.reopens = b.reopens /\ x.cooldown = b.cooldown
        /\ x.cooldownLeft = b.cooldownLeft
    BY ReleaseType DEF releaseProbe, TypeOK, BreakerType
  <2>2. b' = countFailure(b) /\ successes' = successes
    BY <1>4 DEF RecordFailure
  <2>3. CASE opensOnFailure(b)
    <3>1. b' = open(x)
      BY <2>2, <2>3 DEF countFailure
    <3> HIDE DEF x
    <3> QED
      <4>1. b'.cooldown \in Int
        BY <3>1, <2>1, OpenType DEF BreakerType
      <4> QED BY <2>1, <3>1, <4>1, OpenResult DEF Open, HalfOpen
  <2>4. CASE ~ opensOnFailure(b) /\ b.state = Closed
    <3>1. b' = [x EXCEPT !.failures = windowAfterFailure(b)]
      BY <2>2, <2>4 DEF countFailure
    <3>2. b'.state = Closed
      <4> HIDE DEF x
      <4> QED BY <2>1, <2>4, <3>1 DEF BreakerType
    <3> QED BY <3>2 DEF Closed, Open, HalfOpen
  <2>5. CASE ~ opensOnFailure(b) /\ b.state # Closed
    <3>1. b' = x
      BY <2>2, <2>5 DEF countFailure
    <3> QED BY <2>1, <2>2, <3>1
  <2> QED BY <2>3, <2>4, <2>5
<1>5. ASSUME NEW c \in Calls, Abandon(c) PROVE EpisodeInv'
  BY <1>5 DEF Abandon
<1>6. CASE Reset
  <2>1. b'.state = Closed
    BY <1>6 DEF Reset, resetLocally, setState, TypeOK, BreakerType
  <2> QED BY <2>1 DEF Closed, Open, HalfOpen
<1>7. CASE Tick
  <2>1. /\ b'.state = b.state /\ b'.successStreak = b.successStreak
        /\ b'.reopens = b.reopens /\ b'.cooldown = b.cooldown
        /\ b'.cooldownLeft <= b.cooldownLeft /\ b'.cooldownLeft \in Int
    BY <1>7 DEF Tick, age, TypeOK, BreakerType
  <2> QED BY <1>7, <2>1 DEF Tick, TypeOK, BreakerType
<1>8. CASE Recover
  BY <1>8 DEF Recover, history
<1>9. ASSUME NEW c \in Calls, AllowRejected(c) PROVE EpisodeInv'
  BY <1>9 DEF AllowRejected, vars
<1>10. CASE UNCHANGED vars
  BY <1>10 DEF vars
<1> QED
  BY <1>1, <1>2, <1>3, <1>4, <1>5, <1>6, <1>7, <1>8, <1>9, <1>10 DEF Next

\* Every step of every caller keeps streak and cooldown those of the current episode
\* (open, setState, countSuccess).
THEOREM EpisodesCorrect == Spec => []EpisodeInv
<1>1. Init => EpisodeInv
  BY DEF Init, EpisodeInv, CooldownMatchesEpisode, StreakIsFresh, NewBreaker,
         Closed, Open, HalfOpen
<1> QED BY <1>1, EpisodeInvStep, TypeCorrect, PTL DEF Spec

\* Whatever the callers do, an open breaker waits the capped exponential of its
\* own episode count (open, nextCooldown, setState).
THEOREM CooldownCorrect == Spec => []CooldownMatchesEpisode
<1>1. EpisodeInv => CooldownMatchesEpisode
  BY DEF EpisodeInv
<1> QED BY <1>1, EpisodesCorrect, PTL

\* A half-open breaker closes on successes of this half-open period alone.
THEOREM StreakCorrect == Spec => []StreakIsFresh
<1>1. EpisodeInv => StreakIsFresh
  BY DEF EpisodeInv
<1> QED BY <1>1, EpisodesCorrect, PTL

-----------------------------------------------------------------------------
(* The failure window.                                                     *)

Count(s, a) == Cardinality({i \in DOMAIN s : s[i] = a})

\* Outside Closed there is no window: open empties it.
WindowInv ==
  /\ WindowIsExact
  /\ b.state # Closed => b.failures = <<>> /\ failed = NoFailures

LEMMA Elements ==
  ASSUME NEW S, NEW s \in Seq(S)
  PROVE  Len(s) \in Nat /\ DOMAIN s = 1 .. Len(s) /\ \A i \in DOMAIN s : s[i] \in S
OBVIOUS

LEMMA CountIsFinite ==
  ASSUME NEW S, NEW s \in Seq(S), NEW a
  PROVE  IsFiniteSet({i \in DOMAIN s : s[i] = a}) /\ Count(s, a) \in Nat
<1>1. Len(s) \in Nat /\ DOMAIN s = 1 .. Len(s)
  OBVIOUS
<1>2. IsFiniteSet(1 .. Len(s))
  BY <1>1, FS_Interval
<1>3. {i \in DOMAIN s : s[i] = a} \subseteq 1 .. Len(s)
  BY <1>1
<1>4. IsFiniteSet({i \in DOMAIN s : s[i] = a})
  BY <1>2, <1>3, FS_Subset
<1> QED  BY <1>4, FS_CardinalityType DEF Count

LEMMA EmptyCount == \A a : Count(<<>>, a) = 0
<1> SUFFICES ASSUME NEW a PROVE Count(<<>>, a) = 0
  OBVIOUS
<1>1. {i \in DOMAIN <<>> : <<>>[i] = a} = {}
  OBVIOUS
<1> QED  BY <1>1, FS_EmptySet, Zenon DEF Count

\* What pruneBefore keeps: everything from the first failure within Window on.
LEMMA PruneResult ==
  ASSUME NEW ages \in Seq(0 .. Window + 1)
  PROVE  \/ pruneBefore(ages) = <<>> /\ \A i \in DOMAIN ages : ages[i] > Window
         \/ \E m \in 1 .. Len(ages) :
              LET p == pruneBefore(ages)
              IN  /\ ages[m] <= Window /\ \A i \in 1 .. m - 1 : ages[i] > Window
                  /\ p \in Seq(0 .. Window + 1) /\ Len(p) = Len(ages) - m + 1
                  /\ \A i \in 1 .. Len(p) : p[i] = ages[m + i - 1]
<1> DEFINE fresh == {i \in DOMAIN ages : ages[i] <= Window}
<1>1. Len(ages) \in Nat /\ DOMAIN ages = 1 .. Len(ages)
      /\ \A i \in DOMAIN ages : ages[i] \in 0 .. Window + 1
  BY Elements
<1>2. Window \in Nat
  BY BreakerConfigValid
<1>3. CASE fresh = {}
  <2>1. \A i \in DOMAIN ages : ages[i] > Window
    BY <1>1, <1>2, <1>3
  <2> QED  BY <1>3, <2>1 DEF pruneBefore
<1>4. CASE fresh # {}
  <2> DEFINE m == CHOOSE i \in fresh : \A j \in fresh : i <= j
  <2>1. fresh \subseteq Nat
    BY <1>1
  <2>2. \E i \in fresh : \A j \in fresh : i <= j
    <3> HIDE DEF fresh
    <3> QED  BY <1>4, <2>1, MinimumExists
  <2>3. m \in fresh /\ \A j \in fresh : m <= j
    <3> HIDE DEF fresh
    <3> QED  BY <2>2
  <2>4. pruneBefore(ages) = SubSeq(ages, m, Len(ages))
    BY <1>4 DEF pruneBefore
  <2> HIDE DEF m
  <2>5. m \in 1 .. Len(ages) /\ ages[m] <= Window
    BY <1>1, <2>3
  <2>6. \A i \in 1 .. m - 1 : ages[i] > Window
    BY <1>1, <1>2, <2>3, <2>5, SMTT(40)
  <2> HIDE DEF fresh
  <2>7. pruneBefore(ages) \in Seq(0 .. Window + 1)
    BY PruneType
  <2>8. /\ Len(SubSeq(ages, m, Len(ages))) = Len(ages) - m + 1
        /\ \A i \in 1 .. Len(ages) - m + 1 : SubSeq(ages, m, Len(ages))[i] = ages[m + i - 1]
    BY <1>1, <2>5
  <2> QED  BY <2>4, <2>5, <2>6, <2>7, <2>8
<1> QED  BY <1>3, <1>4

\* Pruning loses no failure within Window.
LEMMA PruneCounts ==
  ASSUME NEW ages \in Seq(0 .. Window + 1), NEW a \in 0 .. Window
  PROVE  Count(pruneBefore(ages), a) = Count(ages, a)
<1> DEFINE p == pruneBefore(ages)
           T == {i \in DOMAIN ages : ages[i] = a}
           U == {i \in DOMAIN p : p[i] = a}
<1>1. Len(ages) \in Nat /\ DOMAIN ages = 1 .. Len(ages) /\ Window \in Nat
  BY BreakerConfigValid
<1>2. CASE p = <<>> /\ \A i \in DOMAIN ages : ages[i] > Window
  <2>1. T = {} /\ U = {}
    <3>1. \A i \in DOMAIN ages : ages[i] # a
      BY <1>1, <1>2
    <3> QED  BY <1>2, <3>1
  <2> QED  BY <2>1 DEF Count
<1>3. ASSUME NEW m \in 1 .. Len(ages), \A i \in 1 .. m - 1 : ages[i] > Window,
             p \in Seq(0 .. Window + 1), Len(p) = Len(ages) - m + 1,
             \A i \in 1 .. Len(p) : p[i] = ages[m + i - 1]
      PROVE  Cardinality(U) = Cardinality(T)
  <2> HIDE DEF p
  <2>1. DOMAIN p = 1 .. Len(p) /\ Len(p) \in Nat
    BY <1>3
  <2>9. m \in 1 .. Len(ages) /\ Len(p) = Len(ages) - m + 1
    BY <1>3
  <2> DEFINE f == [i \in U |-> m + i - 1]
  <2>2. ASSUME NEW i \in U PROVE f[i] \in T /\ f[i] = m + i - 1
    <3>1. i \in 1 .. Len(p) /\ p[i] = a
      BY <2>1
    <3>2. m + i - 1 \in 1 .. Len(ages)
      BY <1>1, <2>9, <3>1
    <3> QED  BY <1>1, <1>3, <3>1, <3>2
  <2>3. ASSUME NEW i \in U, NEW j \in U, f[i] = f[j] PROVE i = j
    <3>1. i \in Nat /\ j \in Nat /\ m + i - 1 = m + j - 1
      BY <2>1, <2>2, <2>3
    <3> QED  BY <1>3, <3>1
  <2>4. ASSUME NEW t \in T PROVE \E i \in U : f[i] = t
    <3>1. t \in 1 .. Len(ages) /\ ages[t] = a /\ ~ (t \in 1 .. m - 1)
      BY <1>1, <1>3
    <3>2. t - m + 1 \in 1 .. Len(p) /\ m + (t - m + 1) - 1 = t
      BY <1>1, <2>9, <3>1
    <3>3. p[t - m + 1] = a
      BY <1>3, <3>1, <3>2
    <3>4. t - m + 1 \in U
      BY <2>1, <3>2, <3>3
    <3> QED  BY <2>2, <3>2, <3>4
  <2>5. f \in [U -> T]
    BY <2>2
  <2> HIDE DEF f, T, U
  <2>6. f \in Bijection(U, T)
    BY <2>3, <2>4, <2>5, Fun_IsBij
  <2>7. ExistsBijection(U, T)
    BY <2>6, Fun_ExistsBij
  <2>8. IsFiniteSet(U)
    BY <1>3, CountIsFinite DEF U
  <2> QED  BY <2>7, <2>8, FS_Bijection
<1>4. (p = <<>> /\ \A i \in DOMAIN ages : ages[i] > Window) \/ Cardinality(U) = Cardinality(T)
  <2>1. \/ p = <<>> /\ \A i \in DOMAIN ages : ages[i] > Window
        \/ \E m \in 1 .. Len(ages) :
             /\ \A i \in 1 .. m - 1 : ages[i] > Window
             /\ p \in Seq(0 .. Window + 1) /\ Len(p) = Len(ages) - m + 1
             /\ \A i \in 1 .. Len(p) : p[i] = ages[m + i - 1]
    BY PruneResult
  <2> HIDE DEF p
  <2> QED  BY <1>3, <2>1
<1> QED  BY <1>2, <1>4 DEF Count

\* One more failure, just reported.
LEMMA AppendCounts ==
  ASSUME NEW ages \in Seq(0 .. Window + 1), NEW a \in 0 .. Window
  PROVE  Count(Append(ages, 0), a) = IF a = 0 THEN Count(ages, a) + 1 ELSE Count(ages, a)
<1> DEFINE s == Append(ages, 0)
           T == {i \in DOMAIN ages : ages[i] = a}
           U == {i \in DOMAIN s : s[i] = a}
<1>1. Len(ages) \in Nat /\ DOMAIN ages = 1 .. Len(ages) /\ DOMAIN s = 1 .. Len(ages) + 1
      /\ (\A i \in DOMAIN ages : s[i] = ages[i]) /\ s[Len(ages) + 1] = 0
  OBVIOUS
<1>2. IsFiniteSet(T)
  BY CountIsFinite
<1>3. DOMAIN s = DOMAIN ages \cup {Len(ages) + 1} /\ Len(ages) + 1 \notin DOMAIN ages
  BY <1>1
<1> HIDE DEF s
<1>4. CASE a = 0
  <2>1. U = T \cup {Len(ages) + 1} /\ Len(ages) + 1 \notin T
    BY <1>1, <1>3, <1>4
  <2> HIDE DEF T, U
  <2>2. Cardinality(U) = Cardinality(T) + 1
    BY <1>2, <2>1, FS_AddElement
  <2> QED  BY <1>4, <2>2 DEF Count, T, U, s
<1>5. CASE a # 0
  <2>1. U = T
    BY <1>1, <1>3, <1>5
  <2> QED  BY <1>5, <2>1 DEF Count, s
<1> QED  BY <1>4, <1>5

LEMMA AgedIsPrunedMore ==
  ASSUME NEW ages \in Seq(0 .. Window + 1), NEW aged \in Seq(0 .. Window + 1), DOMAIN aged = DOMAIN ages,
         \A i \in DOMAIN ages : aged[i] = IF ages[i] <= Window THEN ages[i] + 1 ELSE Window + 1
  PROVE  /\ Len(pruneBefore(aged)) <= Len(pruneBefore(ages))
         /\ \A a \in 0 .. Window : Count(aged, a) = IF a = 0 THEN 0 ELSE Count(ages, a - 1)
<1>1. /\ Len(ages) \in Nat /\ DOMAIN ages = 1 .. Len(ages) /\ Len(aged) = Len(ages)
      /\ \A i \in DOMAIN ages : ages[i] \in 0 .. Window + 1
  <2>1. Len(ages) \in Nat /\ DOMAIN ages = 1 .. Len(ages) /\ \A i \in DOMAIN ages : ages[i] \in 0 .. Window + 1
    BY Elements
  <2>2. Len(aged) \in Nat /\ DOMAIN aged = 1 .. Len(aged)
    BY Elements
  <2>3. Len(aged) = Len(ages)
    <3>1. Len(aged) > 0 => Len(aged) \in 1 .. Len(ages)
      BY <2>1, <2>2
    <3>2. Len(ages) > 0 => Len(ages) \in 1 .. Len(aged)
      BY <2>1, <2>2
    <3> QED  BY <2>1, <2>2, <3>1, <3>2
  <2> QED  BY <2>1, <2>3
<1>2. Window \in Nat
  BY BreakerConfigValid
<1>3. \A i \in DOMAIN ages : aged[i] <= Window => ages[i] <= Window
  BY <1>1, <1>2
<1>4. Len(pruneBefore(aged)) <= Len(pruneBefore(ages))
  <2>1. CASE \A i \in DOMAIN aged : aged[i] > Window
    <3>1. pruneBefore(aged) = <<>>
      BY <1>1, <1>2, <2>1 DEF pruneBefore
    <3>2. Len(pruneBefore(ages)) \in Nat
      BY PruneType, Elements
    <3> QED  BY <3>1, <3>2
  <2>2. CASE \E m \in DOMAIN aged : aged[m] <= Window
    <3>1. PICK m \in 1 .. Len(aged) : aged[m] <= Window /\ Len(pruneBefore(aged)) = Len(aged) - m + 1
      <4>1. ~ (\A i \in DOMAIN aged : aged[i] > Window)
        BY <1>1, <1>2, <2>2
      <4> QED  BY <4>1, PruneResult
    <3>2. m \in DOMAIN ages /\ ages[m] <= Window
      BY <1>1, <1>3, <3>1
    <3>3. PICK k \in 1 .. Len(ages) : (\A i \in 1 .. k - 1 : ages[i] > Window)
                                      /\ Len(pruneBefore(ages)) = Len(ages) - k + 1
      <4>1. ~ (\A i \in DOMAIN ages : ages[i] > Window)
        BY <1>1, <1>2, <3>2
      <4> QED  BY <4>1, PruneResult
    <3>4. k <= m
      <4>1. m \notin 1 .. k - 1
        BY <1>1, <1>2, <3>2, <3>3
      <4> QED  BY <1>1, <3>1, <3>3, <4>1
    <3> QED  BY <1>1, <3>1, <3>3, <3>4
  <2>3. \A i \in DOMAIN aged : aged[i] > Window \/ aged[i] <= Window
    BY <1>1, <1>2, Elements
  <2> QED  BY <2>1, <2>2, <2>3
<1>5. ASSUME NEW a \in 0 .. Window
      PROVE  Count(aged, a) = IF a = 0 THEN 0 ELSE Count(ages, a - 1)
  <2>1. CASE a = 0
    <3>1. {i \in DOMAIN aged : aged[i] = a} = {}
      <4>1. \A i \in DOMAIN ages : aged[i] # 0
        BY <1>1, <1>2
      <4> QED  BY <2>1, <4>1
    <3>2. Cardinality({i \in DOMAIN aged : aged[i] = a}) = 0
      BY <3>1, FS_EmptySet, Zenon
    <3> QED  BY <2>1, <3>2 DEF Count
  <2>2. CASE a # 0
    <3>1. ASSUME NEW i \in DOMAIN ages
          PROVE  aged[i] = a <=> ages[i] = a - 1
      <4>1. ages[i] \in 0 .. Window + 1 /\ aged[i] = IF ages[i] <= Window THEN ages[i] + 1 ELSE Window + 1
        BY <1>1, <1>2
      <4>2. Window \in Nat /\ a \in 1 .. Window BY <1>2, <1>5, <2>2
      <4> QED BY <4>1, <4>2
    <3>2. {i \in DOMAIN aged : aged[i] = a} = {i \in DOMAIN ages : ages[i] = a - 1}
      BY <3>1
    <3> QED  BY <2>2, <3>2 DEF Count
  <2> QED  BY <2>1, <2>2
<1> QED  BY <1>4, <1>5

\* An empty window is exact when nothing was reported.
LEMMA EmptyWindow ==
  ASSUME NEW f, NEW x, f = <<>>, x = NoFailures
  PROVE  /\ \A a \in 0 .. Window : x[a] = Count(f, a)
         /\ Len(pruneBefore(f)) < FailureThreshold
<1>1. \A a \in 0 .. Window : x[a] = Count(f, a)
  BY EmptyCount DEF NoFailures
<1>2. pruneBefore(f) = <<>>
  BY DEF pruneBefore
<1>3. Len(pruneBefore(f)) = 0
  BY <1>2
<1> QED  BY <1>1, <1>3, BreakerConfigValid

LEMMA WindowInvStep == TypeOK /\ WindowInv /\ [Next]_vars => WindowInv'
<1> SUFFICES ASSUME TypeOK, WindowInv, [Next]_vars PROVE WindowInv'
  OBVIOUS
<1>1. /\ b \in BreakerType /\ b.failures \in Seq(0 .. Window + 1) /\ failed \in [0 .. Window -> Nat]
      /\ b.state = Closed => /\ \A a \in 0 .. Window : failed[a] = Count(b.failures, a)
                             /\ Len(pruneBefore(b.failures)) < FailureThreshold
      /\ b.state # Closed => b.failures = <<>> /\ failed = NoFailures
  BY DEF TypeOK, BreakerType, WindowInv, WindowIsExact, Count
<1>2. /\ \A a \in 0 .. Window : failed[a] = Count(b.failures, a)
      /\ Len(pruneBefore(b.failures)) < FailureThreshold
  BY <1>1, EmptyWindow
<1>3. ASSUME /\ \A a \in 0 .. Window : failed'[a] = Count(b'.failures, a)
             /\ Len(pruneBefore(b'.failures)) < FailureThreshold
             /\ b'.state # Closed => b'.failures = <<>> /\ failed' = NoFailures
      PROVE  WindowInv'
  BY <1>3 DEF WindowInv, WindowIsExact, Count
<1>4. ASSUME b'.failures = b.failures, failed' = failed,
             b'.state # Closed => b.state # Closed
      PROVE  WindowInv'
  BY <1>1, <1>2, <1>3, <1>4
<1>5. ASSUME b'.failures = <<>>, failed' = NoFailures
      PROVE  WindowInv'
  BY <1>3, <1>5, EmptyWindow
<1>6. ASSUME NEW c \in Calls, AllowProbe(c) PROVE WindowInv'
  <2>1. b' = claimProbe(afterCooldown(b)) /\ failed' = failed /\ afterCooldown(b) \in BreakerType
        /\ afterCooldown(b).state = HalfOpen
    BY <1>1, <1>6, AfterCooldownType DEF AllowProbe
  <2>2. afterCooldown(b).failures = b.failures /\ b.state # Closed
    BY <1>1, <2>1 DEF afterCooldown, setState, BreakerType, Closed, Open, HalfOpen
  <2>3. b'.failures = afterCooldown(b).failures
    <3> HIDE DEF afterCooldown
    <3> QED  BY <2>1 DEF claimProbe, BreakerType
  <2> QED  BY <1>4, <2>1, <2>2, <2>3
<1>7. ASSUME NEW c \in Calls, RecordSuccess(c) PROVE WindowInv'
  <2> DEFINE x == releaseProbe(b)
  <2>1. x \in BreakerType /\ x.state = b.state /\ x.failures = b.failures
    BY <1>1, ReleaseType DEF releaseProbe, BreakerType
  <2>2. failed' = failed /\ b' = IF b.state = HalfOpen THEN countSuccess(x) ELSE x
    BY <1>7 DEF RecordSuccess
  <2> HIDE DEF x
  <2>3. countSuccess(x).failures = x.failures
    BY <2>1 DEF countSuccess, setState, BreakerType
  <2> QED  BY <1>4, <2>1, <2>2, <2>3 DEF Closed, HalfOpen
<1>8. ASSUME NEW c \in Calls, RecordFailure(c) PROVE WindowInv'
  <2> DEFINE x == releaseProbe(b)
  <2>1. x \in BreakerType /\ x.state = b.state /\ x.failures = b.failures
    BY <1>1, ReleaseType DEF releaseProbe, BreakerType
  <2>2. b' = countFailure(b)
        /\ failed' = IF b'.state = Closed THEN [failed EXCEPT ![0] = @ + 1] ELSE NoFailures
    BY <1>8 DEF RecordFailure
  <2>3. CASE opensOnFailure(b)
    <3>1. b' = open(x)
      BY <2>2, <2>3 DEF countFailure
    <3> HIDE DEF x
    <3>2. b'.failures = <<>> /\ b'.state = Open
      BY <2>1, <3>1 DEF open, setState, BreakerType
    <3> QED  BY <1>5, <2>2, <3>2 DEF Closed, Open
  <2>4. CASE ~ opensOnFailure(b) /\ b.state = Closed
    <3> DEFINE w == windowAfterFailure(b)
               s == Append(b.failures, 0)
    <3>1. b' = [x EXCEPT !.failures = w]
      BY <2>2, <2>4 DEF countFailure
    <3>2. Len(w) < FailureThreshold /\ w = pruneBefore(s)
      <4>1. w = pruneBefore(s) /\ ~ (Len(w) >= FailureThreshold)
        BY <2>4 DEF opensOnFailure, windowAfterFailure
      <4>2. s \in Seq(0 .. Window + 1)
        BY <1>1, Ranges
      <4>3. Len(w) \in Nat
        <5> HIDE DEF w, s
        <5> QED  BY <4>1, <4>2, PruneType, Elements
      <4> QED  BY <4>1, <4>3, BreakerConfigValid
    <3>3. s \in Seq(0 .. Window + 1)
      BY <1>1, Ranges
    <3>4. \A a \in 0 .. Window : Count(s, a) = IF a = 0 THEN Count(b.failures, a) + 1 ELSE Count(b.failures, a)
      BY <1>1, AppendCounts
    <3> HIDE DEF x, w, s
    <3>5. b'.failures = w /\ b'.state = Closed
      BY <2>1, <2>4, <3>1 DEF BreakerType
    <3>6. w \in Seq(0 .. Window + 1) /\ \A a \in 0 .. Window : Count(w, a) = Count(s, a)
      BY <3>2, <3>3, PruneType, PruneCounts
    <3>7. Len(pruneBefore(w)) < FailureThreshold
      <4>1. Len(w) \in Nat
        BY <3>6, Elements
      <4>2. Len(pruneBefore(w)) \in Nat /\ Len(pruneBefore(w)) <= Len(w)
        <5>1. CASE pruneBefore(w) = <<>>
          BY <4>1, <5>1
        <5>2. CASE \E m \in 1 .. Len(w) : Len(pruneBefore(w)) = Len(w) - m + 1
          BY <4>1, <5>2
        <5> QED  BY <3>6, <5>1, <5>2, PruneResult
      <4> QED  BY <3>2, <4>1, <4>2, BreakerConfigValid
    <3>8. failed' = [failed EXCEPT ![0] = @ + 1] /\ 0 \in 0 .. Window
      BY <2>2, <3>5, BreakerConfigValid
    <3>9. \A a \in 0 .. Window : failed'[a] = IF a = 0 THEN failed[a] + 1 ELSE failed[a]
      BY <1>1, <3>8
    <3>10. \A a \in 0 .. Window : failed'[a] = Count(b'.failures, a)
      BY <1>2, <3>4, <3>5, <3>6, <3>9
    <3> QED  BY <1>3, <3>5, <3>7, <3>10
  <2>5. CASE ~ opensOnFailure(b) /\ b.state # Closed
    <3>1. b' = x
      BY <2>2, <2>5 DEF countFailure
    <3> QED  BY <1>1, <1>5, <2>1, <2>2, <2>5, <3>1
  <2> QED  BY <2>3, <2>4, <2>5
<1>9. CASE Reset
  <2>1. b'.failures = <<>> /\ failed' = NoFailures
    BY <1>1, <1>9 DEF Reset, resetLocally, setState, BreakerType
  <2> QED  BY <1>5, <2>1
<1>10. CASE Tick
  <2> DEFINE aged == [i \in DOMAIN b.failures |->
                         IF b.failures[i] <= Window THEN b.failures[i] + 1 ELSE Window + 1]
  <2>1. b'.failures = aged /\ b'.state = b.state
    BY <1>1, <1>10 DEF Tick, age, BreakerType
  <2>2. aged \in Seq(0 .. Window + 1)
    BY <1>1, AgedFailuresType
  <2>3. DOMAIN aged = DOMAIN b.failures
        /\ \A i \in DOMAIN b.failures :
             aged[i] = IF b.failures[i] <= Window THEN b.failures[i] + 1 ELSE Window + 1
    OBVIOUS
  <2>4. b.failures = <<>> => aged = <<>>
    OBVIOUS
  <2> HIDE DEF aged
  <2>5. /\ Len(pruneBefore(aged)) <= Len(pruneBefore(b.failures))
        /\ \A a \in 0 .. Window : Count(aged, a) = IF a = 0 THEN 0 ELSE Count(b.failures, a - 1)
    BY <1>1, <2>2, <2>3, AgedIsPrunedMore
  <2>6. Len(pruneBefore(aged)) \in Nat /\ Len(pruneBefore(b.failures)) \in Nat
    BY <1>1, <2>2, PruneType, Elements
  <2>7. Len(pruneBefore(b'.failures)) < FailureThreshold
    BY <1>2, <2>1, <2>5, <2>6, BreakerConfigValid
  <2>8. failed' = [a \in 0 .. Window |-> IF a = 0 THEN 0 ELSE failed[a - 1]]
    BY <1>10 DEF Tick
  <2>9. \A a \in 0 .. Window : a # 0 => a - 1 \in 0 .. Window
    BY BreakerConfigValid
  <2>10. \A a \in 0 .. Window : failed'[a] = Count(b'.failures, a)
    BY <1>2, <2>1, <2>5, <2>8, <2>9
  <2>11. failed = NoFailures => failed' = NoFailures
    BY <2>8, <2>9 DEF NoFailures
  <2> QED  BY <1>1, <1>3, <2>1, <2>4, <2>7, <2>10, <2>11
<1>11. ASSUME NEW c \in Calls, AllowClosed(c) \/ AllowRejected(c) \/ Abandon(c) PROVE WindowInv'
  BY <1>4, <1>11 DEF AllowClosed, AllowRejected, Abandon, history, vars
<1>12. CASE Recover \/ UNCHANGED vars
  BY <1>4, <1>12 DEF Recover, history, vars
<1> QED  BY <1>6, <1>7, <1>8, <1>9, <1>10, <1>11, <1>12 DEF Next

\* The pruned slice of failures is the rolling window the breaker promises: for any Window
\* and threshold a closed breaker holds exactly the failures reported within Window since it
\* closed, and always fewer than FailureThreshold (recordFailureLocally, pruneBefore, open).
THEOREM WindowCorrect == Spec => []WindowIsExact
<1>1. Init => WindowInv
  <2> SUFFICES ASSUME Init PROVE WindowInv
    OBVIOUS
  <2>1. b.failures = <<>> /\ failed = NoFailures
    BY DEF Init, NewBreaker
  <2> QED  BY <2>1, EmptyWindow DEF WindowInv, WindowIsExact, Count
<1>2. WindowInv => WindowIsExact
  BY DEF WindowInv
<1> QED  BY <1>1, <1>2, WindowInvStep, TypeCorrect, PTL DEF Spec

-----------------------------------------------------------------------------
(* The other judge of a provider: HealthMonitor, for any tier, samples and *)
(* configuration that its own check, validate, lets through.               *)

\* The fields of providerState.
Fields == {"status", "consecutiveFails", "recoveryStreak", "baselineP99"}

\* The verdict Redis should have of p.
latest(p) == IF foreign[p] = NoStatus THEN st[p].status ELSE foreign[p]

\* The streak never claims more than the evidence, and what Redis has of a
\* provider is the verdict written last, unless a command for it failed.
EvidenceIsCounted ==
  /\ DOMAIN st = Providers /\ DOMAIN redis = Providers /\ DOMAIN unsaved = Providers /\ DOMAIN foreign = Providers
  /\ clean \in [Providers -> Nat] /\ restarts \in Nat
  /\ \A p \in Providers :
       /\ DOMAIN st[p] = Fields /\ st[p].status \in Statuses
       /\ st[p].recoveryStreak \in Nat /\ st[p].recoveryStreak < RecoveryStreak
       /\ st[p].recoveryStreak <= clean[p]
       /\ st[p].status = Healthy => st[p].recoveryStreak = 0
       /\ redis[p] \in Statuses \cup {NoStatus}
       /\ unsaved[p] \in BOOLEAN /\ foreign[p] \in Statuses \cup {NoStatus}
       /\ ~ unsaved[p] => parseStatus(redis[p]) = latest(p)

LEMMA MonitorConstants ==
  ASSUME validate
  PROVE  RecoveryStreak \in Nat \ {0} /\ MaxRestarts \in Nat
BY DEF validate

LEMMA SmallerOfTwo ==
  ASSUME NEW x \in Int, NEW y \in Int
  PROVE  Min({x, y}) = IF x <= y THEN x ELSE y
<1>1. CASE x <= y
  <2>1. \A z \in {x, y} : x <= z BY <1>1
  <2>2. \A m \in {x, y} : (\A z \in {x, y} : m <= z) => m = x BY <1>1
  <2> QED BY <2>1, <2>2, <1>1 DEF Min
<1>2. CASE ~ (x <= y)
  <2>1. \A z \in {x, y} : y <= z BY <1>2
  <2>2. \A m \in {x, y} : (\A z \in {x, y} : m <= z) => m = y BY <1>2
  <2> QED BY <2>1, <2>2, <1>2 DEF Min
<1> QED BY <1>1, <1>2

LEMMA EvidenceInit ==
  ASSUME validate, HealthInit
  PROVE  EvidenceIsCounted
<1>1. RecoveryStreak \in Nat \ {0} /\ MaxRestarts \in Nat BY MonitorConstants
<1> QED BY <1>1 DEF HealthInit, EvidenceIsCounted, latest, NewState, Fields, parseStatus,
               Statuses, Healthy, Degraded, Down, NoStatus

\* What an evaluation makes of the state and of the streak.
LEMMA TransitionEffect ==
  ASSUME validate, NEW x, DOMAIN x = Fields, x.status \in Statuses,
         x.recoveryStreak \in Nat, x.recoveryStreak < RecoveryStreak,
         NEW raw \in Statuses, NEW ok \in BOOLEAN,
         NEW c \in Nat, x.recoveryStreak <= c,
         NEW d, d = (IF raw # Healthy \/ ~ ok \/ x.status = Healthy THEN 0
                     ELSE IF c + 1 <= RecoveryStreak THEN c + 1 ELSE RecoveryStreak),
         x.status = Healthy => x.recoveryStreak = 0
  PROVE  LET y == transition(x, raw, ok)
         IN  /\ DOMAIN y = Fields /\ y.status \in Statuses
             /\ y.recoveryStreak \in Nat /\ y.recoveryStreak < RecoveryStreak
             /\ d \in Nat /\ y.recoveryStreak <= d
             /\ y.status = Healthy => y.recoveryStreak = 0
             /\ x.status # Healthy /\ y.status = Healthy => d >= RecoveryStreak
<1>1. RecoveryStreak \in Nat \ {0} BY MonitorConstants
<1>2. CASE raw # Healthy
  BY <1>1, <1>2 DEF transition, Fields
<1>3. CASE raw = Healthy /\ x.status = Healthy
  BY <1>1, <1>3 DEF transition, Fields
<1>4. CASE raw = Healthy /\ x.status # Healthy /\ ~ ok
  BY <1>1, <1>4 DEF transition, Fields
<1>5. CASE raw = Healthy /\ x.status # Healthy /\ ok
  <2>1. CASE x.recoveryStreak + 1 < RecoveryStreak
    BY <1>1, <1>5, <2>1 DEF transition, Fields
  <2>2. CASE ~ (x.recoveryStreak + 1 < RecoveryStreak)
    <3>1. transition(x, raw, ok) = [x EXCEPT !.status = Healthy, !.recoveryStreak = 0]
      BY <1>5, <2>2 DEF transition
    <3>2. d >= RecoveryStreak /\ d \in Nat
      BY <1>1, <1>5, <2>2
    <3> QED BY <3>1, <3>2, <1>1, <1>5 DEF Fields, Statuses
  <2> QED BY <2>1, <2>2
<1> QED BY <1>2, <1>3, <1>4, <1>5

LEMMA BaselineKeepsVerdict ==
  ASSUME NEW x, DOMAIN x = Fields, NEW s
  PROVE  /\ DOMAIN updateBaseline(x, s) = Fields
         /\ updateBaseline(x, s).status = x.status
         /\ updateBaseline(x, s).recoveryStreak = x.recoveryStreak
BY DEF updateBaseline, Fields

\* What Redis has of a provider is the verdict written last, unless a command for it failed.
LEMMA CommitEffect ==
  ASSUME NEW p \in Providers, NEW new, new.status \in Statuses,
         EvidenceIsCounted, Commit(p, new)
  PROVE  /\ DOMAIN redis' = Providers /\ DOMAIN unsaved' = Providers /\ DOMAIN foreign' = Providers
         /\ redis'[p] \in Statuses \cup {NoStatus} /\ unsaved'[p] \in BOOLEAN
         /\ foreign'[p] \in Statuses \cup {NoStatus}
         /\ ~ unsaved'[p] => parseStatus(redis'[p]) = IF foreign'[p] = NoStatus THEN new.status ELSE foreign'[p]
         /\ \A q \in Providers \ {p} : redis'[q] = redis[q] /\ unsaved'[q] = unsaved[q] /\ foreign'[q] = foreign[q]
<1>1. CASE new.status = st[p].status
  BY <1>1 DEF Commit, EvidenceIsCounted, latest, parseStatus
<1>2. CASE new.status # st[p].status
  <2>1. new.status # NoStatus
    BY DEF Statuses, NoStatus, Healthy, Degraded, Down
  <2>2. CASE /\ redis' = [redis EXCEPT ![p] = new.status] /\ unsaved' = [unsaved EXCEPT ![p] = FALSE]
             /\ foreign' = [foreign EXCEPT ![p] = NoStatus]
    BY <2>1, <2>2 DEF EvidenceIsCounted, parseStatus
  <2>3. CASE unsaved' = [unsaved EXCEPT ![p] = TRUE] /\ UNCHANGED <<redis, foreign>>
    BY <2>3 DEF EvidenceIsCounted
  <2> QED BY <1>2, <2>2, <2>3 DEF Commit
<1> QED BY <1>1, <1>2

\* An evaluation.
LEMMA ObserveEffect ==
  ASSUME validate, NEW p \in Providers, NEW ok \in BOOLEAN,
         EvidenceIsCounted, Observe(p, ok)
  PROVE  /\ EvidenceIsCounted'
         /\ restarts' = restarts
         /\ \A q \in Providers :
              st[q].status # Healthy /\ st'[q].status = Healthy => clean'[q] >= RecoveryStreak
<1>1. RecoveryStreak \in Nat \ {0} BY MonitorConstants
<1>2. PICK counted, s, raw, new :
        /\ raw = classify(p, counted, s)
        /\ new = transition([st[p] EXCEPT !.consecutiveFails = counted], raw, ok)
        /\ st' = [st EXCEPT ![p] = updateBaseline(new, s)]
        /\ Commit(p, new)
        /\ clean' = [clean EXCEPT ![p] =
                       IF raw # Healthy \/ ~ ok \/ st[p].status = Healthy THEN 0
                       ELSE Min({@ + 1, RecoveryStreak})]
        /\ restarts' = restarts
  BY DEF Observe
<1>3. raw \in Statuses BY <1>2 DEF classify, Statuses
<1> DEFINE x == [st[p] EXCEPT !.consecutiveFails = counted]
<1>4. /\ DOMAIN st[p] = Fields /\ st[p].status \in Statuses
      /\ st[p].recoveryStreak \in Nat /\ st[p].recoveryStreak < RecoveryStreak
      /\ clean[p] \in Nat /\ st[p].recoveryStreak <= clean[p]
      /\ st[p].status = Healthy => st[p].recoveryStreak = 0
  BY DEF EvidenceIsCounted
<1>5. DOMAIN x = Fields /\ x.status = st[p].status /\ x.recoveryStreak = st[p].recoveryStreak
  BY <1>4 DEF Fields
<1>6. clean'[p] = (IF raw # Healthy \/ ~ ok \/ x.status = Healthy THEN 0
                   ELSE IF clean[p] + 1 <= RecoveryStreak THEN clean[p] + 1 ELSE RecoveryStreak)
  <2>1. Min({clean[p] + 1, RecoveryStreak})
          = IF clean[p] + 1 <= RecoveryStreak THEN clean[p] + 1 ELSE RecoveryStreak
    BY <1>1, <1>4, SmallerOfTwo
  <2> QED BY <2>1, <1>2, <1>5 DEF EvidenceIsCounted
<1>7. /\ DOMAIN new = Fields /\ new.status \in Statuses
      /\ new.recoveryStreak \in Nat /\ new.recoveryStreak < RecoveryStreak
      /\ clean'[p] \in Nat /\ new.recoveryStreak <= clean'[p]
      /\ new.status = Healthy => new.recoveryStreak = 0
      /\ x.status # Healthy /\ new.status = Healthy => clean'[p] >= RecoveryStreak
  <2> HIDE DEF x
  <2>1. /\ x.status \in Statuses /\ x.recoveryStreak \in Nat /\ x.recoveryStreak < RecoveryStreak
        /\ x.recoveryStreak <= clean[p] /\ (x.status = Healthy => x.recoveryStreak = 0)
    BY <1>4, <1>5
  <2>2. new = transition(x, raw, ok) BY <1>2 DEF x
  <2> QED BY <2>1, <2>2, <1>3, <1>4, <1>5, <1>6, TransitionEffect
<1>8. /\ DOMAIN st' = Providers
      /\ DOMAIN st'[p] = Fields /\ st'[p].status = new.status /\ st'[p].recoveryStreak = new.recoveryStreak
      /\ \A q \in Providers \ {p} : st'[q] = st[q] /\ clean'[q] = clean[q]
      /\ clean' \in [Providers -> Nat]
  <2>1. st'[p] = updateBaseline(new, s) BY <1>2 DEF EvidenceIsCounted
  <2>2. DOMAIN st' = Providers /\ \A q \in Providers \ {p} : st'[q] = st[q] /\ clean'[q] = clean[q]
    BY <1>2 DEF EvidenceIsCounted
  <2>3. clean' \in [Providers -> Nat]
    <3>1. clean' = [clean EXCEPT ![p] = clean'[p]] BY <1>2 DEF EvidenceIsCounted
    <3> QED BY <3>1, <1>7 DEF EvidenceIsCounted
  <2> QED BY <2>1, <2>2, <2>3, <1>7, BaselineKeepsVerdict
<1>9. /\ DOMAIN redis' = Providers /\ DOMAIN unsaved' = Providers /\ DOMAIN foreign' = Providers
      /\ redis'[p] \in Statuses \cup {NoStatus} /\ unsaved'[p] \in BOOLEAN
      /\ foreign'[p] \in Statuses \cup {NoStatus}
      /\ ~ unsaved'[p] => parseStatus(redis'[p]) = IF foreign'[p] = NoStatus THEN new.status ELSE foreign'[p]
      /\ \A q \in Providers \ {p} : redis'[q] = redis[q] /\ unsaved'[q] = unsaved[q] /\ foreign'[q] = foreign[q]
  BY <1>2, <1>7, CommitEffect
<1>10. EvidenceIsCounted'
  <2>1. ASSUME NEW q \in Providers
        PROVE  /\ DOMAIN st'[q] = Fields /\ st'[q].status \in Statuses
               /\ st'[q].recoveryStreak \in Nat /\ st'[q].recoveryStreak < RecoveryStreak
               /\ st'[q].recoveryStreak <= clean'[q]
               /\ st'[q].status = Healthy => st'[q].recoveryStreak = 0
               /\ redis'[q] \in Statuses \cup {NoStatus}
               /\ unsaved'[q] \in BOOLEAN /\ foreign'[q] \in Statuses \cup {NoStatus}
               /\ ~ unsaved'[q]
                    => parseStatus(redis'[q]) = IF foreign'[q] = NoStatus THEN st'[q].status ELSE foreign'[q]
    <3>1. CASE q = p BY <3>1, <1>7, <1>8, <1>9
    <3>2. CASE q # p BY <3>2, <1>8, <1>9 DEF EvidenceIsCounted, latest
    <3> QED BY <3>1, <3>2
  <2> QED BY <2>1, <1>2, <1>8, <1>9 DEF EvidenceIsCounted, latest, parseStatus
<1>11. \A q \in Providers :
              st[q].status # Healthy /\ st'[q].status = Healthy => clean'[q] >= RecoveryStreak
  BY <1>5, <1>7, <1>8
<1> QED BY <1>2, <1>10, <1>11

LEMMA RestartEffect ==
  ASSUME validate, EvidenceIsCounted, Restart
  PROVE  /\ EvidenceIsCounted'
         /\ \A p \in Providers : ~ unsaved'[p] => st'[p].status = latest(p)
<1>1. RecoveryStreak \in Nat \ {0} BY MonitorConstants
<1>2. \A p \in Providers : parseStatus(redis[p]) \in Statuses
  BY DEF EvidenceIsCounted, parseStatus, Statuses
<1>3. redis' = redis /\ foreign' = foreign /\ clean' = [p \in Providers |-> 0] /\ restarts' \in Nat
  BY DEF Restart, EvidenceIsCounted
<1>4. CASE st' = [p \in Providers |-> NewState(parseStatus(redis[p]))] /\ unsaved' = unsaved
  <2>1. \A p \in Providers : st'[p] = NewState(parseStatus(redis[p])) /\ st'[p].status = parseStatus(redis[p])
    BY <1>4 DEF NewState
  <2>2. \A p \in Providers : ~ unsaved'[p] => st'[p].status = latest(p)
    BY <1>4, <2>1 DEF EvidenceIsCounted
  <2>3. \A p \in Providers : ~ unsaved[p] /\ foreign[p] # NoStatus => parseStatus(redis[p]) = foreign[p]
    BY DEF EvidenceIsCounted, latest
  <2>4. EvidenceIsCounted'
    BY <1>1, <1>2, <1>3, <1>4, <2>1, <2>3 DEF EvidenceIsCounted, latest, NewState, Fields, parseStatus
  <2> QED  BY <2>2, <2>4
<1>5. CASE /\ st' = [p \in Providers |-> NewState(Healthy)]
           /\ unsaved' = [p \in Providers |-> TRUE]
  BY <1>1, <1>3, <1>5 DEF EvidenceIsCounted, latest, NewState, Fields, Statuses
<1> QED BY <1>4, <1>5 DEF Restart

\* Every step, and what it does to the verdicts.
LEMMA VerdictStep ==
  ASSUME validate, EvidenceIsCounted, [HealthNext]_healthVars
  PROVE  /\ EvidenceIsCounted'
         /\ \A p \in Providers :
              st[p].status # Healthy /\ st'[p].status = Healthy /\ restarts' = restarts
                => clean'[p] >= RecoveryStreak
         /\ \A p \in Providers : restarts' # restarts /\ ~ unsaved'[p] => st'[p].status = latest(p)
<1>1. CASE UNCHANGED <<st, redis, restarts, clean, unsaved, foreign>>
  BY <1>1 DEF EvidenceIsCounted, latest, parseStatus
<1>2. ASSUME NEW p \in Providers, NEW ok \in BOOLEAN, Observe(p, ok)
      PROVE  /\ EvidenceIsCounted'
             /\ restarts' = restarts
             /\ \A q \in Providers :
              st[q].status # Healthy /\ st'[q].status = Healthy => clean'[q] >= RecoveryStreak
  BY <1>2, ObserveEffect
<1>3. CASE Restart
  <2>2. restarts' # restarts BY <1>3 DEF Restart, EvidenceIsCounted
  <2> QED BY <1>3, <2>2, RestartEffect
<1>4. ASSUME NEW p \in Providers,
             ClaimProbe(p) \/ Turn(p) \/ \E o \in Outcomes : Call(p, o)
      PROVE  UNCHANGED <<st, redis, restarts, clean, unsaved, foreign>>
  BY <1>4 DEF ClaimProbe, Turn, Call
<1>5. CASE Elapse \/ UNCHANGED healthVars
  BY <1>1, <1>5 DEF Elapse, healthVars
<1>6. ASSUME NEW p \in Providers, Overwrite(p)
      PROVE  EvidenceIsCounted' /\ UNCHANGED <<st, restarts>>
  <2>1. PICK s \in Statuses :
          /\ redis' = [redis EXCEPT ![p] = s] /\ foreign' = [foreign EXCEPT ![p] = s]
          /\ unsaved' = [unsaved EXCEPT ![p] = FALSE] /\ UNCHANGED <<st, restarts, clean>>
    BY <1>6 DEF Overwrite
  <2>2. s # NoStatus
    BY DEF Statuses, NoStatus, Healthy, Degraded, Down
  <2> QED BY <2>1, <2>2 DEF EvidenceIsCounted, latest, parseStatus
<1> QED BY <1>1, <1>2, <1>3, <1>4, <1>5, <1>6 DEF HealthNext

\* A verdict returns to healthy only after RecoveryStreak clean evaluations in a
\* row, and a restart brings back the verdict the process died with, or the one
\* another replica has put in its place, unless a Redis command failed: for every tier, window, threshold, streak and
\* number of failures and restarts that MonitorConfig.validate lets through.
THEOREM VerdictsHold == HealthSpec => VerdictsAreEarned
<1> DEFINE Earned == \A p \in Providers :
              st[p].status # Healthy /\ st'[p].status = Healthy /\ restarts' = restarts
                => clean'[p] >= RecoveryStreak
           Survives == \A p \in Providers :
              restarts' # restarts /\ ~ unsaved'[p]
                => st'[p].status = IF foreign[p] = NoStatus THEN st[p].status ELSE foreign[p]
<1>0. validate BY MonitorConfigValid
<1>1. HealthInit => EvidenceIsCounted BY <1>0, EvidenceInit
<1>2. EvidenceIsCounted /\ [HealthNext]_healthVars => EvidenceIsCounted' BY <1>0, VerdictStep
<1>3. EvidenceIsCounted /\ [HealthNext]_healthVars => [Earned]_healthVars BY <1>0, VerdictStep
<1>4. EvidenceIsCounted /\ [HealthNext]_healthVars => [Survives]_healthVars BY <1>0, VerdictStep DEF latest
<1> QED BY <1>1, <1>2, <1>3, <1>4, PTL
    DEF HealthSpec, VerdictsAreEarned, RecoveryIsEarned, VerdictSurvivesRestart
=============================================================================
