---------------------------- MODULE LocalBreaker ----------------------------
(***************************************************************************)
(* A Breaker without a store (NewBreaker: one replica) and the requests    *)
(* that use it concurrently.  Each of Allow, RecordSuccess, RecordFailure  *)
(* and Reset is one critical section of b.mu, so each is one action.       *)
(*                                                                         *)
(* A call runs its candidate between Allow and the Record that reports it  *)
(* (proxy/fallback.go, runChain).  It may also leave without reporting:    *)
(* runChain's `continue` after a budget denial or a resolver error.        *)
(***************************************************************************)
EXTENDS Breaker, FiniteSets

CONSTANT Calls   \* the requests that may be in flight at once
ASSUME CallsAssumption == Calls # {}

NoFailures == [a \in 0 .. Window |-> 0]

VARIABLES
  b,         \* the breaker
  call,      \* call[c]: where request c is, and since when
  failing,   \* calls may still fail (set FALSE for good by Recover)
  probes,    \* history: running calls that claimed the slot since the last transition
  holder,    \* history: the call that claimed the slot last, as a set
  stray,     \* history: since the last transition, a call other than holder reported
  failed,    \* history: failed[a] failures were reported a time units ago while Closed
  successes  \* history: successes reported since the breaker last became half-open

vars == <<b, call, failing, probes, holder, stray, failed, successes>>
history == <<probes, holder, stray, failed, successes>>

CallType == [pc : {"idle", "running"}, age : 0 .. ProbeTimeout]

TypeOK ==
  /\ b \in BreakerType
  /\ call \in [Calls -> CallType]
  /\ failing \in BOOLEAN
  /\ probes \in SUBSET Calls
  /\ holder \in SUBSET Calls
  /\ stray \in BOOLEAN
  /\ failed \in [0 .. Window -> Nat]
  /\ successes \in 0 .. SuccessThreshold

Init ==
  /\ b = NewBreaker
  /\ call = [c \in Calls |-> [pc |-> "idle", age |-> 0]]
  /\ failing = TRUE
  /\ probes = {}
  /\ holder = {}
  /\ stray = FALSE
  /\ failed = NoFailures
  /\ successes = 0

-----------------------------------------------------------------------------
Start(c) == call' = [call EXCEPT ![c] = [pc |-> "running", age |-> 0]]
Finish(c) == call' = [call EXCEPT ![c] = [pc |-> "idle", age |-> 0]]

\* allowLocal in Closed: everyone is admitted.
AllowClosed(c) ==
  /\ call[c].pc = "idle"
  /\ b.state = Closed
  /\ Start(c)
  /\ UNCHANGED <<b, failing, history>>

\* allowLocal in Open with the cooldown running, or in HalfOpen with the slot
\* taken: rejected, nothing changes.
AllowRejected(c) ==
  /\ call[c].pc = "idle"
  /\ \/ afterCooldown(b).state = Open
     \/ afterCooldown(b).state = HalfOpen /\ ~ probeAvailable(afterCooldown(b))
  /\ UNCHANGED vars

\* allowLocal that claims the probe slot, having moved an Open breaker whose
\* cooldown is over to HalfOpen first.
AllowProbe(c) ==
  LET half == afterCooldown(b)
  IN  /\ call[c].pc = "idle"
      /\ half.state = HalfOpen
      /\ probeAvailable(half)
      /\ b' = claimProbe(half)
      /\ Start(c)
      /\ holder' = {c}
      /\ probes' = IF b.state = Open THEN {c} ELSE probes \cup {c}
      /\ stray' = IF b.state = Open THEN FALSE ELSE stray
      /\ successes' = IF b.state = Open THEN 0 ELSE successes
      /\ UNCHANGED <<failing, failed>>

\* History of a report by c that takes the breaker from b to b2.
Reported(c, b2) ==
  /\ probes' = IF b2.state # b.state THEN {} ELSE probes \ {c}
  /\ stray' = (b2.state = b.state /\ (stray \/ c \notin holder))
  /\ UNCHANGED holder

RecordSuccess(c) ==
  /\ call[c].pc = "running"
  /\ b' = IF b.state = HalfOpen THEN countSuccess(releaseProbe(b)) ELSE releaseProbe(b)
  /\ Finish(c)
  /\ Reported(c, b')
  /\ successes' = IF b.state = HalfOpen /\ successes < SuccessThreshold
                  THEN successes + 1 ELSE successes
  /\ UNCHANGED <<failing, failed>>

RecordFailure(c) ==
  /\ call[c].pc = "running"
  /\ failing
  /\ b' = countFailure(b)
  /\ Finish(c)
  /\ Reported(c, b')
  /\ failed' = IF b'.state = Closed THEN [failed EXCEPT ![0] = @ + 1] ELSE NoFailures
  /\ UNCHANGED <<failing, successes>>

\* runChain skips an admitted candidate on budget: the outcome is never reported.
Abandon(c) ==
  /\ call[c].pc = "running"
  /\ failing
  /\ Finish(c)
  /\ probes' = probes \ {c}
  /\ UNCHANGED <<b, failing, holder, stray, failed, successes>>

Reset ==
  /\ b' = resetLocally(b)
  /\ probes' = {}
  /\ stray' = FALSE
  /\ failed' = NoFailures
  /\ UNCHANGED <<call, failing, holder, successes>>

-----------------------------------------------------------------------------
\* Time passes for the breaker and for every running call.
Tick ==
  /\ b' = age(b)
  /\ call' = [c \in Calls |->
                IF call[c].pc = "running" /\ call[c].age < ProbeTimeout
                THEN [call[c] EXCEPT !.age = @ + 1] ELSE call[c]]
  /\ failed' = [a \in 0 .. Window |-> IF a = 0 THEN 0 ELSE failed[a - 1]]
  /\ UNCHANGED <<failing, probes, holder, stray, successes>>

\* The provider is well again: from here on calls succeed and are reported.
Recover == failing /\ failing' = FALSE /\ UNCHANGED <<b, call, history>>

Next ==
  \/ \E c \in Calls : \/ AllowClosed(c) \/ AllowProbe(c) \/ AllowRejected(c)
                      \/ RecordSuccess(c) \/ RecordFailure(c) \/ Abandon(c)
  \/ Reset
  \/ Tick
  \/ Recover

Spec == Init /\ [][Next]_vars

\* Time passes, the provider recovers, admitted calls are reported, and
\* requests keep arriving whenever the breaker would take a probe.
Fairness ==
  /\ WF_vars(Tick)
  /\ WF_vars(Recover)
  /\ WF_vars(\E c \in Calls : AllowProbe(c))
  /\ \A c \in Calls : WF_vars(RecordSuccess(c))

FairSpec == Spec /\ Fairness

-----------------------------------------------------------------------------
\* Probes of the current half-open period that the slot's timeout still covers.
LiveProbes == {c \in probes : call[c].age < ProbeTimeout}

\* The single-probe guarantee as far as the code gives it: as long as every
\* report since the last transition came from the holder of the slot, at most
\* one probe younger than ProbeTimeout is running (claimProbe, setState).
ProbeExclusion ==
  ~ stray => \A c, d \in LiveProbes : c = d

\* What makes ProbeExclusion inductive: a live probe is the holder of a taken
\* slot, and as old as the slot.
SlotInv ==
  /\ \A c \in probes : call[c].pc = "running"
  /\ b.state # HalfOpen => probes = {}
  /\ \A c, d \in holder : c = d
  /\ ~ stray => \A c \in LiveProbes :
                  c \in holder /\ b.probeInFlight /\ call[c].age = b.probeAge

\* The failures a closed breaker holds against the provider are exactly the
\* ones reported within Window since it last closed, and they are always fewer
\* than FailureThreshold: the failure that completes the count opens it.
WindowIsExact ==
  b.state = Closed =>
    /\ \A a \in 0 .. Window :
         failed[a] = Cardinality({i \in DOMAIN b.failures : b.failures[i] = a})
    /\ Len(pruneBefore(b.failures)) < FailureThreshold

\* A half-open breaker counts only successes reported in this half-open period:
\* a streak never carries over from an earlier one (open, setState).
StreakIsFresh == b.state = HalfOpen => b.successStreak = successes

\* An open breaker waits out the cooldown of its own episode count: base for
\* the first, and never less than the capped exponential (nextCooldown, open).
CooldownMatchesEpisode ==
  b.state = Open => /\ b.reopens > 0
                    /\ b.cooldown = nextCooldown(b.reopens)
                    /\ b.cooldownLeft <= b.cooldown

\* Both, with what makes them inductive: an open breaker has no streak, and a half-open
\* one is always short of the threshold, so the success that completes it closes it
\* (open, countSuccess).
EpisodeInv ==
  /\ CooldownMatchesEpisode
  /\ StreakIsFresh
  /\ b.state = Open => b.successStreak = 0
  /\ b.state = HalfOpen => b.successStreak < SuccessThreshold

\* Once calls stop failing the breaker closes and stays closed, whatever was
\* in flight, abandoned or reclaimed before.
Heals == <>[](b.state = Closed)
=============================================================================
