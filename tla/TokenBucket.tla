---------------------------- MODULE TokenBucket ----------------------------
(***************************************************************************)
(* A team's RPM or TPM bucket in Redis (internal/ratelimit/bucket.go) and  *)
(* the requests that reserve from it and settle afterwards                 *)
(* (proxy/ratelimit.go, reserveTokens and the deferred Reconcile in        *)
(* proxy/handler.go).                                                      *)
(*                                                                         *)
(* Redis stores tokens and the time they were computed at; idle is the     *)
(* time since.  Every write renews the key's expiry, so the key is gone    *)
(* exactly when idle has reached TTL, whatever was still owed.  Quantities *)
(* are whole: Refill tokens accrue in a unit of time.  A balance has no    *)
(* floor, and a request may ask for more than a full bucket holds.  A      *)
(* Redis command may fail MaxFaults times:                                 *)
(* "lost" never reached Redis, "late" took effect unseen; a request whose  *)
(* check failed goes ahead without a reservation (fail open).              *)
(***************************************************************************)
EXTENDS Integers

CONSTANTS
  Requests,      \* requests that may be in flight at once
  Capacity, Refill, Amounts,   \* as in ContinuousBucket
  TTL,           \* bucketTTL
  ShedFloor,     \* batchShedFloor * capacity; 0 for a realtime team
  MaxUse,        \* most tokens one request turns out to use
  MaxTicks,      \* units of time in a behaviour
  MaxFaults      \* Redis commands that fail in a behaviour

ASSUME BucketAssumption ==
  /\ Requests # {}
  /\ Capacity \in Nat \ {0} /\ Refill \in Nat \ {0}
  /\ Amounts \subseteq Nat \ {0}          \* Consume refuses an amount that is not positive
  /\ TTL \in Nat \ {0}
  /\ ShedFloor \in 0 .. Capacity
  /\ MaxUse \in Nat /\ MaxTicks \in Nat /\ MaxFaults \in Nat

\* A bucket's worth accrues in a minute (refillPerSecond), and bucketTTL is two
\* minutes: a key that expires would have been full if it owed at most one
\* bucket when it was last written, and not otherwise.
ASSUME TTLIsTwoWindows == TTL * Refill = 2 * Capacity

VARIABLES
  tokens,    \* the stored balance; meaningless once the key has expired
  idle,      \* time since it was computed; TTL when there is no key
  req,       \* req[r]: where request r is, and what it has reserved
  faults,    \* Redis failures left
  ticks,     \* time since the start
  used,      \* history: what reserved requests hold or have used
  forgiven,  \* history: what was still owed when a key expired
  promise    \* history: the last denial's amount and Retry-After, if nobody came since

bucketVars == <<tokens, idle, req, faults, ticks, used, forgiven, promise>>

RequestType == [pc : {"idle", "running", "settle"}, reserved : Amounts \cup {0}, actual : 0 .. MaxUse]
Idle == [pc |-> "idle", reserved |-> 0, actual |-> 0]
NoPromise == [amount |-> 0, wait |-> 0]

TypeOK ==
  /\ tokens \in Int /\ tokens <= Capacity
  /\ idle \in 0 .. TTL
  /\ req \in [Requests -> RequestType]
  /\ faults \in 0 .. MaxFaults
  /\ ticks \in 0 .. MaxTicks
  /\ used \in Int /\ forgiven \in Nat
  /\ promise \in [amount : Nat, wait : Nat]

BucketInit ==
  /\ tokens = Capacity
  /\ idle = TTL
  /\ req = [r \in Requests |-> Idle]
  /\ faults = MaxFaults
  /\ ticks = 0
  /\ used = 0 /\ forgiven = 0
  /\ promise = NoPromise

-----------------------------------------------------------------------------
full(x) == IF x > Capacity THEN Capacity ELSE x

\* Mutant of refilled: an idle bucket overflows.
refilledUncapped == IF idle = TTL THEN Capacity ELSE tokens + idle * Refill

\* The balance both scripts start from: an absent key is a full bucket, a
\* stored balance has accrued since it was written.
refilled == IF idle = TTL THEN Capacity ELSE full(tokens + idle * Refill)

fits(a) == refilled >= a

\* Mutant of retryAfter: rounded down.
retryAfterFloor(a) == (a - refilled) \div Refill

\* deficit / refill_per_sec, which writeRateLimitHeaders rounds up to whole units.
retryAfter(a) == (a - refilled + Refill - 1) \div Refill

Outcomes == {"ok"} \cup (IF faults > 0 THEN {"lost", "late"} ELSE {})

\* Mutant of RunScript: the balance is written without its time.
RunScriptUndated(out, b) ==
  /\ tokens' = IF out = "lost" THEN tokens ELSE b
  /\ idle' = idle
  /\ faults' = IF out = "ok" THEN faults ELSE faults - 1

\* A script that leaves balance b behind; both write even when nothing is taken.
RunScript(out, b) ==
  /\ tokens' = IF out = "lost" THEN tokens ELSE b
  /\ idle' = IF out = "lost" THEN idle ELSE 0
  /\ faults' = IF out = "ok" THEN faults ELSE faults - 1

consumed(a) == IF fits(a) THEN refilled - a ELSE refilled

settledBalance(d) == full(refilled + d)

-----------------------------------------------------------------------------
\* Reserve, and the handler's decision on it.
Reserve(r, a) ==
  /\ req[r].pc = "idle"
  /\ \E out \in Outcomes :
       /\ RunScript(out, consumed(a))
       /\ \/ /\ out = "ok" /\ fits(a) /\ consumed(a) >= ShedFloor
             /\ req' = [req EXCEPT ![r] = [Idle EXCEPT !.pc = "running", !.reserved = a]]
             /\ used' = used + a
             /\ promise' = NoPromise
          \* Batch priority below the floor: shed, and the reservation refunded.
          \/ /\ out = "ok" /\ fits(a) /\ consumed(a) < ShedFloor
             /\ req' = [req EXCEPT ![r] = [Idle EXCEPT !.pc = "settle", !.reserved = a]]
             /\ used' = used + a
             /\ promise' = NoPromise
          \/ /\ out = "ok" /\ ~ fits(a)
             /\ promise' = [amount |-> a, wait |-> retryAfter(a)]
             /\ UNCHANGED <<req, used>>
          \* The check failed: the request goes ahead unreserved.
          \/ /\ out # "ok"
             /\ promise' = NoPromise
             /\ UNCHANGED <<req, used>>
  /\ UNCHANGED <<ticks, forgiven>>

\* The request has ended, however it ended: its use is known.
Finish(r) ==
  /\ req[r].pc = "running"
  /\ \E actual \in 0 .. MaxUse :
       req' = [req EXCEPT ![r].pc = "settle", ![r].actual = actual]
  /\ UNCHANGED <<tokens, idle, faults, ticks, used, forgiven, promise>>

\* The deferred Reconcile; nothing to send when the estimate was right.
Reconcile(r) ==
  LET d == req[r].reserved - req[r].actual
  IN  /\ req[r].pc = "settle"
      /\ req' = [req EXCEPT ![r] = Idle]
      /\ used' = used - d
      /\ promise' = NoPromise
      /\ \/ d = 0 /\ UNCHANGED <<tokens, idle, faults>>
         \/ /\ d # 0
            /\ \E out \in Outcomes : RunScript(out, settledBalance(d))
      /\ UNCHANGED <<ticks, forgiven>>

\* What the balance would lack of a full bucket when its key expires.
owed == Capacity - full(tokens + TTL * Refill)

\* Time passes, and at TTL the key expires.
Tick ==
  /\ ticks < MaxTicks
  /\ ticks' = ticks + 1
  /\ idle' = IF idle < TTL THEN idle + 1 ELSE TTL
  /\ forgiven' = IF idle + 1 = TTL THEN forgiven + owed ELSE forgiven
  /\ promise' = IF promise.wait > 0 THEN [promise EXCEPT !.wait = @ - 1] ELSE promise
  /\ UNCHANGED <<tokens, req, faults, used>>

BucketNext ==
  \/ \E r \in Requests : \/ \E a \in Amounts : Reserve(r, a)
                         \/ Finish(r) \/ Reconcile(r)
  \/ Tick

BucketSpec == BucketInit /\ [][BucketNext]_bucketVars

-----------------------------------------------------------------------------
\* A request that has something to settle has reserved something.
Reservations == \A r \in Requests : req[r].pc # "idle" => req[r].reserved \in Amounts

\* "Refill is lazy: nothing ticks in the background": the stored balance, its
\* age and the key's expiry are together a bucket that refills continuously,
\* except that a key last written with more than a bucket of debt expires
\* before it has refilled and the rest of the debt is forgotten, which is not
\* what settleScript ("makes the team wait out the deficit") and bucketTTL
\* ("never evicted mid-refill") say.
Settlements == {a - u : a \in Amounts, u \in 0 .. MaxUse}
sunk == idle < TTL /\ tokens < - Capacity
Continuous == INSTANCE ContinuousBucket WITH level <- refilled, deep <- sunk
ImplementsContinuousBucket == Continuous!Spec

\* The limit means something: what reserved requests hold or have used never
\* exceeds a full bucket plus what has accrued, plus to the token what was
\* still owed by keys that expired, whatever the order of reservations and
\* settlements, with the bucket's own caps in between and however deep an
\* overrun takes the balance (settleScript: "There is no floor").  (A lost
\* settlement of an overrun is not charged.)
UsageIsLimited ==
  faults = MaxFaults => refilled + used <= Capacity + ticks * Refill + forgiven

\* bucket.go, Result.RetryAfter: "how long the caller should wait before the
\* bucket would hold enough tokens for this same request to succeed".  After
\* that time, nobody else having come, the bucket holds them, or it is full: a
\* request larger than a full bucket is told to wait although no wait helps.
RetryAfterIsEnough ==
  promise.amount > 0 /\ promise.wait = 0 => refilled >= full(promise.amount)
=============================================================================
