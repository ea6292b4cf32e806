------------------------------- MODULE Budget -------------------------------
(***************************************************************************)
(* A team's monthly spend counter in Redis (internal/budget/tracker.go)    *)
(* and the requests of that team that reserve, top up and settle against   *)
(* it concurrently (proxy/handler.go ChatCompletions, proxy/budget.go).    *)
(*                                                                         *)
(* Each Redis command is one step.  A command may fail MaxFaults times in  *)
(* a behaviour: "lost" never reached Redis, "late" took effect but the     *)
(* request saw only its timeout (checkTimeout, reconcileTimeout).          *)
(*                                                                         *)
(* Price[m] is the ceiling Cost gives model m for one request.  Its input  *)
(* part is an estimate (estimateInputTokens, four bytes a token), so a     *)
(* served request may cost up to MaxOverrun more.                          *)
(***************************************************************************)
EXTENDS Integers, Sequences, FiniteSets

CONSTANTS
  Requests,      \* requests of the team that may be in flight at once
  Models,        \* the models of their tier
  NoModel,       \* stands for "no model"
  Price,         \* Price[m]: estimated ceiling of one request on m
  MaxOverrun,    \* how much more a call may cost than its estimate
  Cap,           \* MonthlyBudgetMicros
  Periods,       \* calendar months of a behaviour
  MaxFaults,     \* Redis commands that fail in a behaviour
  MaxResets      \* operator resets in a behaviour

ASSUME BudgetAssumption ==
  /\ IsFiniteSet(Requests) /\ Models # {} /\ NoModel \notin Models
  /\ Price \in [Models -> Nat] /\ MaxOverrun \in Nat
  /\ Cap \in Nat \ {0}          \* Reserve refuses a cap that is not positive
  /\ Periods \in Nat \ {0}
  /\ MaxFaults \in Nat /\ MaxResets \in Nat

Months == 1 .. Periods

VARIABLES
  spent,      \* spent[p]: the counter of period p; an absent key counts 0
  month,      \* currentPeriod
  req,        \* req[r]: where request r is, and the reservations it holds
  faults,     \* Redis failures left
  resets,     \* operator resets left
  billed,     \* history: what the providers charged, by the base reservation's period
  forgiven,   \* history: what operator resets wiped off a period's counter
  pending,    \* history: what served, unsettled calls cost above what they held
  excess,     \* history: pending at the period's last reservation, and what came since
  lost        \* history: what lost settlements should have added to a counter

overruns == <<pending, excess, lost>>
vars == <<spent, month, req, faults, resets, billed, forgiven, overruns>>

Steps == {"idle", "chain", "calling", "settle", "settleExtra", "done"}
Reservation == [period : Months, reserved : Nat]

\* requested and model: the model asked for and the candidate being called;
\* tried: candidates the chain is past; base and extra: the reservations; cover
\* is history: what is reserved for the call in the base's period.
RequestType ==
  [pc : Steps, requested : Models \cup {NoModel}, model : Models \cup {NoModel},
   tried : SUBSET Models, base : Reservation, extra : Seq(Reservation),
   cost : Nat, cover : Nat]

NoReservation == [period |-> 1, reserved |-> 0]
Idle == [pc |-> "idle", requested |-> NoModel, model |-> NoModel, tried |-> {},
         base |-> NoReservation, extra |-> <<>>, cost |-> 0, cover |-> 0]
Done == [Idle EXCEPT !.pc = "done"]
Settled(r) == req[r].pc \in {"idle", "done"}

TypeOK ==
  /\ spent \in [Months -> Int]
  /\ month \in Months
  /\ req \in [Requests -> RequestType]
  /\ faults \in 0 .. MaxFaults
  /\ resets \in 0 .. MaxResets
  /\ billed \in [Months -> Nat]
  /\ forgiven \in [Months -> Int]
  /\ pending \in [Months -> Int]
  /\ excess \in [Months -> Int]
  /\ lost \in [Months -> Nat]

Init ==
  /\ spent = [p \in Months |-> 0]
  /\ month = 1
  /\ req = [r \in Requests |-> Idle]
  /\ faults = MaxFaults
  /\ resets = MaxResets
  /\ billed = [p \in Months |-> 0]
  /\ forgiven = [p \in Months |-> 0]
  /\ pending = [p \in Months |-> 0]
  /\ excess = [p \in Months |-> 0]
  /\ lost = [p \in Months |-> 0]

-----------------------------------------------------------------------------
Outcomes == {"ok"} \cup (IF faults > 0 THEN {"lost", "late"} ELSE {})
Command(out, effect) ==
  /\ spent' = IF out = "lost" THEN spent ELSE effect
  /\ faults' = IF out = "ok" THEN faults ELSE faults - 1

\* Mutant of fits: the balance is compared without the amount.
fitsBefore(amount) == spent[month] < Cap

\* reserveScript: increment, and roll back in the same script what does not fit.
fits(amount) == spent[month] + amount <= Cap
reserveScript(amount) ==
  IF fits(amount) THEN [spent EXCEPT ![month] = @ + amount] ELSE spent

\* History: a reservation that was let in has seen every settled overrun.
Seen(in) ==
  /\ excess' = IF in THEN [excess EXCEPT ![month] = pending[month]] ELSE excess
  /\ UNCHANGED <<pending, lost>>

\* Mutant of reconciled: the settlement lands in the current period.
reconciledNow(reservation, actual) ==
  [spent EXCEPT ![month] = @ + actual - reservation.reserved]

\* Reservation.Reconcile: one INCRBY on the period that was reserved.
reconciled(reservation, actual) ==
  [spent EXCEPT ![reservation.period] = @ + actual - reservation.reserved]

-----------------------------------------------------------------------------
\* reserveBudget: fails closed, and a denial or an error ends the request.
ReserveBudget(r, m) ==
  /\ req[r].pc = "idle"
  /\ \E out \in Outcomes :
       /\ Command(out, reserveScript(Price[m]))
       /\ req' = IF out = "ok" /\ fits(Price[m])
                 THEN [req EXCEPT ![r] = [Idle EXCEPT
                         !.pc = "chain", !.requested = m,
                         !.base = [period |-> month, reserved |-> Price[m]]]]
                 ELSE [req EXCEPT ![r] = Done]
       /\ Seen(out = "ok" /\ fits(Price[m]))
  /\ UNCHANGED <<month, resets, billed, forgiven>>

\* What chainBudget.admit has to reserve before candidate m may be called.
delta(r, m) == IF m = req[r].requested THEN 0 ELSE Price[m] - req[r].base.reserved

\* admit without a second check: the requested model, or one no costlier.
AdmitCovered(r, m) ==
  /\ req[r].pc = "chain"
  /\ m \notin req[r].tried
  /\ delta(r, m) <= 0
  /\ req' = [req EXCEPT ![r].pc = "calling", ![r].model = m, ![r].tried = @ \cup {m},
                        ![r].cover = req[r].base.reserved]
  /\ UNCHANGED <<spent, month, faults, resets, billed, forgiven, overruns>>

\* Mutant of AdmitTopUp: the verdict on the top-up is not looked at.
AdmitTopUpUnread(r, m) ==
  /\ req[r].pc = "chain"
  /\ m \notin req[r].tried
  /\ delta(r, m) > 0
  /\ Command("ok", reserveScript(delta(r, m)))
  /\ req' = [req EXCEPT ![r].pc = "calling", ![r].model = m, ![r].tried = @ \cup {m}]
  /\ UNCHANGED <<month, resets, billed, forgiven, overruns>>

\* admit of a costlier candidate: the difference is reserved on top; a denial
\* or an error skips the candidate.
AdmitTopUp(r, m) ==
  /\ req[r].pc = "chain"
  /\ m \notin req[r].tried
  /\ delta(r, m) > 0
  /\ \E out \in Outcomes :
       /\ Command(out, reserveScript(delta(r, m)))
       /\ req' = IF out = "ok" /\ fits(delta(r, m))
                 THEN [req EXCEPT ![r].pc = "calling", ![r].model = m,
                                  ![r].tried = @ \cup {m},
                                  ![r].extra = Append(@, [period |-> month,
                                                          reserved |-> delta(r, m)]),
                                  ![r].cover = IF month = req[r].base.period
                                               THEN Price[m] ELSE req[r].base.reserved]
                 ELSE [req EXCEPT ![r].tried = @ \cup {m}]
       /\ Seen(out = "ok" /\ fits(delta(r, m)))
  /\ UNCHANGED <<month, resets, billed, forgiven>>

\* The candidate failed after its retries: the walk goes on.
CandidateFails(r) ==
  /\ req[r].pc = "calling"
  /\ req' = [req EXCEPT ![r].pc = "chain", ![r].model = NoModel]
  /\ UNCHANGED <<spent, month, faults, resets, billed, forgiven, overruns>>

\* What r's call cost above what was reserved for it in the base's period.
above(r, cost) == IF cost > req[r].cover THEN cost - req[r].cover ELSE 0

\* The candidate answered: recordCost prices its usage.
CandidateServes(r) ==
  LET p == req[r].base.period
  IN  /\ req[r].pc = "calling"
      /\ \E cost \in 0 .. Price[req[r].model] + MaxOverrun :
           /\ req' = [req EXCEPT ![r].pc = "settle", ![r].cost = cost]
           /\ billed' = [billed EXCEPT ![p] = @ + cost]
           /\ pending' = [pending EXCEPT ![p] = @ + above(r, cost)]
           /\ excess' = [excess EXCEPT ![p] = @ + above(r, cost)]
      /\ UNCHANGED <<spent, month, faults, resets, forgiven, lost>>

\* The chain is exhausted, or the walk stopped early.
ChainFails(r) ==
  /\ req[r].pc = "chain"
  /\ req' = [req EXCEPT ![r].pc = "settle"]
  /\ UNCHANGED <<spent, month, faults, resets, billed, forgiven, overruns>>

\* The deferred settlement: the base reservation takes the whole real cost ...
SettleBase(r) ==
  /\ req[r].pc = "settle"
  /\ \E out \in Outcomes :
       /\ Command(out, reconciled(req[r].base, req[r].cost))
       /\ lost' = IF out = "lost" /\ req[r].cost > req[r].base.reserved
                  THEN [lost EXCEPT ![req[r].base.period] =
                          @ + (req[r].cost - req[r].base.reserved)]
                  ELSE lost
  /\ pending' = [pending EXCEPT ![req[r].base.period] = @ - above(r, req[r].cost)]
  /\ req' = IF req[r].extra = <<>> THEN [req EXCEPT ![r] = Done]
            ELSE [req EXCEPT ![r].pc = "settleExtra"]
  /\ UNCHANGED <<month, resets, billed, forgiven, excess>>

\* ... and reconcileExtras gives every top-up back.
SettleExtra(r) ==
  /\ req[r].pc = "settleExtra"
  /\ \E out \in Outcomes : Command(out, reconciled(Head(req[r].extra), 0))
  /\ req' = IF Len(req[r].extra) = 1 THEN [req EXCEPT ![r] = Done]
            ELSE [req EXCEPT ![r].extra = Tail(@)]
  /\ UNCHANGED <<month, resets, billed, forgiven, overruns>>

\* Tracker.Reset, the admin API's manual reset: the period's key is deleted.
Reset ==
  /\ resets > 0
  /\ resets' = resets - 1
  /\ spent' = [spent EXCEPT ![month] = 0]
  /\ forgiven' = [forgiven EXCEPT ![month] = @ + spent[month]]
  /\ UNCHANGED <<month, req, faults, billed, overruns>>

NextPeriod ==
  /\ month < Periods
  /\ month' = month + 1
  /\ UNCHANGED <<spent, req, faults, resets, billed, forgiven, overruns>>

Next ==
  \/ \E r \in Requests :
       \/ \E m \in Models : ReserveBudget(r, m) \/ AdmitCovered(r, m) \/ AdmitTopUp(r, m)
       \/ CandidateFails(r) \/ CandidateServes(r) \/ ChainFails(r)
       \/ SettleBase(r) \/ SettleExtra(r)
  \/ Reset
  \/ NextPeriod

Spec == Init /\ [][Next]_vars

-----------------------------------------------------------------------------
\* The base reservation of r pays for amount, alone or with one of the top-ups.
covers(r, amount) ==
  \/ req[r].base.reserved >= amount
  \/ \E k \in DOMAIN req[r].extra : req[r].base.reserved + req[r].extra[k].reserved >= amount

\* admit's promise: no candidate is called for more than the request holds.
CallsAreCovered ==
  \A r \in Requests : req[r].pc = "calling" => covers(r, Price[req[r].model])

\* "which nets out to exactly the actual spend" (chainBudget): with every
\* Redis command answered, the counters of a team with nothing in flight are
\* what the providers charged less what resets forgave, each in the period of
\* its request, whichever months its reservations were taken and settled in.
SettledExactly ==
  (\A r \in Requests : Settled(r)) /\ faults = MaxFaults
    => \A p \in Months : spent[p] = billed[p] - forgiven[p]

\* The point of it all, and what failing closed buys: what a team is charged in
\* a month, less what resets forgave, exceeds its cap by no more than the calls
\* did that cost more than was reserved for them (an estimate too low, or a
\* top-up taken from the next month's counter) and were unsettled at the month's
\* last reservation or came after it, and what lost settlements never told the
\* counter, whichever Redis commands fail: an overrun that was settled is
\* charged against the requests that follow.
CapHolds ==
  \A p \in Months : billed[p] - forgiven[p] <= Cap + excess[p] + lost[p]
=============================================================================
