----------------------------- MODULE BudgetProofs -----------------------------
(***************************************************************************)
(* Budget for any number of requests, models, prices, months, failing      *)
(* Redis commands and resets.                                              *)
(*                                                                         *)
(* The counter of a month is compared with a sum over all the requests in  *)
(* flight.  A sum is stated by what it is, a function on the subsets that  *)
(* grows by f[x] with every x, and never computed: the invariant says that *)
(* there is such a function, and every step yields the next one.           *)
(***************************************************************************)
EXTENDS Budget, FiniteSetTheorems, WellFoundedInduction, NaturalsInduction, TLAPS

SumsTo(f, v) ==
  \E g \in [SUBSET Requests -> Int] :
    /\ g[{}] = 0
    /\ \A T \in SUBSET Requests, x \in Requests : x \notin T => g[T \cup {x}] = g[T] + f[x]
    /\ g[Requests] = v

\* x is what the reservations in s hold of period p; the partial sums never shrink.
worth(reservation, p) == IF reservation.period = p THEN reservation.reserved ELSE 0
HoldsOf(s, p, x) ==
  \E g \in [0 .. Len(s) -> Nat] :
    /\ g[0] = 0
    /\ \A k \in 1 .. Len(s) : g[k] = g[k - 1] + worth(s[k], p)
    /\ \A k \in 0 .. Len(s) : \A j \in 0 .. k : g[j] <= g[k]
    /\ g[Len(s)] = x

-----------------------------------------------------------------------------
LEMMA Constants ==
  /\ IsFiniteSet(Requests) /\ NoModel \notin Models /\ Price \in [Models -> Nat] /\ Cap \in Nat /\ MaxOverrun \in Nat
  /\ Periods \in Nat \ {0} /\ MaxFaults \in Nat /\ MaxResets \in Nat /\ Months \subseteq Nat /\ 1 \in Months
BY BudgetAssumption DEF Months

LEMMA HasLeast ==
  ASSUME NEW S \in SUBSET Nat, S # {}
  PROVE  \E x \in S : \A y \in S : x <= y
<1>1. IsWellFoundedOn(OpToRel(<, Nat), Nat)
  BY NatLessThanWellFounded
<1>2. PICK x \in S : \A y \in S : ~ (<<y, x>> \in OpToRel(<, Nat))
  BY <1>1, WFMin
<1>3. \A y \in S : ~ (y < x)
  BY <1>2 DEF OpToRel
<1> QED  BY <1>3

\* One of the summands changes.
LEMMA SumChanges ==
  ASSUME NEW f \in [Requests -> Int], NEW v \in Int, SumsTo(f, v), NEW r \in Requests, NEW w \in Int
  PROVE  SumsTo([f EXCEPT ![r] = w], v + w - f[r])
<1>1. PICK g \in [SUBSET Requests -> Int] :
        /\ g[{}] = 0
        /\ \A T \in SUBSET Requests, x \in Requests : x \notin T => g[T \cup {x}] = g[T] + f[x]
        /\ g[Requests] = v
  BY DEF SumsTo
<1> DEFINE more(T) == IF r \in T THEN w - f[r] ELSE 0
           h == [T \in SUBSET Requests |-> g[T] + more(T)]
           f2 == [f EXCEPT ![r] = w]
<1>2. f[r] \in Int /\ \A T : more(T) \in Int
  OBVIOUS
<1>3. h \in [SUBSET Requests -> Int]
  BY <1>1, <1>2
<1>4. h[{}] = 0 /\ h[Requests] = v + w - f[r]
  BY <1>1, <1>2
<1>5. ASSUME NEW T \in SUBSET Requests, NEW x \in Requests, x \notin T
      PROVE  h[T \cup {x}] = h[T] + f2[x]
  <2>1. /\ h[T \cup {x}] = g[T \cup {x}] + more(T \cup {x}) /\ h[T] = g[T] + more(T)
        /\ g[T \cup {x}] = g[T] + f[x] /\ g[T] \in Int /\ f[x] \in Int
    BY <1>1, <1>5
  <2>2. CASE x = r
    BY <1>2, <1>5, <2>1, <2>2
  <2>3. CASE x # r
    <3>1. more(T \cup {x}) = more(T) /\ f2[x] = f[x]
      BY <2>3
    <3> QED  BY <1>2, <2>1, <3>1
  <2> QED  BY <2>2, <2>3
<1> HIDE DEF h, f2
<1> QED  BY <1>3, <1>4, <1>5 DEF SumsTo, f2

LEMMA SumOfZeros ==
  SumsTo([r \in Requests |-> 0], 0)
<1> DEFINE h == [T \in SUBSET Requests |-> 0]
<1>1. h \in [SUBSET Requests -> Int] /\ h[{}] = 0 /\ h[Requests] = 0
      /\ \A T \in SUBSET Requests, x \in Requests : x \notin T => h[T \cup {x}] = h[T] + [r \in Requests |-> 0][x]
  OBVIOUS
<1> QED  BY <1>1 DEF SumsTo

\* A sum of what is not negative is not negative: take a smallest set that sums to less.
LEMMA SumIsNatural ==
  ASSUME NEW f \in [Requests -> Int], NEW v \in Int, SumsTo(f, v), \A r \in Requests : f[r] >= 0
  PROVE  v >= 0
<1>1. PICK g \in [SUBSET Requests -> Int] :
        /\ g[{}] = 0
        /\ \A T \in SUBSET Requests, x \in Requests : x \notin T => g[T \cup {x}] = g[T] + f[x]
        /\ g[Requests] = v
  BY DEF SumsTo
<1> DEFINE Negative == {c \in Nat : \E T \in SUBSET Requests : Cardinality(T) = c /\ g[T] < 0}
<1>2. \A T \in SUBSET Requests : IsFiniteSet(T) /\ Cardinality(T) \in Nat
  BY Constants, FS_Subset, FS_CardinalityType
<1>3. ASSUME v < 0  PROVE FALSE
  <2>1. Negative # {}
    BY <1>1, <1>2, <1>3
  <2>2. PICK c \in Negative : \A d \in Negative : c <= d
    BY <2>1, HasLeast
  <2>3. PICK T \in SUBSET Requests : Cardinality(T) = c /\ g[T] < 0
    BY <2>2
  <2>4. T # {}
    <3>1. ASSUME T = {}  PROVE g[T] = 0
      BY <1>1, <3>1, Zenon
    <3> QED  BY <2>3, <3>1
  <2>5. PICK x : x \in T
    BY <2>4
  <2> DEFINE U == T \ {x}
  <2>6. U \in SUBSET Requests /\ x \in Requests /\ x \notin U /\ T = U \cup {x}
    BY <2>5
  <2>7. Cardinality(U) = Cardinality(T) - 1
    BY <1>2, <2>5, FS_RemoveElement
  <2> HIDE DEF U
  <2>8. g[T] = g[U] + f[x] /\ g[U] \in Int /\ f[x] \in Int /\ f[x] >= 0 /\ g[T] \in Int
    BY <1>1, <2>6
  <2>9. g[U] < 0
    BY <2>3, <2>8
  <2>10. Cardinality(U) \in Negative
    BY <1>2, <2>6, <2>9
  <2> QED  BY <1>2, <2>2, <2>3, <2>7, <2>10
<1> QED  BY <1>3

LEMMA SumIsZero ==
  ASSUME NEW f \in [Requests -> Int], NEW v \in Int, SumsTo(f, v), \A r \in Requests : f[r] = 0
  PROVE  v = 0
<1>1. PICK g \in [SUBSET Requests -> Int] :
        /\ g[{}] = 0
        /\ \A T \in SUBSET Requests, x \in Requests : x \notin T => g[T \cup {x}] = g[T] + f[x]
        /\ g[Requests] = v
  BY DEF SumsTo
<1> DEFINE h == [T \in SUBSET Requests |-> 0 - g[T]]
<1>2. h \in [SUBSET Requests -> Int] /\ h[{}] = 0 /\ h[Requests] = 0 - v
  BY <1>1
<1>3. \A T \in SUBSET Requests, x \in Requests : x \notin T => h[T \cup {x}] = h[T] + f[x]
  BY <1>1
<1> HIDE DEF h
<1>4. SumsTo(f, 0 - v)
  BY <1>2, <1>3 DEF SumsTo
<1>5. v >= 0 /\ 0 - v >= 0
  BY <1>4, SumIsNatural
<1> QED  BY <1>5

-----------------------------------------------------------------------------
(* What a request's top-ups hold of a period.                              *)

LEMMA HoldsNothing ==
  ASSUME NEW p PROVE HoldsOf(<<>>, p, 0)
<1> DEFINE g == [k \in 0 .. 0 |-> 0]
<1>1. Len(<<>>) = 0
  OBVIOUS
<1>2. g \in [0 .. 0 -> Nat] /\ g[0] = 0 /\ \A k \in 0 .. 0 : \A j \in 0 .. k : g[j] <= g[k]
  OBVIOUS
<1> HIDE DEF g
<1> QED  BY <1>1, <1>2 DEF HoldsOf

LEMMA HoldsIsNatural ==
  ASSUME NEW s \in Seq(Reservation), NEW p, NEW x, HoldsOf(s, p, x)
  PROVE  x \in Nat /\ (s = <<>> => x = 0)
<1>1. PICK g \in [0 .. Len(s) -> Nat] : g[0] = 0 /\ g[Len(s)] = x
  BY DEF HoldsOf
<1>2. Len(s) \in 0 .. Len(s) /\ (s = <<>> => Len(s) = 0)
  OBVIOUS
<1> QED  BY <1>1, <1>2

LEMMA WorthType ==
  ASSUME NEW e \in Reservation, NEW p
  PROVE  worth(e, p) \in Nat
BY DEF worth, Reservation

LEMMA HoldsMore ==
  ASSUME NEW s \in Seq(Reservation), NEW p, NEW x, HoldsOf(s, p, x), NEW e \in Reservation
  PROVE  HoldsOf(Append(s, e), p, x + worth(e, p))
<1>1. PICK g \in [0 .. Len(s) -> Nat] :
        /\ g[0] = 0
        /\ \A k \in 1 .. Len(s) : g[k] = g[k - 1] + worth(s[k], p)
        /\ \A k \in 0 .. Len(s) : \A j \in 0 .. k : g[j] <= g[k]
        /\ g[Len(s)] = x
  BY DEF HoldsOf
<1> DEFINE t == Append(s, e)
           l == Len(s)
           w == worth(e, p)
           h == [k \in 0 .. l + 1 |-> IF k = l + 1 THEN x + w ELSE g[k]]
<1>2. l \in Nat /\ Len(t) = l + 1 /\ t[l + 1] = e /\ (\A k \in 1 .. l : t[k] = s[k])
  OBVIOUS
<1>3. w \in Nat /\ x \in Nat
  BY <1>1, <1>2, WorthType, HoldsIsNatural
<1> HIDE DEF t, l, w
<1>4. h \in [0 .. l + 1 -> Nat] /\ h[l + 1] = x + w /\ (\A k \in 0 .. l : h[k] = g[k])
  BY <1>1, <1>2, <1>3 DEF l
<1>5. h[0] = 0
  BY <1>1, <1>2, <1>4
<1> HIDE DEF h
<1>6. ASSUME NEW k \in 1 .. l + 1  PROVE h[k] = h[k - 1] + worth(t[k], p)
  <2>1. CASE k = l + 1
    BY <1>1, <1>2, <1>4, <2>1 DEF w, l
  <2>2. CASE k \in 1 .. l
    BY <1>1, <1>2, <1>4, <2>2 DEF l
  <2> QED  BY <1>2, <2>1, <2>2
<1>7. ASSUME NEW k \in 0 .. l + 1, NEW j \in 0 .. k  PROVE h[j] <= h[k]
  <2>1. CASE k = l + 1 /\ j \in 0 .. l
    <3>1. g[j] <= x /\ g[j] \in Nat
      BY <1>1, <1>2, <2>1 DEF l
    <3> QED  BY <1>2, <1>3, <1>4, <2>1, <3>1
  <2>2. CASE k = l + 1 /\ j = l + 1
    BY <1>2, <1>3, <1>4, <2>2
  <2>3. CASE k \in 0 .. l
    <3>1. j \in 0 .. l
      BY <1>2, <2>3
    <3> QED  BY <1>1, <1>4, <2>3, <3>1 DEF l
  <2> QED  BY <1>2, <2>1, <2>2, <2>3
<1> QED  BY <1>2, <1>4, <1>5, <1>6, <1>7 DEF HoldsOf, t, w

LEMMA HoldsLess ==
  ASSUME NEW s \in Seq(Reservation), s # <<>>, NEW p, NEW x, HoldsOf(s, p, x)
  PROVE  HoldsOf(Tail(s), p, x - worth(Head(s), p)) /\ x - worth(Head(s), p) \in Nat
<1>1. PICK g \in [0 .. Len(s) -> Nat] :
        /\ g[0] = 0
        /\ \A k \in 1 .. Len(s) : g[k] = g[k - 1] + worth(s[k], p)
        /\ \A k \in 0 .. Len(s) : \A j \in 0 .. k : g[j] <= g[k]
        /\ g[Len(s)] = x
  BY DEF HoldsOf
<1> DEFINE t == Tail(s)
           l == Len(s) - 1
           w == worth(Head(s), p)
           h == [k \in 0 .. l |-> g[k + 1] - w]
<1>2. l \in Nat /\ Len(s) = l + 1 /\ Len(t) = l /\ Head(s) = s[1] /\ (\A k \in 1 .. l : t[k] = s[k + 1])
  OBVIOUS
<1>3. w \in Nat
  BY WorthType
<1> HIDE DEF t, l
<1>4. g[1] = w
  BY <1>1, <1>2, <1>3
<1> HIDE DEF w
<1>5. \A k \in 0 .. l : k + 1 \in 0 .. Len(s) /\ g[k + 1] \in Nat /\ w <= g[k + 1]
  BY <1>1, <1>2, <1>4
<1>6. h \in [0 .. l -> Nat] /\ (\A k \in 0 .. l : h[k] = g[k + 1] - w)
  BY <1>3, <1>5
<1> HIDE DEF h
<1>7. h[0] = 0 /\ h[l] = x - w
  BY <1>1, <1>2, <1>3, <1>4, <1>6
<1>8. ASSUME NEW k \in 1 .. l  PROVE h[k] = h[k - 1] + worth(t[k], p)
  <2>1. h[k] = g[k + 1] - w /\ h[k - 1] = g[k] - w
    BY <1>2, <1>6
  <2>2. g[k + 1] = g[k] + worth(s[k + 1], p) /\ g[k] \in Nat /\ g[k + 1] \in Nat
    BY <1>1, <1>2
  <2>3. worth(s[k + 1], p) \in Nat /\ t[k] = s[k + 1]
    BY <1>2, WorthType
  <2> QED  BY <1>3, <2>1, <2>2, <2>3
<1>9. ASSUME NEW k \in 0 .. l, NEW j \in 0 .. k  PROVE h[j] <= h[k]
  <2>1. g[j + 1] <= g[k + 1]
    BY <1>1, <1>2
  <2>2. j \in 0 .. l
    BY <1>2
  <2> QED  BY <1>3, <1>5, <1>6, <2>1, <2>2
<1>10. x - w \in Nat
  BY <1>2, <1>6, <1>7
<1> QED  BY <1>2, <1>6, <1>7, <1>8, <1>9, <1>10 DEF HoldsOf, t, w

\* Every reservation of the period is part of it.
LEMMA HoldsEach ==
  ASSUME NEW s \in Seq(Reservation), NEW p, NEW x, HoldsOf(s, p, x), NEW k \in DOMAIN s, s[k].period = p
  PROVE  s[k].reserved <= x
<1>1. PICK g \in [0 .. Len(s) -> Nat] :
        /\ \A j \in 1 .. Len(s) : g[j] = g[j - 1] + worth(s[j], p)
        /\ \A l \in 0 .. Len(s) : \A j \in 0 .. l : g[j] <= g[l]
        /\ g[Len(s)] = x
  BY DEF HoldsOf
<1>2. k \in 1 .. Len(s) /\ Len(s) \in Nat /\ s[k] \in Reservation
  OBVIOUS
<1>3. g[k] = g[k - 1] + s[k].reserved /\ g[k - 1] \in Nat /\ g[k] \in Nat /\ g[k] <= x /\ x \in Nat
  BY <1>1, <1>2, SMTT(40) DEF worth
<1>4. s[k].reserved \in Nat
  BY <1>2 DEF Reservation
<1> QED  BY <1>3, <1>4

-----------------------------------------------------------------------------
(* The invariant.  hold is what a request still stands for in period p when *)
(* its top-ups hold x of it, over what its call cost above that, back what  *)
(* it has yet to give back.                                                 *)

Active == {"chain", "calling", "settle"}
charge(q) == IF q.cost > q.cover THEN q.cover ELSE q.cost
hold(q, p, x) ==
  IF q.pc \in Active THEN (IF q.base.period = p THEN q.base.reserved - charge(q) ELSE 0) + x ELSE 0
over(q, p) == IF q.pc \in Active /\ q.base.period = p THEN q.cost - charge(q) ELSE 0
back(q, x) == IF q.pc = "settleExtra" THEN x ELSE 0

Accounts(rq, p, ex, h, o, e) ==
  /\ \A r \in Requests : HoldsOf(rq[r].extra, p, ex[r])
  /\ SumsTo([r \in Requests |-> hold(rq[r], p, ex[r])], h)
  /\ SumsTo([r \in Requests |-> over(rq[r], p)], o)
  /\ SumsTo([r \in Requests |-> back(rq[r], ex[r])], e)

\* The counter is what is due, held and to be given back, less the overruns that
\* are not settled: exactly while no command has failed, and never less than that
\* by more than what lost settlements kept from it; due and held together fit the
\* cap and the overruns.
Balanced(counter, due, exact, o, x, l, h, e) ==
  /\ exact => counter = due + h - o + e
  /\ counter >= due - l + h - o + e
  /\ due + h <= Cap + x + l
  /\ o <= x

Kept(p, h, e) ==
  Balanced(spent[p], billed[p] - forgiven[p], faults = MaxFaults, pending[p], excess[p], lost[p], h, e)
KeptNext(p, h, e) ==
  Balanced(spent'[p], billed'[p] - forgiven'[p], faults' = MaxFaults, pending'[p], excess'[p], lost'[p], h, e)

LedgerIsSound ==
  \A p \in Months : \E ex \in [Requests -> Nat], h \in Int, e \in Int :
    Accounts(req, p, ex, h, pending[p], e) /\ Kept(p, h, e)

pays(q, amount) ==
  \/ q.base.reserved >= amount
  \/ \E k \in DOMAIN q.extra : q.base.reserved + q.extra[k].reserved >= amount

\* What counts as reserved for the call is reserved, in the period of the base.
backed(q) ==
  \/ q.base.reserved >= q.cover
  \/ \E k \in DOMAIN q.extra : /\ q.extra[k].period = q.base.period
                               /\ q.base.reserved + q.extra[k].reserved >= q.cover

RequestIsSound(q) ==
  /\ q.pc \in {"idle", "done"} => q.extra = <<>>
  /\ q.pc \in Active => q.requested \in Models /\ q.base.reserved = Price[q.requested] /\ backed(q)
  /\ q.pc \in {"chain", "calling"} => q.cost = 0
  /\ q.pc = "calling" => q.model \in Models /\ pays(q, Price[q.model])
  /\ q.pc = "settleExtra" => q.extra # <<>>

RequestsAreSound == \A r \in Requests : RequestIsSound(req[r])

BudgetInv == TypeOK /\ RequestsAreSound /\ LedgerIsSound

-----------------------------------------------------------------------------
(* One request moves.                                                      *)

LEMMA ChargeType ==
  ASSUME NEW q \in RequestType
  PROVE  /\ charge(q) \in Nat /\ charge(q) <= q.cost /\ charge(q) <= q.cover
         /\ q.cost \in Nat /\ q.cover \in Nat /\ (q.cost = 0 => charge(q) = 0)
<1>1. q.cost \in Nat /\ q.cover \in Nat
  BY DEF RequestType
<1> QED  BY <1>1 DEF charge

LEMMA HoldType ==
  ASSUME NEW q \in RequestType, NEW p, NEW x \in Nat
  PROVE  hold(q, p, x) \in Int /\ back(q, x) \in Nat /\ over(q, p) \in Nat
<1>1. q.base.reserved \in Int
  BY DEF RequestType, Reservation
<1>2. q.cost \in Nat /\ charge(q) \in Nat /\ charge(q) <= q.cost
  BY ChargeType
<1> QED  BY <1>1, <1>2 DEF hold, back, over

LEMMA AccountsMove ==
  ASSUME NEW rq \in [Requests -> RequestType], NEW p, NEW ex \in [Requests -> Nat],
         NEW h \in Int, NEW o \in Int, NEW e \in Int, Accounts(rq, p, ex, h, o, e),
         NEW r \in Requests, NEW q \in RequestType, NEW x \in Nat, HoldsOf(q.extra, p, x)
  PROVE  Accounts([rq EXCEPT ![r] = q], p, [ex EXCEPT ![r] = x],
                  h + hold(q, p, x) - hold(rq[r], p, ex[r]), o + over(q, p) - over(rq[r], p),
                  e + back(q, x) - back(rq[r], ex[r]))
<1> DEFINE rq2 == [rq EXCEPT ![r] = q]
           ex2 == [ex EXCEPT ![r] = x]
           f == [s \in Requests |-> hold(rq[s], p, ex[s])]
           g == [s \in Requests |-> over(rq[s], p)]
           b == [s \in Requests |-> back(rq[s], ex[s])]
           f2 == [s \in Requests |-> hold(rq2[s], p, ex2[s])]
           g2 == [s \in Requests |-> over(rq2[s], p)]
           b2 == [s \in Requests |-> back(rq2[s], ex2[s])]
<1>1. rq2[r] = q /\ ex2[r] = x /\ \A s \in Requests \ {r} : rq2[s] = rq[s] /\ ex2[s] = ex[s]
  OBVIOUS
<1>2. \A s \in Requests : HoldsOf(rq2[s].extra, p, ex2[s])
  BY <1>1 DEF Accounts
<1> HIDE DEF rq2, ex2
<1>3. f \in [Requests -> Int] /\ g \in [Requests -> Int] /\ b \in [Requests -> Int]
  <2>1. \A s \in Requests : rq[s] \in RequestType /\ ex[s] \in Nat
    OBVIOUS
  <2>2. \A s \in Requests : hold(rq[s], p, ex[s]) \in Int /\ over(rq[s], p) \in Nat /\ back(rq[s], ex[s]) \in Nat
    BY <2>1, HoldType
  <2>3. \A n \in Nat : n \in Int
    OBVIOUS
  <2> QED  BY <2>2, <2>3, Zenon
<1>4. /\ f2 = [f EXCEPT ![r] = hold(q, p, x)] /\ g2 = [g EXCEPT ![r] = over(q, p)]
      /\ b2 = [b EXCEPT ![r] = back(q, x)]
  BY <1>1
<1>5. f[r] = hold(rq[r], p, ex[r]) /\ g[r] = over(rq[r], p) /\ b[r] = back(rq[r], ex[r])
  OBVIOUS
<1>6. SumsTo(f, h) /\ SumsTo(g, o) /\ SumsTo(b, e)
  BY DEF Accounts
<1> HIDE DEF f, g, b, f2, g2, b2
<1>7. hold(q, p, x) \in Int /\ over(q, p) \in Int /\ back(q, x) \in Int
  BY HoldType
<1>8. /\ SumsTo(f2, h + hold(q, p, x) - f[r]) /\ SumsTo(g2, o + over(q, p) - g[r])
      /\ SumsTo(b2, e + back(q, x) - b[r])
  BY <1>3, <1>4, <1>6, <1>7, SumChanges
<1> QED  BY <1>2, <1>5, <1>8 DEF Accounts, f2, g2, b2, rq2, ex2

LEMMA NothingOwedBack ==
  ASSUME TypeOK, NEW p, NEW ex \in [Requests -> Nat], NEW h \in Int, NEW o \in Int, NEW e \in Int,
         Accounts(req, p, ex, h, o, e)
  PROVE  e >= 0
<1> DEFINE b == [s \in Requests |-> back(req[s], ex[s])]
<1>1. \A s \in Requests : req[s] \in RequestType /\ ex[s] \in Nat
  BY DEF TypeOK
<1>2. \A s \in Requests : back(req[s], ex[s]) \in Nat
  BY <1>1, HoldType
<1>3. b \in [Requests -> Int] /\ \A s \in Requests : b[s] >= 0
  BY <1>2
<1>4. SumsTo(b, e)
  BY DEF Accounts
<1> HIDE DEF b
<1> QED  BY <1>3, <1>4, SumIsNatural

LEMMA CounterTypes ==
  ASSUME TypeOK, NEW p \in Months
  PROVE  /\ spent[p] \in Int /\ billed[p] \in Nat /\ forgiven[p] \in Int /\ billed[p] - forgiven[p] \in Int
         /\ pending[p] \in Int /\ excess[p] \in Int /\ lost[p] \in Nat
<1>1. /\ spent[p] \in Int /\ billed[p] \in Nat /\ forgiven[p] \in Int
      /\ pending[p] \in Int /\ excess[p] \in Int /\ lost[p] \in Nat
  BY DEF TypeOK
<1> QED  BY <1>1

\* The ledger after a step of request r, from what the step does to r and the counters.
LEMMA LedgerMoves ==
  ASSUME TypeOK, LedgerIsSound, NEW r \in Requests, NEW q \in RequestType, req' = [req EXCEPT ![r] = q],
         \A p \in Months, x \in Nat, h \in Int, e \in Nat :
           HoldsOf(req[r].extra, p, x) /\ Kept(p, h, e)
           => /\ pending'[p] = pending[p] + over(q, p) - over(req[r], p)
              /\ \E y \in Nat :
                   /\ HoldsOf(q.extra, p, y)
                   /\ KeptNext(p, h + hold(q, p, y) - hold(req[r], p, x), e + back(q, y) - back(req[r], x))
  PROVE  LedgerIsSound'
<1> SUFFICES ASSUME NEW p \in Months
             PROVE  \E ex \in [Requests -> Nat], h \in Int, e \in Int :
                      Accounts(req', p, ex, h, pending'[p], e) /\ KeptNext(p, h, e)
  BY DEF LedgerIsSound, Kept, KeptNext
<1>1. PICK ex \in [Requests -> Nat], h \in Int, e \in Int :
        Accounts(req, p, ex, h, pending[p], e) /\ Kept(p, h, e)
  BY DEF LedgerIsSound
<1>2. req \in [Requests -> RequestType] /\ pending[p] \in Int
  BY CounterTypes DEF TypeOK
<1>3. e >= 0
  BY <1>1, <1>2, NothingOwedBack
<1>4. HoldsOf(req[r].extra, p, ex[r]) /\ ex[r] \in Nat /\ e \in Nat
  BY <1>1, <1>3 DEF Accounts
<1>5. /\ pending'[p] = pending[p] + over(q, p) - over(req[r], p)
      /\ \E y \in Nat :
           /\ HoldsOf(q.extra, p, y)
           /\ KeptNext(p, h + hold(q, p, y) - hold(req[r], p, ex[r]), e + back(q, y) - back(req[r], ex[r]))
  BY <1>1, <1>4
<1>6. PICK y \in Nat :
        /\ HoldsOf(q.extra, p, y)
        /\ KeptNext(p, h + hold(q, p, y) - hold(req[r], p, ex[r]), e + back(q, y) - back(req[r], ex[r]))
  BY <1>5
<1> DEFINE h2 == h + hold(q, p, y) - hold(req[r], p, ex[r])
           e2 == e + back(q, y) - back(req[r], ex[r])
           ex2 == [ex EXCEPT ![r] = y]
<1>7. Accounts(req', p, ex2, h2, pending'[p], e2)
  <2>1. Accounts([req EXCEPT ![r] = q], p, [ex EXCEPT ![r] = y], h + hold(q, p, y) - hold(req[r], p, ex[r]),
                 pending[p] + over(q, p) - over(req[r], p), e + back(q, y) - back(req[r], ex[r]))
    BY <1>1, <1>2, <1>6, AccountsMove
  <2> QED  BY <1>5, <2>1, Zenon
<1>8. h2 \in Int /\ e2 \in Int /\ ex2 \in [Requests -> Nat]
  <2>1. req[r] \in RequestType
    BY <1>2
  <2>2. hold(q, p, y) \in Int /\ back(q, y) \in Int /\ hold(req[r], p, ex[r]) \in Int /\ back(req[r], ex[r]) \in Int
    BY <1>4, <2>1, HoldType
  <2> QED  BY <1>4, <2>2
<1> HIDE DEF h2, e2, ex2
<1> QED  BY <1>6, <1>7, <1>8 DEF h2, e2

LEMMA Fields ==
  ASSUME TypeOK, NEW r \in Requests
  PROVE  /\ req[r] \in RequestType /\ req[r].pc \in Steps
         /\ req[r].base \in Reservation /\ req[r].base.period \in Months /\ req[r].base.reserved \in Nat
         /\ req[r].base.period \in Int /\ month \in Int
         /\ req[r].extra \in Seq(Reservation) /\ req[r].cost \in Nat /\ req[r].cover \in Nat
         /\ req[r].tried \in SUBSET Models
         /\ req[r].requested \in Models \cup {NoModel} /\ req[r].model \in Models \cup {NoModel}
<1>1. \A p \in Months : p \in Int
  BY Constants
<1> QED  BY <1>1 DEF TypeOK, RequestType, Reservation

LEMMA RequestsMove ==
  ASSUME TypeOK, RequestsAreSound, NEW r \in Requests, NEW q \in RequestType, req' = [req EXCEPT ![r] = q],
         RequestIsSound(q)
  PROVE  RequestsAreSound'
BY DEF RequestsAreSound, TypeOK

LEMMA DoneType ==
  /\ Done \in RequestType /\ Done.pc = "done" /\ Done.extra = <<>>
  /\ \A p : hold(Done, p, 0) = 0 /\ over(Done, p) = 0 /\ back(Done, 0) = 0
  /\ RequestIsSound(Done)
<1>1. Done = [pc |-> "done", requested |-> NoModel, model |-> NoModel, tried |-> {},
              base |-> NoReservation, extra |-> <<>>, cost |-> 0, cover |-> 0]
  BY SMTT(60) DEF Done, Idle
<1>2. Done \in RequestType
  BY <1>1, Constants DEF RequestType, Reservation, NoReservation, Steps
<1> QED  BY <1>1, <1>2 DEF hold, over, back, RequestIsSound, Active

\* What a Redis command does, whether or not it fails.
LEMMA CommandEffect ==
  ASSUME TypeOK, NEW effect \in [Months -> Int], NEW out \in Outcomes, Command(out, effect)
  PROVE  /\ spent' \in [Months -> Int] /\ faults' \in 0 .. MaxFaults
         /\ faults' = MaxFaults => out = "ok" /\ faults = MaxFaults
         /\ spent' = IF out = "lost" THEN spent ELSE effect
         /\ out \in {"ok", "lost", "late"}
<1>1. faults \in 0 .. MaxFaults /\ spent \in [Months -> Int] /\ MaxFaults \in Nat
  BY Constants DEF TypeOK
<1>2. out \in {"ok", "lost", "late"} /\ (out # "ok" => faults > 0)
  BY DEF Outcomes
<1> QED  BY <1>1, <1>2 DEF Command

LEMMA ReserveType ==
  ASSUME TypeOK, NEW amount \in Nat
  PROVE  reserveScript(amount) \in [Months -> Int]
BY Constants DEF TypeOK, reserveScript

LEMMA SeenEffect ==
  ASSUME TypeOK, NEW in \in BOOLEAN, Seen(in)
  PROVE  /\ pending' = pending /\ lost' = lost /\ excess' \in [Months -> Int]
         /\ \A p \in Months : excess'[p] = IF in /\ p = month THEN pending[p] ELSE excess[p]
<1>1. pending \in [Months -> Int] /\ excess \in [Months -> Int] /\ month \in Months
  BY DEF TypeOK
<1> QED  BY <1>1 DEF Seen

\* What a reservation of k, let in or not, does to one period's ledger.
LEMMA Reserved ==
  ASSUME NEW sp \in Int, NEW sp2 \in Int, NEW due \in Int, NEW o \in Int, NEW x \in Int, NEW x2 \in Int,
         NEW l \in Int, NEW h \in Int, NEW e \in Nat, NEW k \in Nat, NEW exact \in BOOLEAN, NEW exact2 \in BOOLEAN,
         Balanced(sp, due, exact, o, x, l, h, e),
         exact2 => exact /\ sp2 = sp + k, sp2 >= sp + k,
         (k = 0 /\ x2 = x) \/ (x2 = o /\ sp + k <= Cap)
  PROVE  Balanced(sp2, due, exact2, o, x2, l, h + k, e)
<1>1. Cap \in Int
  BY Constants
<1>2. /\ sp >= due - l + h - o + e /\ due + h <= Cap + x + l /\ o <= x /\ (exact => sp = due + h - o + e)
  BY DEF Balanced
<1>3. exact2 => sp2 = due + (h + k) - o + e
  <2> SUFFICES ASSUME exact2  PROVE sp2 = due + (h + k) - o + e
    OBVIOUS
  <2>1. sp = due + h - o + e /\ sp2 = sp + k
    BY <1>2
  <2> QED  BY <2>1
<1>4. sp2 >= due - l + (h + k) - o + e
  BY <1>2
<1>5. due + (h + k) <= Cap + x2 + l /\ o <= x2
  BY <1>1, <1>2
<1> QED  BY <1>3, <1>4, <1>5 DEF Balanced

LEMMA NewRequest ==
  ASSUME NEW m \in Models, NEW reservation \in Reservation
  PROVE  LET new == [Idle EXCEPT !.pc = "chain", !.requested = m, !.base = reservation]
         IN  /\ new \in RequestType /\ new.pc = "chain" /\ new.requested = m /\ new.base = reservation
             /\ new.extra = <<>> /\ new.cost = 0 /\ new.cover = 0
<1>1. Idle \in RequestType
  BY Constants DEF Idle, RequestType, Reservation, NoReservation, Steps
<1>2. Idle.extra = <<>> /\ Idle.cost = 0 /\ Idle.cover = 0
  BY DEF Idle
<1> QED  BY <1>1, <1>2 DEF RequestType, Steps

LEMMA ReserveStep ==
  ASSUME BudgetInv, NEW r \in Requests, NEW m \in Models, ReserveBudget(r, m)
  PROVE  BudgetInv'
<1>1. TypeOK /\ RequestsAreSound /\ LedgerIsSound
  BY DEF BudgetInv
<1> DEFINE price == Price[m]
           new == [Idle EXCEPT !.pc = "chain", !.requested = m,
                               !.base = [period |-> month, reserved |-> price]]
<1>2. /\ price \in Nat /\ month \in Months /\ Cap \in Nat
      /\ spent \in [Months -> Int] /\ billed \in [Months -> Nat] /\ forgiven \in [Months -> Int]
  BY <1>1, Constants DEF TypeOK
<1>3. /\ req[r].pc = "idle" /\ req[r].extra = <<>> /\ req[r] \in RequestType
      /\ UNCHANGED <<month, resets, billed, forgiven>>
  BY <1>1, Fields DEF ReserveBudget, RequestsAreSound, RequestIsSound
<1>4. PICK out \in Outcomes :
        /\ Command(out, reserveScript(price))
        /\ req' = IF out = "ok" /\ fits(price) THEN [req EXCEPT ![r] = new] ELSE [req EXCEPT ![r] = Done]
        /\ Seen(out = "ok" /\ fits(price))
  BY DEF ReserveBudget
<1> DEFINE in == out = "ok" /\ fits(price)
<1>5. /\ spent' \in [Months -> Int] /\ faults' \in 0 .. MaxFaults
      /\ faults' = MaxFaults => out = "ok" /\ faults = MaxFaults
      /\ spent' = IF out = "lost" THEN spent ELSE reserveScript(price)
  BY <1>1, <1>2, <1>4, CommandEffect, ReserveType
<1>6. /\ pending' = pending /\ lost' = lost /\ excess' \in [Months -> Int]
      /\ \A p \in Months : excess'[p] = IF in /\ p = month THEN pending[p] ELSE excess[p]
  <2>1. in \in BOOLEAN /\ Seen(in)
    BY <1>4
  <2> HIDE DEF in
  <2> QED  BY <1>1, <2>1, SeenEffect
<1>7. /\ new \in RequestType /\ new.pc = "chain" /\ new.requested = m /\ new.extra = <<>> /\ new.cost = 0
      /\ new.cover = 0 /\ new.base.period = month /\ new.base.reserved = price
  <2>1. [period |-> month, reserved |-> price] \in Reservation
    BY <1>2 DEF Reservation
  <2>2. /\ new \in RequestType /\ new.pc = "chain" /\ new.requested = m /\ new.extra = <<>> /\ new.cost = 0
        /\ new.cover = 0 /\ new.base = [period |-> month, reserved |-> price]
    BY <2>1, NewRequest, ZenonT(40)
  <2> HIDE DEF new
  <2> QED  BY <2>2
<1> HIDE DEF new
<1>8. PICK s \in {new, Done} : req' = [req EXCEPT ![r] = s] /\ (s = new <=> in)
  <2>1. new # Done
    BY <1>7, DoneType
  <2>2. CASE in
    BY <1>4, <2>2
  <2>3. CASE ~ in
    BY <1>4, <2>1, <2>3
  <2> QED  BY <2>2, <2>3
<1>9. s \in RequestType /\ s.extra = <<>>
  BY <1>7, DoneType
<1>10. TypeOK'
  BY <1>1, <1>3, <1>5, <1>6, <1>8, <1>9 DEF TypeOK
<1>11. RequestIsSound(s)
  <2>1. RequestIsSound(new)
    BY <1>2, <1>7 DEF RequestIsSound, Active, backed
  <2> QED  BY <2>1, DoneType
<1>12. RequestsAreSound'
  BY <1>1, <1>8, <1>9, <1>11, RequestsMove
<1>13. ASSUME NEW p \in Months, NEW x \in Nat, NEW h \in Int, NEW e \in Nat, HoldsOf(req[r].extra, p, x), Kept(p, h, e)
       PROVE  /\ pending'[p] = pending[p] + over(s, p) - over(req[r], p)
              /\ \E y \in Nat :
                   /\ HoldsOf(s.extra, p, y)
                   /\ KeptNext(p, h + hold(s, p, y) - hold(req[r], p, x), e + back(s, y) - back(req[r], x))
  <2>1. HoldsOf(s.extra, p, 0)
    BY <1>9, HoldsNothing
  <2>2. charge(new) = 0
    BY <1>7 DEF charge
  <2>3. hold(req[r], p, x) = 0 /\ back(req[r], x) = 0 /\ over(req[r], p) = 0
    BY <1>3 DEF hold, back, over, Active
  <2>4. back(s, 0) = 0 /\ over(s, p) = 0
    BY <1>7, <2>2, DoneType DEF back, over
  <2>5. hold(new, p, 0) = (IF p = month THEN price ELSE 0)
    BY <1>2, <1>7, <2>2 DEF hold, Active
  <2> DEFINE due == billed[p] - forgiven[p]
             sp == spent[p]
             sp2 == spent'[p]
             k == hold(s, p, 0)
  <2>6. /\ due \in Int /\ sp \in Int /\ sp2 \in Int /\ billed'[p] - forgiven'[p] = due
        /\ pending[p] \in Int /\ excess[p] \in Int /\ lost[p] \in Int /\ excess'[p] \in Int
    BY <1>1, <1>3, <1>5, <1>6, CounterTypes
  <2>7. /\ k \in Nat /\ sp2 >= sp + k /\ (out = "ok" => sp2 = sp + k)
        /\ \/ k = 0 /\ excess'[p] = excess[p]
           \/ excess'[p] = pending[p] /\ sp + k <= Cap
    <3>1. CASE s = new
      <4>1. out = "ok" /\ fits(price) /\ in
        BY <1>8, <3>1
      <4>2. sp2 = (IF p = month THEN sp + price ELSE sp) /\ spent[month] + price <= Cap
        BY <1>2, <1>5, <4>1 DEF reserveScript, fits
      <4>3. excess'[p] = IF p = month THEN pending[p] ELSE excess[p]
        BY <1>6, <4>1
      <4>4. k = (IF p = month THEN price ELSE 0)
        BY <2>5, <3>1
      <4> HIDE DEF sp2, price, k
      <4> QED  BY <1>2, <2>6, <4>2, <4>3, <4>4
    <3>2. CASE s # new
      <4>1. k = 0
        BY <3>2, DoneType
      <4>2. ~ in
        BY <1>8, <3>2
      <4>3. sp2 >= sp
        BY <1>2, <1>5 DEF reserveScript
      <4>4. out = "ok" => sp2 = sp
        BY <1>5, <4>2 DEF reserveScript
      <4>5. excess'[p] = excess[p]
        BY <1>6, <4>2
      <4> HIDE DEF sp2, sp, k
      <4> QED  BY <2>6, <4>1, <4>3, <4>4, <4>5
    <3> QED  BY <3>1, <3>2
  <2>8. Balanced(sp, due, faults = MaxFaults, pending[p], excess[p], lost[p], h, e)
    BY <1>13 DEF Kept
  <2>9. (faults = MaxFaults) \in BOOLEAN /\ (faults' = MaxFaults) \in BOOLEAN
        /\ (faults' = MaxFaults => faults = MaxFaults /\ out = "ok")
    BY <1>5
  <2> HIDE DEF due, sp, sp2, k, in
  <2>10. Balanced(sp2, due, faults' = MaxFaults, pending[p], excess'[p], lost[p], h + k, e)
    BY <2>6, <2>7, <2>8, <2>9, Reserved
  <2>11. KeptNext(p, h + k, e)
    BY <1>6, <2>6, <2>10 DEF KeptNext, sp2
  <2>12. h + k = h + hold(s, p, 0) - hold(req[r], p, x) /\ e = e + back(s, 0) - back(req[r], x)
         /\ pending'[p] = pending[p] + over(s, p) - over(req[r], p)
    BY <1>6, <2>3, <2>4, <2>6, <2>7 DEF k
  <2> QED  BY <2>1, <2>11, <2>12
<1>14. LedgerIsSound'
  BY <1>1, <1>8, <1>9, <1>13, LedgerMoves
<1> QED  BY <1>10, <1>12, <1>14 DEF BudgetInv

LEMMA EachReservation ==
  ASSUME NEW s \in Seq(Reservation), NEW k \in DOMAIN s
  PROVE  s[k] \in Reservation /\ s[k].reserved \in Nat /\ s[k].period \in Months
<1>1. s[k] \in Reservation
  OBVIOUS
<1> QED  BY <1>1 DEF Reservation

\* A step that moves a request along without touching money.
LEMMA QuietMove ==
  ASSUME BudgetInv, NEW r \in Requests, NEW q \in RequestType, req' = [req EXCEPT ![r] = q],
         UNCHANGED <<spent, month, faults, resets, billed, forgiven, overruns>>,
         req[r].pc \in Active, q.pc \in Active,
         q.extra = req[r].extra, q.base = req[r].base, q.cost = 0, req[r].cost = 0, RequestIsSound(q)
  PROVE  BudgetInv'
<1>1. TypeOK /\ RequestsAreSound /\ LedgerIsSound
  BY DEF BudgetInv
<1>2. TypeOK' /\ pending' = pending /\ excess' = excess /\ lost' = lost
  BY <1>1 DEF TypeOK, overruns
<1>3. RequestsAreSound'
  BY <1>1, RequestsMove
<1>4. ASSUME NEW p \in Months, NEW x \in Nat, NEW h \in Int, NEW e \in Nat, HoldsOf(req[r].extra, p, x), Kept(p, h, e)
      PROVE  /\ pending'[p] = pending[p] + over(q, p) - over(req[r], p)
             /\ \E y \in Nat :
                  /\ HoldsOf(q.extra, p, y)
                  /\ KeptNext(p, h + hold(q, p, y) - hold(req[r], p, x), e + back(q, y) - back(req[r], x))
  <2>1. charge(q) = 0 /\ charge(req[r]) = 0
    BY <1>1, Fields, ChargeType
  <2>2. hold(q, p, x) = hold(req[r], p, x) /\ hold(req[r], p, x) \in Int
    BY <1>1, <2>1, Fields, HoldType DEF hold
  <2>3. back(q, x) = 0 /\ back(req[r], x) = 0
    BY DEF back, Active
  <2>4. over(q, p) = 0 /\ over(req[r], p) = 0
    BY <2>1 DEF over
  <2>5. /\ h + hold(q, p, x) - hold(req[r], p, x) = h /\ e + back(q, x) - back(req[r], x) = e
        /\ pending'[p] = pending[p] + over(q, p) - over(req[r], p)
    BY <1>1, <1>2, <2>2, <2>3, <2>4, CounterTypes
  <2>6. KeptNext(p, h, e)
    BY <1>2, <1>4 DEF Kept, KeptNext
  <2> QED  BY <1>4, <2>5, <2>6
<1>5. LedgerIsSound'
  BY <1>1, <1>4, LedgerMoves
<1> QED  BY <1>2, <1>3, <1>5 DEF BudgetInv

LEMMA AdmitCoveredStep ==
  ASSUME BudgetInv, NEW r \in Requests, NEW m \in Models, AdmitCovered(r, m)
  PROVE  BudgetInv'
<1> DEFINE q == [req[r] EXCEPT !.pc = "calling", !.model = m, !.tried = @ \cup {m}, !.cover = req[r].base.reserved]
<1>1. /\ TypeOK /\ RequestIsSound(req[r]) /\ req[r] \in RequestType /\ req[r].base.reserved \in Nat
      /\ Price[m] \in Nat
  BY Fields, Constants DEF BudgetInv, RequestsAreSound
<1>2. req[r].pc = "chain" /\ delta(r, m) <= 0 /\ req' = [req EXCEPT ![r] = q]
      /\ UNCHANGED <<spent, month, faults, resets, billed, forgiven, overruns>>
  BY <1>1 DEF AdmitCovered, TypeOK
<1>3. /\ q \in RequestType /\ q.pc = "calling" /\ q.model = m /\ q.extra = req[r].extra /\ q.base = req[r].base
      /\ q.cost = req[r].cost /\ q.requested = req[r].requested /\ q.cover = req[r].base.reserved
  BY <1>1 DEF RequestType, Steps
<1> HIDE DEF q
<1>4. pays(q, Price[m]) /\ backed(q)
  BY <1>1, <1>2, <1>3 DEF pays, backed, delta, RequestIsSound, Active
<1>5. RequestIsSound(q) /\ req[r].cost = 0
  BY <1>1, <1>2, <1>3, <1>4 DEF RequestIsSound, Active
<1> QED  BY <1>2, <1>3, <1>5, QuietMove DEF Active

LEMMA CandidateFailsStep ==
  ASSUME BudgetInv, NEW r \in Requests, CandidateFails(r)
  PROVE  BudgetInv'
<1> DEFINE q == [req[r] EXCEPT !.pc = "chain", !.model = NoModel]
<1>1. TypeOK /\ RequestIsSound(req[r]) /\ req[r] \in RequestType
  BY Fields DEF BudgetInv, RequestsAreSound
<1>2. req[r].pc = "calling" /\ req' = [req EXCEPT ![r] = q]
      /\ UNCHANGED <<spent, month, faults, resets, billed, forgiven, overruns>>
  BY <1>1 DEF CandidateFails, TypeOK
<1>3. /\ q \in RequestType /\ q.pc = "chain" /\ q.extra = req[r].extra /\ q.base = req[r].base
      /\ q.cost = req[r].cost /\ q.requested = req[r].requested /\ q.cover = req[r].cover
  BY <1>1 DEF RequestType, Steps
<1> HIDE DEF q
<1>4. RequestIsSound(q) /\ req[r].cost = 0
  BY <1>1, <1>2, <1>3 DEF RequestIsSound, Active, backed
<1> QED  BY <1>2, <1>3, <1>4, QuietMove DEF Active

LEMMA ChainFailsStep ==
  ASSUME BudgetInv, NEW r \in Requests, ChainFails(r)
  PROVE  BudgetInv'
<1> DEFINE q == [req[r] EXCEPT !.pc = "settle"]
<1>1. TypeOK /\ RequestIsSound(req[r]) /\ req[r] \in RequestType
  BY Fields DEF BudgetInv, RequestsAreSound
<1>2. req[r].pc = "chain" /\ req' = [req EXCEPT ![r] = q]
      /\ UNCHANGED <<spent, month, faults, resets, billed, forgiven, overruns>>
  BY <1>1 DEF ChainFails, TypeOK
<1>3. /\ q \in RequestType /\ q.pc = "settle" /\ q.extra = req[r].extra /\ q.base = req[r].base
      /\ q.cost = req[r].cost /\ q.requested = req[r].requested /\ q.cover = req[r].cover
  BY <1>1 DEF RequestType, Steps
<1> HIDE DEF q
<1>4. RequestIsSound(q) /\ req[r].cost = 0
  BY <1>1, <1>2, <1>3 DEF RequestIsSound, Active, backed
<1> QED  BY <1>2, <1>3, <1>4, QuietMove DEF Active

\* The cost moves from what is held to what is due; what is not held is an overrun.
LEMMA CandidateServesStep ==
  ASSUME BudgetInv, NEW r \in Requests, CandidateServes(r)
  PROVE  BudgetInv'
<1> DEFINE base == req[r].base
<1>1. /\ TypeOK /\ RequestsAreSound /\ LedgerIsSound /\ RequestIsSound(req[r])
      /\ req[r] \in RequestType /\ base.reserved \in Nat /\ base.period \in Months
      /\ req[r].extra \in Seq(Reservation) /\ req[r].cover \in Nat
  BY Fields DEF BudgetInv, RequestsAreSound
<1>2. req[r].pc = "calling" /\ req[r].cost = 0 /\ req[r].model \in Models
      /\ UNCHANGED <<spent, month, faults, resets, forgiven, lost>>
  BY <1>1 DEF CandidateServes, RequestIsSound
<1>3. PICK cost \in 0 .. Price[req[r].model] + MaxOverrun :
        /\ req' = [req EXCEPT ![r].pc = "settle", ![r].cost = cost]
        /\ billed' = [billed EXCEPT ![base.period] = @ + cost]
        /\ pending' = [pending EXCEPT ![base.period] = @ + above(r, cost)]
        /\ excess' = [excess EXCEPT ![base.period] = @ + above(r, cost)]
  BY DEF CandidateServes
<1> DEFINE q == [req[r] EXCEPT !.pc = "settle", !.cost = cost]
           a == above(r, cost)
<1>4. cost \in Nat /\ a \in Nat
  <2>1. Price[req[r].model] + MaxOverrun \in Nat
    BY <1>2, Constants
  <2>2. cost \in Nat
    BY <2>1
  <2> QED  BY <1>1, <2>2 DEF above
<1>5. req' = [req EXCEPT ![r] = q]
  BY <1>1, <1>3 DEF TypeOK
<1>6. /\ q \in RequestType /\ q.pc = "settle" /\ q.extra = req[r].extra /\ q.base = base
      /\ q.cost = cost /\ q.requested = req[r].requested /\ q.cover = req[r].cover
  BY <1>1, <1>4 DEF RequestType, Steps
<1> HIDE DEF q
<1>7. charge(q) = cost - a /\ charge(req[r]) = 0
  BY <1>1, <1>2, <1>4, <1>6 DEF charge, above
<1> HIDE DEF a
<1>8. /\ billed' \in [Months -> Nat] /\ pending' \in [Months -> Int] /\ excess' \in [Months -> Int]
      /\ \A p \in Months :
           /\ billed'[p] = billed[p] + (IF base.period = p THEN cost ELSE 0)
           /\ pending'[p] = pending[p] + (IF base.period = p THEN a ELSE 0)
           /\ excess'[p] = excess[p] + (IF base.period = p THEN a ELSE 0)
  <2>1. billed \in [Months -> Nat] /\ pending \in [Months -> Int] /\ excess \in [Months -> Int]
    BY <1>1 DEF TypeOK
  <2>2. /\ billed' = [billed EXCEPT ![base.period] = @ + cost]
        /\ pending' = [pending EXCEPT ![base.period] = @ + a]
        /\ excess' = [excess EXCEPT ![base.period] = @ + a]
    BY <1>3 DEF a
  <2> HIDE DEF base
  <2>3. base.period \in Months
    BY <1>1 DEF base
  <2>4. billed' \in [Months -> Nat] /\ \A p \in Months : billed'[p] = billed[p] + (IF base.period = p THEN cost ELSE 0)
    BY <1>4, <2>1, <2>2, <2>3
  <2>5. pending' \in [Months -> Int] /\ \A p \in Months : pending'[p] = pending[p] + (IF base.period = p THEN a ELSE 0)
    BY <1>4, <2>1, <2>2, <2>3
  <2>6. excess' \in [Months -> Int] /\ \A p \in Months : excess'[p] = excess[p] + (IF base.period = p THEN a ELSE 0)
    BY <1>4, <2>1, <2>2, <2>3
  <2> QED  BY <2>4, <2>5, <2>6
<1>9. TypeOK'
  BY <1>1, <1>2, <1>5, <1>6, <1>8 DEF TypeOK
<1>10. RequestsAreSound'
  <2>1. RequestIsSound(q)
    BY <1>1, <1>2, <1>6 DEF RequestIsSound, Active, backed
  <2> QED  BY <1>1, <1>5, <1>6, <2>1, RequestsMove
<1>11. ASSUME NEW p \in Months, NEW x \in Nat, NEW h \in Int, NEW e \in Nat, HoldsOf(req[r].extra, p, x), Kept(p, h, e)
       PROVE  /\ pending'[p] = pending[p] + over(q, p) - over(req[r], p)
              /\ \E y \in Nat :
                   /\ HoldsOf(q.extra, p, y)
                   /\ KeptNext(p, h + hold(q, p, y) - hold(req[r], p, x), e + back(q, y) - back(req[r], x))
  <2> DEFINE due == billed[p] - forgiven[p]
             due2 == billed'[p] - forgiven'[p]
             paid == IF base.period = p THEN cost ELSE 0
             more == IF base.period = p THEN a ELSE 0
             h2 == h + hold(q, p, x) - hold(req[r], p, x)
             e2 == e + back(q, x) - back(req[r], x)
  <2>1. /\ due \in Int /\ paid \in Nat /\ more \in Nat /\ due2 = due + paid
        /\ pending[p] \in Int /\ excess[p] \in Int /\ lost[p] \in Int /\ spent[p] \in Int /\ Cap \in Int
        /\ pending'[p] = pending[p] + more /\ excess'[p] = excess[p] + more
    <3>1. billed[p] \in Int /\ forgiven[p] \in Int /\ forgiven'[p] = forgiven[p] /\ billed'[p] = billed[p] + paid
      BY <1>1, <1>2, <1>8, CounterTypes
    <3>2. pending[p] \in Int /\ excess[p] \in Int /\ lost[p] \in Int /\ spent[p] \in Int /\ Cap \in Int
      BY <1>1, CounterTypes, Constants
    <3>3. paid \in Nat /\ more \in Nat
      BY <1>4
    <3>4. pending'[p] = pending[p] + more /\ excess'[p] = excess[p] + more
      BY <1>8
    <3> HIDE DEF paid, more
    <3> QED  BY <3>1, <3>2, <3>3, <3>4
  <2>2. h2 = h - (paid - more)
    <3> DEFINE was == IF base.period = p THEN base.reserved ELSE 0
    <3>1. was \in Int
      BY <1>1
    <3>2. hold(req[r], p, x) = was + x
      BY <1>1, <1>2, <1>7 DEF hold, Active
    <3>3. hold(q, p, x) = was - (paid - more) + x
      BY <1>1, <1>4, <1>6, <1>7 DEF hold, Active
    <3> HIDE DEF was, paid, more
    <3> QED  BY <2>1, <3>1, <3>2, <3>3
  <2>3. over(req[r], p) = 0 /\ over(q, p) = more
    BY <1>2, <1>4, <1>6, <1>7 DEF over, Active
  <2>4. e2 = e
    BY <1>2, <1>6 DEF back
  <2>5. Balanced(spent[p], due, faults = MaxFaults, pending[p], excess[p], lost[p], h, e)
    BY <1>11 DEF Kept
  <2> HIDE DEF due, due2, paid, more, h2, e2
  <2>6. /\ faults = MaxFaults => spent[p] = due + h - pending[p] + e
        /\ spent[p] >= due - lost[p] + h - pending[p] + e
        /\ due + h <= Cap + excess[p] + lost[p] /\ pending[p] <= excess[p]
    BY <2>5 DEF Balanced
  <2>7. /\ faults = MaxFaults => spent[p] = due2 + h2 - pending'[p] + e2
        /\ spent[p] >= due2 - lost[p] + h2 - pending'[p] + e2
        /\ due2 + h2 <= Cap + excess'[p] + lost[p] /\ pending'[p] <= excess'[p]
    BY <2>1, <2>2, <2>4, <2>6
  <2>8. KeptNext(p, h2, e2)
    BY <1>2, <2>7 DEF KeptNext, Balanced, due2
  <2>9. pending'[p] = pending[p] + over(q, p) - over(req[r], p)
    BY <2>1, <2>3
  <2> QED  BY <1>6, <1>11, <2>8, <2>9 DEF h2, e2
<1>12. LedgerIsSound'
  BY <1>1, <1>5, <1>6, <1>11, LedgerMoves
<1> QED  BY <1>9, <1>10, <1>12 DEF BudgetInv

LEMMA DeltaType ==
  ASSUME TypeOK, NEW r \in Requests, NEW m \in Models
  PROVE  delta(r, m) \in Int
<1>1. req[r].base.reserved \in Nat /\ Price[m] \in Nat
  BY Fields, Constants
<1> QED  BY <1>1 DEF delta

LEMMA TopUpTaken ==
  ASSUME BudgetInv, NEW r \in Requests, NEW m \in Models, AdmitTopUp(r, m), fits(delta(r, m)),
         Command("ok", reserveScript(delta(r, m))), Seen(TRUE),
         req' = [req EXCEPT ![r].pc = "calling", ![r].model = m, ![r].tried = @ \cup {m},
                            ![r].extra = Append(@, [period |-> month, reserved |-> delta(r, m)]),
                            ![r].cover = IF month = req[r].base.period THEN Price[m] ELSE req[r].base.reserved]
  PROVE  BudgetInv'
<1> DEFINE d == delta(r, m)
           topUp == [period |-> month, reserved |-> d]
           covered == IF month = req[r].base.period THEN Price[m] ELSE req[r].base.reserved
           q == [req[r] EXCEPT !.pc = "calling", !.model = m, !.tried = @ \cup {m}, !.extra = Append(@, topUp),
                               !.cover = covered]
<1>1. /\ TypeOK /\ RequestsAreSound /\ LedgerIsSound /\ RequestIsSound(req[r])
      /\ req[r] \in RequestType /\ req[r].base.reserved \in Nat /\ req[r].base.period \in Months
      /\ req[r].extra \in Seq(Reservation) /\ month \in Months
      /\ Price[m] \in Nat /\ Cap \in Int
  <2>1. TypeOK /\ RequestsAreSound /\ LedgerIsSound
    BY DEF BudgetInv
  <2>2. RequestIsSound(req[r]) /\ month \in Months
    BY <2>1 DEF RequestsAreSound, TypeOK
  <2>3. Price[m] \in Nat /\ Cap \in Int
    BY Constants
  <2> QED  BY <2>1, <2>2, <2>3, Fields
<1>2. req[r].pc = "chain" /\ d > 0 /\ d \in Int /\ req[r].cost = 0 /\ UNCHANGED <<month, resets, billed, forgiven>>
  BY <1>1, DeltaType DEF AdmitTopUp, RequestIsSound
<1>3. m # req[r].requested /\ d = Price[m] - req[r].base.reserved
  BY <1>2 DEF delta
<1> HIDE DEF d
<1>4. topUp \in Reservation /\ topUp.period = month /\ topUp.reserved = d
  BY <1>1, <1>2 DEF Reservation
<1>5. req' = [req EXCEPT ![r] = q]
  BY <1>1 DEF TypeOK, d
<1> HIDE DEF topUp
<1> DEFINE longer == Append(req[r].extra, topUp)
<1>6. longer \in Seq(Reservation) /\ covered \in Nat
  BY <1>1, <1>4
<1>7. q = [req[r] EXCEPT !.pc = "calling", !.model = m, !.tried = @ \cup {m}, !.extra = longer, !.cover = covered]
  OBVIOUS
<1> HIDE DEF q
<1>8. /\ q \in RequestType /\ q.pc = "calling" /\ q.model = m /\ q.base = req[r].base
      /\ q.cost = req[r].cost /\ q.requested = req[r].requested /\ q.extra = longer /\ q.cover = covered
  <2> HIDE DEF longer, covered
  <2> QED  BY <1>1, <1>6, <1>7 DEF RequestType, Steps
<1>9. /\ spent' \in [Months -> Int] /\ faults' = faults
      /\ spent' = [spent EXCEPT ![month] = @ + d] /\ spent[month] + d <= Cap
  <2>1. faults' = faults /\ spent' = [spent EXCEPT ![month] = @ + d] /\ spent[month] + d <= Cap
    BY DEF Command, reserveScript, fits, d
  <2>2. spent \in [Months -> Int]
    BY <1>1 DEF TypeOK
  <2>3. spent' \in [Months -> Int]
    BY <1>1, <1>2, <2>1, <2>2, SMTT(40)
  <2> QED  BY <2>1, <2>3
<1>s. /\ pending' = pending /\ lost' = lost /\ excess' \in [Months -> Int]
      /\ \A p \in Months : excess'[p] = IF p = month THEN pending[p] ELSE excess[p]
  BY <1>1, SeenEffect
<1>10. TypeOK'
  <2>1. req' \in [Requests -> RequestType]
    BY <1>1, <1>5, <1>8 DEF TypeOK
  <2> QED  BY <1>1, <1>2, <1>9, <1>s, <2>1 DEF TypeOK
<1>11. RequestsAreSound'
  <2>1. /\ DOMAIN q.extra = DOMAIN req[r].extra \cup {Len(req[r].extra) + 1}
        /\ q.extra[Len(req[r].extra) + 1] = topUp
        /\ \A k \in DOMAIN req[r].extra : q.extra[k] = req[r].extra[k]
    BY <1>1, <1>4, <1>8
  <2>2. q.base.reserved + topUp.reserved >= Price[m]
    BY <1>1, <1>2, <1>3, <1>4, <1>8
  <2>3. pays(q, Price[m])
    BY <2>1, <2>2 DEF pays
  <2>4. backed(q)
    <3>1. CASE month = req[r].base.period
      <4>1. q.cover = Price[m] /\ topUp.period = q.base.period
        BY <1>4, <1>8, <3>1
      <4> QED  BY <2>1, <2>2, <4>1 DEF backed
    <3>2. CASE month # req[r].base.period
      BY <1>1, <1>8, <3>2 DEF backed
    <3> QED  BY <3>1, <3>2
  <2>5. RequestIsSound(q)
    BY <1>1, <1>2, <1>8, <2>3, <2>4 DEF RequestIsSound, Active
  <2> QED  BY <1>1, <1>5, <1>8, <2>5, RequestsMove
<1>12. ASSUME NEW p \in Months, NEW x \in Nat, NEW h \in Int, NEW e \in Nat, HoldsOf(req[r].extra, p, x), Kept(p, h, e)
       PROVE  /\ pending'[p] = pending[p] + over(q, p) - over(req[r], p)
              /\ \E y \in Nat :
                   /\ HoldsOf(q.extra, p, y)
                   /\ KeptNext(p, h + hold(q, p, y) - hold(req[r], p, x), e + back(q, y) - back(req[r], x))
  <2> DEFINE w == worth(topUp, p)
             y == x + w
             due == billed[p] - forgiven[p]
             sp == spent[p]
             h2 == h + hold(q, p, y) - hold(req[r], p, x)
             e2 == e + back(q, y) - back(req[r], x)
  <2>1. HoldsOf(q.extra, p, y)
    BY <1>1, <1>4, <1>8, <1>12, HoldsMore
  <2>2. w = IF p = month THEN d ELSE 0
    BY <1>4 DEF worth
  <2>3. /\ w \in Nat /\ due \in Int /\ sp \in Int /\ spent'[p] \in Int /\ spent'[p] = sp + w
        /\ pending[p] \in Int /\ excess[p] \in Int /\ excess'[p] \in Int /\ lost[p] \in Int
        /\ \/ w = 0 /\ excess'[p] = excess[p]
           \/ excess'[p] = pending[p] /\ sp + w <= Cap
    <3>1. due \in Int /\ sp \in Int /\ pending[p] \in Int /\ excess[p] \in Int /\ lost[p] \in Int
      BY <1>1, CounterTypes
    <3>2. spent'[p] = IF p = month THEN sp + d ELSE sp
      BY <1>1, <1>9 DEF TypeOK
    <3>3. p = month => sp + d <= Cap
      BY <1>9
    <3>4. d \in Nat /\ spent'[p] \in Int /\ excess'[p] \in Int
      <4>1. d \in Nat
        BY <1>2
      <4>2. spent'[p] \in Int
        BY <1>9
      <4>3. excess'[p] \in Int
        BY <1>s
      <4> QED  BY <4>1, <4>2, <4>3
    <3>5. excess'[p] = IF p = month THEN pending[p] ELSE excess[p]
      BY <1>s
    <3> HIDE DEF w, due, sp, d
    <3> QED  BY <2>2, <3>1, <3>2, <3>3, <3>4, <3>5
  <2> HIDE DEF w, due, sp
  <2>4. charge(q) = 0 /\ charge(req[r]) = 0
    BY <1>1, <1>2, <1>8, ChargeType
  <2>5. h2 = h + w
    <3> DEFINE was == IF req[r].base.period = p THEN req[r].base.reserved - 0 ELSE 0
    <3>1. was \in Int
      BY <1>1
    <3>2. hold(req[r], p, x) = was + x /\ hold(q, p, y) = was + y
      BY <1>2, <1>8, <2>4 DEF hold, Active
    <3> HIDE DEF was
    <3> QED  BY <2>3, <3>1, <3>2
  <2>6. e2 = e /\ over(q, p) = 0 /\ over(req[r], p) = 0
    BY <1>2, <1>8, <2>4 DEF back, over
  <2> HIDE DEF h2, e2
  <2>7. Balanced(sp, due, faults = MaxFaults, pending[p], excess[p], lost[p], h, e)
    BY <1>12 DEF due, sp, Kept
  <2>8. (faults = MaxFaults) \in BOOLEAN /\ (faults' = MaxFaults) \in BOOLEAN /\ faults' = faults
    BY <1>9
  <2>9. Balanced(spent'[p], due, faults' = MaxFaults, pending[p], excess'[p], lost[p], h + w, e)
    <3>1. faults' = MaxFaults => faults = MaxFaults /\ spent'[p] = sp + w
      BY <2>3, <2>8
    <3>2. spent'[p] >= sp + w
      BY <2>3
    <3>3. (w = 0 /\ excess'[p] = excess[p]) \/ (excess'[p] = pending[p] /\ sp + w <= Cap)
      BY <2>3
    <3> QED  BY <2>3, <2>7, <2>8, <3>1, <3>2, <3>3, Reserved
  <2>10. y \in Nat /\ pending'[p] = pending[p] + over(q, p) - over(req[r], p)
    BY <1>s, <2>3, <2>6
  <2>11. KeptNext(p, h2, e2)
    BY <1>2, <1>s, <2>5, <2>6, <2>9 DEF due, KeptNext
  <2> QED  BY <2>1, <2>10, <2>11 DEF h2, e2
<1>13. LedgerIsSound'
  BY <1>1, <1>5, <1>8, <1>12, LedgerMoves
<1> QED  BY <1>10, <1>11, <1>13 DEF BudgetInv

\* The counter may have moved (the answer came late), and nobody holds what it gained.
LEMMA TopUpRefused ==
  ASSUME BudgetInv, NEW r \in Requests, NEW m \in Models, AdmitTopUp(r, m), Seen(FALSE),
         NEW out \in Outcomes, Command(out, reserveScript(delta(r, m))), ~ (out = "ok" /\ fits(delta(r, m))),
         req' = [req EXCEPT ![r].tried = @ \cup {m}]
  PROVE  BudgetInv'
<1> DEFINE d == delta(r, m)
           q == [req[r] EXCEPT !.tried = @ \cup {m}]
<1>1. /\ TypeOK /\ RequestsAreSound /\ LedgerIsSound /\ RequestIsSound(req[r])
      /\ req[r] \in RequestType /\ month \in Months
  BY Fields DEF BudgetInv, RequestsAreSound, TypeOK
<1>2. req[r].pc = "chain" /\ d \in Nat /\ req[r].cost = 0 /\ UNCHANGED <<month, resets, billed, forgiven>>
  BY <1>1, DeltaType DEF AdmitTopUp, RequestIsSound
<1>3. /\ spent' \in [Months -> Int] /\ faults' \in 0 .. MaxFaults
      /\ faults' = MaxFaults => out = "ok" /\ faults = MaxFaults
      /\ spent' = IF out = "lost" THEN spent ELSE reserveScript(d)
  BY <1>1, <1>2, CommandEffect, ReserveType
<1>4. req' = [req EXCEPT ![r] = q]
  BY <1>1 DEF TypeOK
<1>5. /\ q \in RequestType /\ q.pc = "chain" /\ q.base = req[r].base /\ q.cover = req[r].cover
      /\ q.cost = req[r].cost /\ q.requested = req[r].requested /\ q.extra = req[r].extra
  BY <1>1, <1>2 DEF RequestType
<1> HIDE DEF q
<1>6. pending' = pending /\ lost' = lost /\ excess' = excess /\ spent \in [Months -> Int]
  BY <1>1 DEF Seen, TypeOK
<1>7. \A p \in Months : spent'[p] >= spent[p] /\ (out = "ok" => spent'[p] = spent[p])
  BY <1>1, <1>2, <1>3, <1>6 DEF reserveScript
<1> HIDE DEF d
<1>8. TypeOK'
  BY <1>1, <1>2, <1>3, <1>4, <1>5, <1>6 DEF TypeOK
<1>9. RequestsAreSound'
  <2>1. RequestIsSound(q)
    BY <1>1, <1>2, <1>5 DEF RequestIsSound, Active, backed
  <2> QED  BY <1>1, <1>4, <1>5, <2>1, RequestsMove
<1>10. ASSUME NEW p \in Months, NEW x \in Nat, NEW h \in Int, NEW e \in Nat, HoldsOf(req[r].extra, p, x), Kept(p, h, e)
       PROVE  /\ pending'[p] = pending[p] + over(q, p) - over(req[r], p)
              /\ \E y \in Nat :
                   /\ HoldsOf(q.extra, p, y)
                   /\ KeptNext(p, h + hold(q, p, y) - hold(req[r], p, x), e + back(q, y) - back(req[r], x))
  <2>1. charge(q) = 0 /\ charge(req[r]) = 0
    BY <1>1, <1>2, <1>5, ChargeType
  <2>2. hold(q, p, x) = hold(req[r], p, x) /\ hold(req[r], p, x) \in Int /\ back(q, x) = 0 /\ back(req[r], x) = 0
    BY <1>1, <1>2, <1>5, <2>1, HoldType DEF hold, back
  <2>3. over(q, p) = 0 /\ over(req[r], p) = 0
    BY <1>2, <1>5, <2>1 DEF over
  <2> DEFINE due == billed[p] - forgiven[p]
             sp == spent[p]
             sp2 == spent'[p]
  <2>4. /\ due \in Int /\ sp \in Int /\ sp2 \in Int /\ sp2 >= sp + 0 /\ (out = "ok" => sp2 = sp + 0)
        /\ pending[p] \in Int /\ excess[p] \in Int /\ lost[p] \in Int
    BY <1>1, <1>3, <1>7, CounterTypes
  <2>5. h + hold(q, p, x) - hold(req[r], p, x) = h + 0 /\ e + back(q, x) - back(req[r], x) = e
        /\ pending'[p] = pending[p] + over(q, p) - over(req[r], p)
    BY <1>6, <2>2, <2>3, <2>4
  <2>6. billed'[p] - forgiven'[p] = due
    BY <1>2
  <2>7. Balanced(sp, due, faults = MaxFaults, pending[p], excess[p], lost[p], h, e)
    BY <1>10 DEF Kept
  <2>8. (faults = MaxFaults) \in BOOLEAN /\ (faults' = MaxFaults) \in BOOLEAN
        /\ (faults' = MaxFaults => faults = MaxFaults /\ out = "ok")
    BY <1>3
  <2> HIDE DEF due, sp, sp2
  <2>9. Balanced(sp2, due, faults' = MaxFaults, pending[p], excess[p], lost[p], h + 0, e)
    BY <2>4, <2>7, <2>8, Reserved
  <2>10. KeptNext(p, h + 0, e)
    BY <1>6, <2>6, <2>9 DEF KeptNext, sp2
  <2> QED  BY <1>5, <1>10, <2>5, <2>10
<1>11. LedgerIsSound'
  BY <1>1, <1>4, <1>5, <1>10, LedgerMoves
<1> QED  BY <1>8, <1>9, <1>11 DEF BudgetInv

LEMMA AdmitTopUpStep ==
  ASSUME BudgetInv, NEW r \in Requests, NEW m \in Models, AdmitTopUp(r, m)
  PROVE  BudgetInv'
<1>1. PICK out \in Outcomes :
        /\ Command(out, reserveScript(delta(r, m)))
        /\ req' = IF out = "ok" /\ fits(delta(r, m))
                  THEN [req EXCEPT ![r].pc = "calling", ![r].model = m,
                                   ![r].tried = @ \cup {m},
                                   ![r].extra = Append(@, [period |-> month, reserved |-> delta(r, m)]),
                                   ![r].cover = IF month = req[r].base.period
                                                THEN Price[m] ELSE req[r].base.reserved]
                  ELSE [req EXCEPT ![r].tried = @ \cup {m}]
        /\ Seen(out = "ok" /\ fits(delta(r, m)))
  BY DEF AdmitTopUp
<1>2. CASE out = "ok" /\ fits(delta(r, m))
  <2>1. Seen(TRUE)
    BY <1>1, <1>2 DEF Seen
  <2> QED  BY <1>1, <1>2, <2>1, TopUpTaken
<1>3. CASE ~ (out = "ok" /\ fits(delta(r, m)))
  <2>1. Seen(FALSE)
    BY <1>1, <1>3 DEF Seen
  <2> QED  BY <1>1, <1>3, <2>1, TopUpRefused
<1> QED  BY <1>2, <1>3

LEMMA EmptyHolds ==
  ASSUME NEW s \in Seq(Reservation), s = <<>>, NEW p, NEW x, HoldsOf(s, p, x)
  PROVE  x = 0
<1>1. Len(s) = 0
  OBVIOUS
<1> QED  BY <1>1 DEF HoldsOf

LEMMA LastTopUp ==
  ASSUME NEW s \in Seq(Reservation), s # <<>>
  PROVE  Head(s) \in Reservation /\ Tail(s) \in Seq(Reservation) /\ (Len(s) = 1 <=> Tail(s) = <<>>)
<1>1. Head(s) \in Reservation /\ Tail(s) \in Seq(Reservation) /\ Len(Tail(s)) = Len(s) - 1 /\ Len(s) \in Nat
  OBVIOUS
<1>2. \A t \in Seq(Reservation) : t = <<>> <=> Len(t) = 0
  OBVIOUS
<1>3. Tail(s) = <<>> <=> Len(s) - 1 = 0
  BY <1>1, <1>2
<1>4. Len(s) = 1 <=> Len(s) - 1 = 0
  BY <1>1
<1> QED  BY <1>1, <1>3, <1>4

LEMMA ReconcileType ==
  ASSUME TypeOK, NEW reservation \in Reservation, NEW actual \in Nat
  PROVE  /\ reconciled(reservation, actual) \in [Months -> Int]
         /\ \A p \in Months : reconciled(reservation, actual)[p]
              = spent[p] - (IF reservation.period = p THEN reservation.reserved - actual ELSE 0)
<1>1. spent \in [Months -> Int] /\ reservation.period \in Months /\ reservation.reserved \in Nat
  BY DEF TypeOK, Reservation
<1> QED  BY <1>1 DEF reconciled

\* What a request stands for is never negative: its charge is at most its cover, which
\* is reserved in the period of its base.
LEMMA CostIsHeld ==
  ASSUME TypeOK, NEW r \in Requests, RequestIsSound(req[r]), req[r].pc \in Active,
         NEW p \in Months, NEW x \in Nat, HoldsOf(req[r].extra, p, x)
  PROVE  hold(req[r], p, x) >= 0
<1>1. /\ req[r].base.reserved \in Nat /\ req[r].extra \in Seq(Reservation) /\ req[r] \in RequestType
      /\ charge(req[r]) \in Nat /\ charge(req[r]) <= req[r].cover /\ req[r].cover \in Nat
  BY Fields, ChargeType
<1>2. CASE req[r].base.period # p
  BY <1>2 DEF hold
<1>3. CASE req[r].base.period = p
  <2>1. hold(req[r], p, x) = req[r].base.reserved - charge(req[r]) + x
    BY <1>3 DEF hold
  <2>2. backed(req[r])
    BY DEF RequestIsSound
  <2>3. CASE req[r].base.reserved >= req[r].cover
    BY <1>1, <2>1, <2>3
  <2>4. ASSUME NEW k \in DOMAIN req[r].extra, req[r].extra[k].period = req[r].base.period,
               req[r].base.reserved + req[r].extra[k].reserved >= req[r].cover
        PROVE  hold(req[r], p, x) >= 0
    <3>1. req[r].extra[k].reserved <= x /\ req[r].extra[k].reserved \in Nat
      BY <1>1, <1>3, <2>4, HoldsEach, EachReservation
    <3> QED  BY <1>1, <2>1, <2>4, <3>1
  <2> QED  BY <2>2, <2>3, <2>4 DEF backed
<1> QED  BY <1>2, <1>3

LEMMA SettleBaseStep ==
  ASSUME BudgetInv, NEW r \in Requests, SettleBase(r)
  PROVE  BudgetInv'
<1> DEFINE base == req[r].base
           cost == req[r].cost
           tops == req[r].extra
           a == above(r, cost)
<1>1. /\ TypeOK /\ RequestsAreSound /\ LedgerIsSound /\ RequestIsSound(req[r])
      /\ req[r] \in RequestType /\ base \in Reservation /\ base.reserved \in Nat /\ base.period \in Months
      /\ tops \in Seq(Reservation) /\ cost \in Nat /\ req[r].cover \in Nat
  BY Fields DEF BudgetInv, RequestsAreSound
<1>2. req[r].pc = "settle" /\ UNCHANGED <<month, resets, billed, forgiven, excess>>
  BY DEF SettleBase
<1>3. PICK out \in Outcomes :
        /\ Command(out, reconciled(base, cost))
        /\ lost' = IF out = "lost" /\ cost > base.reserved
                   THEN [lost EXCEPT ![base.period] = @ + (cost - base.reserved)] ELSE lost
  BY DEF SettleBase
<1> DEFINE owed(p) == IF base.period = p THEN base.reserved - cost ELSE 0
           kept(p) == IF out = "lost" /\ cost > base.reserved /\ base.period = p THEN cost - base.reserved ELSE 0
           less(p) == IF base.period = p THEN a ELSE 0
<1>4. /\ spent' \in [Months -> Int] /\ faults' \in 0 .. MaxFaults
      /\ faults' = MaxFaults => out = "ok" /\ faults = MaxFaults
      /\ \A p \in Months : spent'[p] = IF out = "lost" THEN spent[p] ELSE spent[p] - owed(p)
  <2>1. /\ reconciled(base, cost) \in [Months -> Int]
        /\ \A p \in Months : reconciled(base, cost)[p] = spent[p] - owed(p)
    BY <1>1, ReconcileType
  <2>2. /\ spent' \in [Months -> Int] /\ faults' \in 0 .. MaxFaults
        /\ faults' = MaxFaults => out = "ok" /\ faults = MaxFaults
        /\ spent' = IF out = "lost" THEN spent ELSE reconciled(base, cost)
    BY <1>1, <1>3, <2>1, CommandEffect
  <2> QED  BY <2>1, <2>2
<1>5. a \in Nat /\ charge(req[r]) = cost - a
  BY <1>1 DEF above, charge
<1>6. /\ lost' \in [Months -> Nat] /\ pending' \in [Months -> Int]
      /\ \A p \in Months : lost'[p] = lost[p] + kept(p) /\ pending'[p] = pending[p] - less(p)
  <2>1. lost \in [Months -> Nat] /\ pending \in [Months -> Int]
    BY <1>1 DEF TypeOK
  <2>2. pending' = [pending EXCEPT ![base.period] = @ - a]
    BY DEF SettleBase
  <2> DEFINE t == base.period
             v == base.reserved
  <2>3. t \in Months /\ v \in Nat /\ cost \in Nat /\ a \in Nat
    BY <1>1, <1>5
  <2>4. lost' = IF out = "lost" /\ cost > v THEN [lost EXCEPT ![t] = @ + (cost - v)] ELSE lost
    BY <1>3
  <2>5. pending' = [pending EXCEPT ![t] = @ - a]
    BY <2>2
  <2> HIDE DEF t, v, cost, a
  <2>6. /\ lost' \in [Months -> Nat]
        /\ \A p \in Months : lost'[p] = lost[p] + (IF out = "lost" /\ cost > v /\ t = p THEN cost - v ELSE 0)
    BY <2>1, <2>3, <2>4
  <2>7. /\ pending' \in [Months -> Int]
        /\ \A p \in Months : pending'[p] = pending[p] - (IF t = p THEN a ELSE 0)
    BY <2>1, <2>3, <2>5
  <2> QED  BY <2>6, <2>7 DEF t, v
<1> DEFINE q == IF tops = <<>> THEN Done ELSE [req[r] EXCEPT !.pc = "settleExtra"]
<1>7. req' = [req EXCEPT ![r] = q]
  BY <1>1 DEF SettleBase, TypeOK
<1>8. /\ q \in RequestType /\ q.extra = tops
      /\ q.pc = (IF tops = <<>> THEN "done" ELSE "settleExtra")
  <2>1. CASE tops = <<>>
    BY <2>1, DoneType
  <2>2. CASE tops # <<>>
    BY <1>1, <2>2 DEF RequestType, Steps
  <2> QED  BY <2>1, <2>2
<1> HIDE DEF q, a
<1>9. TypeOK'
  <2>1. req' \in [Requests -> RequestType]
    BY <1>1, <1>7, <1>8 DEF TypeOK
  <2> QED  BY <1>1, <1>2, <1>4, <1>6, <2>1 DEF TypeOK
<1>10. RequestsAreSound'
  <2>1. RequestIsSound(q)
    BY <1>8 DEF RequestIsSound, Active
  <2> QED  BY <1>1, <1>7, <1>8, <2>1, RequestsMove
<1>11. ASSUME NEW p \in Months, NEW x \in Nat, NEW h \in Int, NEW e \in Nat, HoldsOf(req[r].extra, p, x), Kept(p, h, e)
       PROVE  /\ pending'[p] = pending[p] + over(q, p) - over(req[r], p)
              /\ \E y \in Nat :
                   /\ HoldsOf(q.extra, p, y)
                   /\ KeptNext(p, h + hold(q, p, y) - hold(req[r], p, x), e + back(q, y) - back(req[r], x))
  <2> DEFINE due == billed[p] - forgiven[p]
             sp == spent[p]
             sp2 == spent'[p]
             o == owed(p)
             n == less(p)
             k == kept(p)
             h2 == h + hold(q, p, x) - hold(req[r], p, x)
             e2 == e + back(q, x) - back(req[r], x)
  <2>1. /\ due \in Int /\ sp \in Int /\ o \in Int /\ sp2 = (IF out = "lost" THEN sp ELSE sp - o)
        /\ pending[p] \in Int /\ excess[p] \in Int /\ lost[p] \in Nat
        /\ lost'[p] = lost[p] + k /\ pending'[p] = pending[p] - n
    BY <1>1, <1>4, <1>6, CounterTypes
  <2>2. n \in Nat /\ k \in Nat /\ (out = "lost" => k >= 0 - o)
    BY <1>1, <1>5
  <2>3. hold(req[r], p, x) = o + n + x
    BY <1>1, <1>2, <1>5 DEF hold, Active
  <2>4. tops = <<>> => x = 0
    BY <1>1, <1>11, EmptyHolds
  <2>5. hold(q, p, x) = 0 /\ back(req[r], x) = 0 /\ back(q, x) = x
    BY <1>2, <1>8, <2>4 DEF hold, back, Active
  <2>6. over(q, p) = 0 /\ over(req[r], p) = n
    BY <1>1, <1>2, <1>5, <1>8 DEF over, Active
  <2>7. o + n + x >= 0
    BY <1>1, <1>2, <1>11, <2>3, CostIsHeld DEF Active
  <2>8. Balanced(sp, due, faults = MaxFaults, pending[p], excess[p], lost[p], h, e)
    BY <1>11 DEF Kept
  <2>9. billed'[p] - forgiven'[p] = due /\ excess'[p] = excess[p] /\ Cap \in Int
        /\ (faults' = MaxFaults => out # "lost" /\ faults = MaxFaults)
    BY <1>2, <1>4, Constants
  <2> HIDE DEF due, sp, sp2, o, n, k
  <2>10. h2 = h - o - n - x /\ e2 = e + x
    BY <2>1, <2>2, <2>3, <2>5
  <2> HIDE DEF h2, e2
  <2>11. /\ faults = MaxFaults => sp = due + h - pending[p] + e
         /\ sp >= due - lost[p] + h - pending[p] + e
         /\ due + h <= Cap + excess[p] + lost[p] /\ pending[p] <= excess[p]
    BY <2>8 DEF Balanced
  <2>12. faults' = MaxFaults => sp2 = due + h2 - pending'[p] + e2
    <3> SUFFICES ASSUME faults' = MaxFaults  PROVE sp2 = due + h2 - pending'[p] + e2
      OBVIOUS
    <3>1. sp2 = sp - o /\ sp = due + h - pending[p] + e
      BY <2>1, <2>9, <2>11
    <3> QED  BY <2>1, <2>2, <2>10, <3>1
  <2>13. sp2 >= due - lost'[p] + h2 - pending'[p] + e2
    BY <2>1, <2>2, <2>10, <2>11
  <2>14. due + h2 <= Cap + excess[p] + lost'[p] /\ pending'[p] <= excess[p]
    BY <2>1, <2>2, <2>7, <2>9, <2>10, <2>11
  <2>15. KeptNext(p, h2, e2)
    BY <2>9, <2>12, <2>13, <2>14 DEF KeptNext, Balanced, sp2
  <2>16. pending'[p] = pending[p] + over(q, p) - over(req[r], p)
    BY <2>1, <2>2, <2>6
  <2> QED  BY <1>8, <1>11, <2>15, <2>16 DEF h2, e2
<1>12. LedgerIsSound'
  BY <1>1, <1>7, <1>8, <1>11, LedgerMoves
<1> QED  BY <1>9, <1>10, <1>12 DEF BudgetInv

LEMMA SettleExtraStep ==
  ASSUME BudgetInv, NEW r \in Requests, SettleExtra(r)
  PROVE  BudgetInv'
<1> DEFINE tops == req[r].extra
           first == Head(tops)
           q == IF Len(tops) = 1 THEN Done ELSE [req[r] EXCEPT !.extra = Tail(@)]
<1>1. /\ TypeOK /\ RequestsAreSound /\ LedgerIsSound /\ RequestIsSound(req[r])
      /\ req[r] \in RequestType /\ tops \in Seq(Reservation)
  BY Fields DEF BudgetInv, RequestsAreSound
<1>2. /\ req[r].pc = "settleExtra" /\ tops # <<>>
      /\ UNCHANGED <<month, resets, billed, forgiven, pending, excess, lost>>
  BY <1>1 DEF SettleExtra, RequestIsSound, overruns
<1>3. first \in Reservation /\ Tail(tops) \in Seq(Reservation) /\ (Len(tops) = 1 <=> Tail(tops) = <<>>)
  BY <1>1, <1>2, LastTopUp
<1>4. PICK out \in Outcomes : Command(out, reconciled(first, 0))
  BY DEF SettleExtra
<1>5. /\ spent' \in [Months -> Int] /\ faults' \in 0 .. MaxFaults
      /\ faults' = MaxFaults => out = "ok" /\ faults = MaxFaults
      /\ \A p \in Months : spent'[p] = IF out = "lost" THEN spent[p] ELSE spent[p] - worth(first, p)
  <2>1. /\ reconciled(first, 0) \in [Months -> Int]
        /\ \A p \in Months : reconciled(first, 0)[p]
                               = spent[p] - (IF first.period = p THEN first.reserved - 0 ELSE 0)
    BY <1>1, <1>3, ReconcileType
  <2>2. /\ spent' \in [Months -> Int] /\ faults' \in 0 .. MaxFaults
        /\ faults' = MaxFaults => out = "ok" /\ faults = MaxFaults
        /\ spent' = IF out = "lost" THEN spent ELSE reconciled(first, 0)
    BY <1>1, <1>4, <2>1, CommandEffect
  <2>3. first.reserved - 0 = first.reserved
    BY <1>3 DEF Reservation
  <2> QED  BY <2>1, <2>2, <2>3 DEF worth
<1>6. req' = [req EXCEPT ![r] = q]
  BY <1>1 DEF SettleExtra, TypeOK
<1>7. /\ q \in RequestType /\ q.extra = Tail(tops)
      /\ q.pc = (IF Tail(tops) = <<>> THEN "done" ELSE "settleExtra")
  <2>1. CASE Len(tops) = 1
    BY <1>3, <2>1, DoneType
  <2>2. CASE Len(tops) # 1
    BY <1>1, <1>2, <1>3, <2>2 DEF RequestType
  <2> QED  BY <2>1, <2>2
<1> HIDE DEF q
<1>8. TypeOK'
  <2>1. req' \in [Requests -> RequestType]
    BY <1>1, <1>6, <1>7 DEF TypeOK
  <2> QED  BY <1>1, <1>2, <1>5, <2>1 DEF TypeOK
<1>9. RequestsAreSound'
  <2>1. RequestIsSound(q)
    BY <1>7 DEF RequestIsSound, Active
  <2> QED  BY <1>1, <1>6, <1>7, <2>1, RequestsMove
<1>10. ASSUME NEW p \in Months, NEW x \in Nat, NEW h \in Int, NEW e \in Nat, HoldsOf(req[r].extra, p, x), Kept(p, h, e)
       PROVE  /\ pending'[p] = pending[p] + over(q, p) - over(req[r], p)
              /\ \E y \in Nat :
                   /\ HoldsOf(q.extra, p, y)
                   /\ KeptNext(p, h + hold(q, p, y) - hold(req[r], p, x), e + back(q, y) - back(req[r], x))
  <2> DEFINE w == worth(first, p)
             y == x - w
             due == billed[p] - forgiven[p]
             sp == spent[p]
             sp2 == spent'[p]
             h2 == h + hold(q, p, y) - hold(req[r], p, x)
             e2 == e + back(q, y) - back(req[r], x)
  <2>1. HoldsOf(Tail(tops), p, y) /\ y \in Nat
    BY <1>1, <1>2, <1>10, HoldsLess
  <2>2. w \in Nat
    BY <1>3, WorthType
  <2>3. /\ due \in Int /\ sp \in Int /\ sp2 = (IF out = "lost" THEN sp ELSE sp - w)
        /\ pending[p] \in Int /\ excess[p] \in Int /\ lost[p] \in Int
    BY <1>1, <1>5, CounterTypes
  <2> HIDE DEF w, sp, sp2, due
  <2>4. q.pc # "settleExtra" => y = 0
    BY <1>3, <1>7, <2>1, EmptyHolds
  <2>5. hold(q, p, y) = 0 /\ hold(req[r], p, x) = 0 /\ back(req[r], x) = x /\ back(q, y) = y
        /\ over(q, p) = 0 /\ over(req[r], p) = 0
    BY <1>2, <1>7, <2>4 DEF hold, back, over, Active
  <2>6. h2 = h /\ e2 = e - w
    BY <2>2, <2>5
  <2>7. /\ faults = MaxFaults => sp = due + h - pending[p] + e
        /\ sp >= due - lost[p] + h - pending[p] + e
        /\ due + h <= Cap + excess[p] + lost[p] /\ pending[p] <= excess[p]
    BY <1>10 DEF sp, due, Kept, Balanced
  <2> HIDE DEF h2, e2
  <2>8. faults' = MaxFaults => sp2 = due + h2 - pending[p] + e2
    <3> SUFFICES ASSUME faults' = MaxFaults  PROVE sp2 = due + h2 - pending[p] + e2
      OBVIOUS
    <3>1. sp2 = sp - w /\ sp = due + h - pending[p] + e
      BY <1>5, <2>3, <2>7
    <3> QED  BY <2>2, <2>3, <2>6, <3>1
  <2>9. sp2 >= due - lost[p] + h2 - pending[p] + e2
    BY <2>2, <2>3, <2>6, <2>7
  <2>10. KeptNext(p, h2, e2)
    BY <1>2, <2>6, <2>7, <2>8, <2>9 DEF due, sp2, KeptNext, Balanced
  <2>11. pending'[p] = pending[p] + over(q, p) - over(req[r], p)
    BY <1>2, <2>3, <2>5
  <2> QED  BY <1>7, <2>1, <2>10, <2>11 DEF h2, e2
<1>11. LedgerIsSound'
  BY <1>1, <1>6, <1>7, <1>10, LedgerMoves
<1> QED  BY <1>8, <1>9, <1>11 DEF BudgetInv

-----------------------------------------------------------------------------
(* The month and the operator.                                             *)

LEMMA ResetStep ==
  ASSUME BudgetInv, Reset
  PROVE  BudgetInv'
<1>1. TypeOK /\ RequestsAreSound /\ LedgerIsSound /\ month \in Months /\ resets \in 0 .. MaxResets /\ MaxResets \in Nat
  BY Constants DEF BudgetInv, TypeOK
<1>2. /\ resets > 0 /\ resets' = resets - 1 /\ UNCHANGED <<month, req, faults, billed, pending, excess, lost>>
      /\ spent' = [spent EXCEPT ![month] = 0] /\ forgiven' = [forgiven EXCEPT ![month] = @ + spent[month]]
  BY DEF Reset, overruns
<1>3. spent \in [Months -> Int] /\ forgiven \in [Months -> Int]
  BY <1>1 DEF TypeOK
<1>4. TypeOK'
  <2>1. spent' \in [Months -> Int] /\ forgiven' \in [Months -> Int]
    BY <1>1, <1>2, <1>3
  <2>2. resets' \in 0 .. MaxResets
    BY <1>1, <1>2
  <2> QED  BY <1>1, <1>2, <2>1, <2>2 DEF TypeOK
<1>5. RequestsAreSound'
  BY <1>1, <1>2 DEF RequestsAreSound
<1>6. LedgerIsSound'
  <2> SUFFICES ASSUME NEW p \in Months
               PROVE  \E ex \in [Requests -> Nat], h \in Int, e \in Int :
                        Accounts(req', p, ex, h, pending'[p], e) /\ KeptNext(p, h, e)
    BY DEF LedgerIsSound, Kept, KeptNext
  <2>1. PICK ex \in [Requests -> Nat], h \in Int, e \in Int :
          Accounts(req, p, ex, h, pending[p], e) /\ Kept(p, h, e)
    BY <1>1 DEF LedgerIsSound
  <2>2. e >= 0 /\ pending[p] \in Int /\ excess[p] \in Int /\ lost[p] \in Int
    BY <1>1, <2>1, NothingOwedBack, CounterTypes
  <2> DEFINE due == billed[p] - forgiven[p]
             due2 == billed'[p] - forgiven'[p]
             sp == spent[p]
             sp2 == spent'[p]
  <2>3. /\ due \in Int /\ sp \in Int /\ Cap \in Nat
        /\ (p = month => sp2 = 0 /\ due2 = due - sp) /\ (p # month => sp2 = sp /\ due2 = due)
    <3>1. billed[p] \in Int /\ forgiven[p] \in Int /\ spent[p] \in Int
      BY <1>1, CounterTypes
    <3>2. billed'[p] = billed[p] /\ forgiven'[p] = (IF p = month THEN forgiven[p] + spent[p] ELSE forgiven[p])
          /\ spent'[p] = (IF p = month THEN 0 ELSE spent[p])
      BY <1>2, <1>3
    <3> QED  BY <3>1, <3>2, Constants
  <2>4. /\ faults = MaxFaults => sp = due + h - pending[p] + e
        /\ sp >= due - lost[p] + h - pending[p] + e
        /\ due + h <= Cap + excess[p] + lost[p] /\ pending[p] <= excess[p]
    BY <2>1 DEF Kept, Balanced
  <2> HIDE DEF due, due2, sp, sp2
  <2>5. /\ faults = MaxFaults => sp2 = due2 + h - pending[p] + e
        /\ sp2 >= due2 - lost[p] + h - pending[p] + e
        /\ due2 + h <= Cap + excess[p] + lost[p] /\ pending[p] <= excess[p]
    <3>1. CASE p # month
      BY <2>3, <2>4, <3>1
    <3>2. CASE p = month
      <4>1. sp2 >= due2 - lost[p] + h - pending[p] + e
        BY <2>2, <2>3, <2>4, <3>2
      <4>2. due2 + h <= Cap + excess[p] + lost[p]
        BY <2>2, <2>3, <2>4, <3>2
      <4>3. ASSUME sp = due + h - pending[p] + e  PROVE sp2 = due2 + h - pending[p] + e
        BY <2>2, <2>3, <3>2, <4>3
      <4> QED  BY <2>4, <4>1, <4>2, <4>3
    <3> QED  BY <3>1, <3>2
  <2>6. KeptNext(p, h, e)
    BY <1>2, <2>5 DEF KeptNext, Balanced, due2, sp2
  <2>7. Accounts(req', p, ex, h, pending'[p], e)
    BY <1>2, <2>1
  <2> QED  BY <2>6, <2>7
<1> QED  BY <1>4, <1>5, <1>6 DEF BudgetInv

LEMMA NextPeriodStep ==
  ASSUME BudgetInv, NextPeriod
  PROVE  BudgetInv'
<1>1. TypeOK /\ RequestsAreSound /\ LedgerIsSound /\ month \in 1 .. Periods /\ Periods \in Nat
  BY Constants DEF BudgetInv, TypeOK, Months
<1>2. /\ month < Periods /\ month' = month + 1
      /\ UNCHANGED <<spent, req, faults, resets, billed, forgiven, pending, excess, lost>>
  BY DEF NextPeriod, overruns
<1>3. TypeOK'
  BY <1>1, <1>2 DEF TypeOK, Months
<1>4. RequestsAreSound'
  BY <1>1, <1>2 DEF RequestsAreSound
<1>5. LedgerIsSound'
  BY <1>1, <1>2 DEF LedgerIsSound, Kept
<1> QED  BY <1>3, <1>4, <1>5 DEF BudgetInv

LEMMA BudgetInit == Init => BudgetInv
<1> SUFFICES ASSUME Init PROVE BudgetInv
  OBVIOUS
<1>1. /\ Idle \in RequestType /\ Idle.pc = "idle" /\ Idle.extra = <<>>
  BY Constants DEF Idle, RequestType, Reservation, NoReservation, Steps
<1>2. /\ spent = [p \in Months |-> 0] /\ billed = [p \in Months |-> 0] /\ forgiven = [p \in Months |-> 0]
      /\ month = 1 /\ req = [r \in Requests |-> Idle] /\ faults = MaxFaults /\ resets = MaxResets
      /\ pending = [p \in Months |-> 0] /\ excess = [p \in Months |-> 0] /\ lost = [p \in Months |-> 0]
  BY DEF Init
<1>3. TypeOK
  BY <1>1, <1>2, Constants DEF TypeOK
<1>4. RequestsAreSound
  BY <1>1, <1>2 DEF RequestsAreSound, RequestIsSound, Active
<1>5. LedgerIsSound
  <2> SUFFICES ASSUME NEW p \in Months
               PROVE  \E ex \in [Requests -> Nat], h \in Int, e \in Int :
                        Accounts(req, p, ex, h, pending[p], e) /\ Kept(p, h, e)
    BY DEF LedgerIsSound
  <2> DEFINE ex == [r \in Requests |-> 0]
  <2>1. ex \in [Requests -> Nat] /\ \A r \in Requests : req[r] = Idle /\ ex[r] = 0
    BY <1>2
  <2> HIDE DEF ex
  <2>2. \A r \in Requests : HoldsOf(req[r].extra, p, ex[r])
    BY <1>1, <2>1, HoldsNothing
  <2>3. [r \in Requests |-> hold(req[r], p, ex[r])] = [r \in Requests |-> 0]
    BY <1>1, <2>1 DEF hold, Active
  <2>4. [r \in Requests |-> back(req[r], ex[r])] = [r \in Requests |-> 0]
    BY <1>1, <2>1 DEF back
  <2>5. [r \in Requests |-> over(req[r], p)] = [r \in Requests |-> 0] /\ pending[p] = 0
    BY <1>1, <1>2, <2>1 DEF over, Active
  <2>6. Accounts(req, p, ex, 0, pending[p], 0)
    BY <2>2, <2>3, <2>4, <2>5, SumOfZeros DEF Accounts
  <2>7. Kept(p, 0, 0)
    BY <1>2, Constants DEF Kept, Balanced
  <2> QED  BY <2>1, <2>6, <2>7
<1> QED  BY <1>3, <1>4, <1>5 DEF BudgetInv

LEMMA BudgetStep == BudgetInv /\ [Next]_vars => BudgetInv'
<1> SUFFICES ASSUME BudgetInv, [Next]_vars  PROVE BudgetInv'
  OBVIOUS
<1>1. ASSUME NEW r \in Requests, NEW m \in Models, ReserveBudget(r, m)  PROVE BudgetInv'
  BY <1>1, ReserveStep
<1>2. ASSUME NEW r \in Requests, NEW m \in Models, AdmitCovered(r, m)  PROVE BudgetInv'
  BY <1>2, AdmitCoveredStep
<1>3. ASSUME NEW r \in Requests, NEW m \in Models, AdmitTopUp(r, m)  PROVE BudgetInv'
  BY <1>3, AdmitTopUpStep
<1>4. ASSUME NEW r \in Requests, CandidateFails(r)  PROVE BudgetInv'
  BY <1>4, CandidateFailsStep
<1>5. ASSUME NEW r \in Requests, CandidateServes(r)  PROVE BudgetInv'
  BY <1>5, CandidateServesStep
<1>6. ASSUME NEW r \in Requests, ChainFails(r)  PROVE BudgetInv'
  BY <1>6, ChainFailsStep
<1>7. ASSUME NEW r \in Requests, SettleBase(r)  PROVE BudgetInv'
  BY <1>7, SettleBaseStep
<1>8. ASSUME NEW r \in Requests, SettleExtra(r)  PROVE BudgetInv'
  BY <1>8, SettleExtraStep
<1>9. CASE Reset
  BY <1>9, ResetStep
<1>10. CASE NextPeriod
  BY <1>10, NextPeriodStep
<1>11. CASE UNCHANGED vars
  BY <1>11 DEF vars, overruns, BudgetInv, TypeOK, RequestsAreSound, LedgerIsSound, Kept
<1> QED  BY <1>1, <1>2, <1>3, <1>4, <1>5, <1>6, <1>7, <1>8, <1>9, <1>10, <1>11 DEF Next

-----------------------------------------------------------------------------
\* The inductive invariant of a team's counter and the requests that share it.
THEOREM BudgetCorrect == Spec => []BudgetInv
BY BudgetInit, BudgetStep, PTL DEF Spec

\* chainBudget.admit lets no candidate be called whose price the base reservation, alone
\* or with one top-up, does not pay: for any tier, prices and failures of Redis.
THEOREM EveryCallIsCovered == Spec => []CallsAreCovered
<1>1. BudgetInv => CallsAreCovered
  BY DEF BudgetInv, RequestsAreSound, RequestIsSound, CallsAreCovered, covers, pays
<1> QED  BY <1>1, BudgetCorrect, PTL

\* The settlements of ChatCompletions net out: while no Redis command has failed, a team
\* with nothing in flight has on every month's counter what the providers charged, less
\* what resets wiped off, for any number of requests and wherever the months turned.
THEOREM SettlementIsExact == Spec => []SettledExactly
<1>1. ASSUME BudgetInv, \A r \in Requests : Settled(r), faults = MaxFaults, NEW p \in Months
      PROVE  spent[p] = billed[p] - forgiven[p]
  <2>1. TypeOK
    BY <1>1 DEF BudgetInv
  <2>2. PICK ex \in [Requests -> Nat], h \in Int, e \in Int :
          Accounts(req, p, ex, h, pending[p], e) /\ Kept(p, h, e)
    BY <1>1 DEF BudgetInv, LedgerIsSound
  <2> DEFINE f == [r \in Requests |-> hold(req[r], p, ex[r])]
             g == [r \in Requests |-> over(req[r], p)]
             b == [r \in Requests |-> back(req[r], ex[r])]
  <2>3. \A r \in Requests : f[r] = 0 /\ g[r] = 0 /\ b[r] = 0
    BY <1>1 DEF Settled, hold, over, back, Active
  <2>4. f \in [Requests -> Int] /\ g \in [Requests -> Int] /\ b \in [Requests -> Int]
    BY <2>3
  <2>5. SumsTo(f, h) /\ SumsTo(g, pending[p]) /\ SumsTo(b, e) /\ pending[p] \in Int
    BY <2>1, <2>2, CounterTypes DEF Accounts
  <2> HIDE DEF f, g, b
  <2>6. h = 0 /\ e = 0 /\ pending[p] = 0
    BY <2>3, <2>4, <2>5, SumIsZero
  <2> DEFINE due == billed[p] - forgiven[p]
  <2>7. due \in Int
    BY <2>1, CounterTypes
  <2>8. spent[p] = due + h - pending[p] + e
    BY <1>1, <2>2 DEF Kept, Balanced
  <2> HIDE DEF due
  <2>9. spent[p] = due
    BY <2>6, <2>7, <2>8
  <2> QED  BY <2>9 DEF due
<1>2. BudgetInv => SettledExactly
  BY <1>1 DEF SettledExactly
<1> QED  BY <1>2, BudgetCorrect, PTL

\* Failing closed holds the cap, for any number of requests in flight, any prices and
\* any error of the estimate: in every month what a team is charged less what was
\* forgiven exceeds MonthlyBudgetMicros by at most the overruns the last reservation
\* could not see and what lost settlements kept from the counter (reserveScript,
\* chainBudget.admit, Reconcile).
THEOREM TheCapIsKept == Spec => []CapHolds
<1>1. ASSUME BudgetInv, NEW p \in Months
      PROVE  billed[p] - forgiven[p] <= Cap + excess[p] + lost[p]
  <2>1. TypeOK /\ req \in [Requests -> RequestType]
    BY <1>1 DEF BudgetInv, TypeOK
  <2>2. PICK ex \in [Requests -> Nat], h \in Int, e \in Int :
          Accounts(req, p, ex, h, pending[p], e) /\ Kept(p, h, e)
    BY <1>1 DEF BudgetInv, LedgerIsSound
  <2> DEFINE f == [r \in Requests |-> hold(req[r], p, ex[r])]
             due == billed[p] - forgiven[p]
  <2>3. ASSUME NEW r \in Requests  PROVE hold(req[r], p, ex[r]) \in Int /\ hold(req[r], p, ex[r]) >= 0
    <3>1. req[r] \in RequestType /\ ex[r] \in Nat
      BY <2>1
    <3>2. RequestIsSound(req[r]) /\ HoldsOf(req[r].extra, p, ex[r])
      BY <1>1, <2>2 DEF BudgetInv, RequestsAreSound, Accounts
    <3>3. CASE req[r].pc \in Active
      BY <1>1, <2>1, <3>1, <3>2, <3>3, CostIsHeld, HoldType
    <3>4. CASE req[r].pc \notin Active
      BY <3>4 DEF hold
    <3> QED  BY <3>3, <3>4
  <2>4. f \in [Requests -> Int] /\ \A r \in Requests : f[r] >= 0
    BY <2>3
  <2>5. SumsTo(f, h)
    BY <2>2 DEF Accounts
  <2> HIDE DEF f
  <2>6. h >= 0
    BY <2>4, <2>5, SumIsNatural
  <2>7. due \in Int /\ Cap \in Int /\ excess[p] \in Int /\ lost[p] \in Int
    BY <1>1, <2>1, CounterTypes, Constants
  <2>8. due + h <= Cap + excess[p] + lost[p]
    BY <1>1, <2>2 DEF Kept, Balanced
  <2> HIDE DEF due
  <2>9. due <= Cap + excess[p] + lost[p]
    BY <2>6, <2>7, <2>8
  <2> QED  BY <2>9 DEF due
<1>2. BudgetInv => CapHolds
  BY <1>1 DEF CapHolds
<1> QED  BY <1>2, BudgetCorrect, PTL
=============================================================================
