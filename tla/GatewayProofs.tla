---------------------------- MODULE GatewayProofs ----------------------------
(***************************************************************************)
(* Gateway for every number of requests and workers, every size of queue   *)
(* and batch and every environment: what readiness promises, and where the *)
(* rows of finished requests are, until the process has exited.            *)
(***************************************************************************)
EXTENDS Gateway, FiniteSetTheorems, WellFoundedInduction, NaturalsInduction, TLAPS

PastRouter == {"quality", "identity", "bindPublic", "bindAdmin", "start", "workers", "announce", "serving"}

\* What a boot has opened, checked and started when it reaches each stage.
BootIsOrdered ==
  /\ stage \in Booting => live = env.file
  /\ stage \in Booting \cup {"start"} =>
       serverErrs = {} /\ writer = "off" /\ ~ logCancelled /\ \A r \in Requests : req[r].pc = "none"
  /\ stage \in {"config", "tracing"} => held = {}
  /\ stage \in {"resilience", "postgres"} => held = {"tracing", "redis"}
  /\ stage \in {"cache", "router", "quality", "identity", "bindPublic"} => held = {"tracing", "redis", "pool"}
  /\ stage = "bindAdmin" => held = {"tracing", "redis", "pool", "public"}
  /\ stage = "start" => held = Resources
  /\ stage \in {"workers", "announce", "serving"} => held \cup serverErrs = Resources
  /\ stage \in PastRouter /\ env.router = "on" => validateRoutingPolicy(env.file)
  /\ stage \in {"announce", "serving"} =>
       writer # "off" /\ (env.quality = "on" => \A w \in Workers : worker[w].pc # "off")
  /\ ready => stage = "serving"

Drained == {"cancelQuality", "waitQuality", "cancelLog", "waitLog", "unwind", "exited"}

\* The order of a shutdown: no request begins once the listeners are closed, none runs
\* after a drain in time, the log writer is told to stop after that, and what it leaves
\* behind is an excuse.
ShutdownIsOrdered ==
  /\ logCancelled => stage \in {"waitLog", "unwind", "exited"}
  /\ stage \in Drained \cup {"draining"} => "public" \notin held
  /\ stage \in Drained /\ excuses = {} => Running = {}
  /\ writer \in {"off", "backoff", "done"} => batch = <<>>
  /\ writer \in {"final", "done"} => logCancelled /\ (excuses = {} => queue = <<>>)
  /\ writer = "off" => stage \in Booting \cup {"start", "workers", "unwind", "exited"}
  /\ writer = "off" /\ stage \in {"unwind", "exited"} => \A r \in Requests : req[r].pc = "none"
  /\ stage \in {"unwind", "exited"} /\ excuses = {} => writer \in {"off", "done"}

NoRepeats(s) == \A j, k \in 1 .. Len(s) : s[j] = s[k] => j = k

\* A finished request is queued once, or in the batch once, or lost, or neither.
RowsAreDistinct ==
  /\ NoRepeats(queue) /\ NoRepeats(batch)
  /\ ToSet(queue) \cup ToSet(batch) \cup lost \subseteq Finished
  /\ ToSet(queue) \cap ToSet(batch) = {}
  /\ lost \cap (ToSet(queue) \cup ToSet(batch)) = {}
  /\ IsFiniteSet(Finished)

\* Finished requests that have no row and are not on the way to one.
Missing == {r \in Finished : rows[req[r].id] = None} \ (ToSet(queue) \cup ToSet(batch))

MissingAreCounted == Cardinality(Missing) <= counts["dropped"] + counts["failed"] + Cardinality(lost)

RowsAreKept == RowsAreDistinct /\ RowsCountedOnce /\ MissingAreCounted

GatewayInv == TypeOK /\ BootIsOrdered /\ ShutdownIsOrdered /\ RowsAreKept

-----------------------------------------------------------------------------
(* Sequences without repetitions.                                          *)

LEMMA InSequence ==
  ASSUME NEW S, NEW s \in Seq(S), NEW x
  PROVE  x \in ToSet(s) <=> \E k \in 1 .. Len(s) : s[k] = x
BY DEF ToSet

LEMMA DistinctCount ==
  ASSUME NEW S, NEW s \in Seq(S), NoRepeats(s)
  PROVE  IsFiniteSet(ToSet(s)) /\ Cardinality(ToSet(s)) = Len(s)
<1>1. s \in Bijection(1 .. Len(s), ToSet(s))
  <2>1. s \in [1 .. Len(s) -> ToSet(s)] /\ \A y \in ToSet(s) : \E k \in 1 .. Len(s) : s[k] = y
    BY DEF ToSet
  <2>2. \A j, k \in 1 .. Len(s) : s[j] = s[k] => j = k
    BY DEF NoRepeats
  <2> QED  BY <2>1, <2>2, Zenon DEF Bijection, Injection, Surjection, IsInjective
<1>2. ExistsBijection(1 .. Len(s), ToSet(s))
  BY <1>1 DEF ExistsBijection
<1>3. IsFiniteSet(1 .. Len(s)) /\ Cardinality(1 .. Len(s)) = Len(s)
  <2>1. Len(s) \in Nat /\ Len(s) \in Int
    OBVIOUS
  <2>2. IsFiniteSet(1 .. Len(s)) /\ Cardinality(1 .. Len(s)) = IF 1 > Len(s) THEN 0 ELSE Len(s) - 1 + 1
    BY <2>1, FS_Interval
  <2> QED  BY <2>1, <2>2
<1> QED  BY <1>2, <1>3, FS_Bijection

LEMMA DistinctAppend ==
  ASSUME NEW S, NEW s \in Seq(S), NEW x \in S, NoRepeats(s), x \notin ToSet(s)
  PROVE  /\ Append(s, x) \in Seq(S) /\ Len(Append(s, x)) = Len(s) + 1
         /\ NoRepeats(Append(s, x)) /\ ToSet(Append(s, x)) = ToSet(s) \cup {x}
<1> DEFINE t == Append(s, x)
<1>1. t \in Seq(S) /\ Len(t) = Len(s) + 1 /\ t[Len(t)] = x /\ \A k \in 1 .. Len(s) : t[k] = s[k]
  OBVIOUS
<1> HIDE DEF t
<1>2. \A k \in 1 .. Len(t) : k \in 1 .. Len(s) \/ k = Len(t)
  BY <1>1
<1>3. \A k \in 1 .. Len(s) : s[k] # x
  BY DEF ToSet
<1>4. NoRepeats(t)
  BY <1>1, <1>2, <1>3 DEF NoRepeats
<1>5. ToSet(t) = ToSet(s) \cup {x}
  BY <1>1, <1>2 DEF ToSet
<1> QED  BY <1>1, <1>4, <1>5 DEF t

LEMMA BoundedAppend ==
  ASSUME NEW S, NEW s \in Seq(S), NEW x \in S, NEW n \in Nat, Len(s) < n
  PROVE  Append(s, x) \in Seq(S) /\ Len(Append(s, x)) <= n
OBVIOUS

LEMMA DistinctTail ==
  ASSUME NEW S, NEW s \in Seq(S), s # <<>>, NoRepeats(s)
  PROVE  /\ Tail(s) \in Seq(S) /\ Len(Tail(s)) = Len(s) - 1
         /\ Head(s) \in ToSet(s) /\ Head(s) \in S
         /\ NoRepeats(Tail(s)) /\ ToSet(Tail(s)) = ToSet(s) \ {Head(s)}
<1> DEFINE t == Tail(s)
<1>1. /\ t \in Seq(S) /\ Len(t) = Len(s) - 1 /\ Len(s) \in Nat /\ Len(s) >= 1
      /\ Head(s) = s[1] /\ s[1] \in S /\ \A k \in 1 .. Len(t) : t[k] = s[k + 1]
  OBVIOUS
<1> HIDE DEF t
<1>2. NoRepeats(t)
  BY <1>1 DEF NoRepeats
<1>3. \A k \in 1 .. Len(s) : k = 1 \/ (k - 1 \in 1 .. Len(t) /\ s[k] = t[k - 1])
  BY <1>1
<1>4. \A k \in 1 .. Len(t) : k + 1 \in 1 .. Len(s) /\ s[k + 1] # s[1]
  BY <1>1 DEF NoRepeats
<1>5. \A x : x \in ToSet(t) <=> x \in ToSet(s) \ {s[1]}
  <2>1. ASSUME NEW x \in ToSet(t)  PROVE x \in ToSet(s) \ {s[1]}
    <3>1. PICK k \in 1 .. Len(t) : t[k] = x
      BY <1>1, InSequence
    <3> QED  BY <3>1, <1>1, <1>4, InSequence
  <2>2. ASSUME NEW x \in ToSet(s), x # s[1]  PROVE x \in ToSet(t)
    <3>1. PICK k \in 1 .. Len(s) : s[k] = x
      BY InSequence
    <3> QED  BY <3>1, <2>2, <1>1, <1>3, InSequence
  <2> QED  BY <2>1, <2>2
<1>6. s[1] \in ToSet(s)
  BY <1>1, InSequence
<1> QED  BY <1>1, <1>2, <1>5, <1>6 DEF t

LEMMA DistinctConcat ==
  ASSUME NEW S, NEW s \in Seq(S), NEW t \in Seq(S), NoRepeats(s), NoRepeats(t),
         ToSet(s) \cap ToSet(t) = {}
  PROVE  /\ s \o t \in Seq(S) /\ Len(s \o t) = Len(s) + Len(t)
         /\ NoRepeats(s \o t) /\ ToSet(s \o t) = ToSet(s) \cup ToSet(t)
<1> DEFINE u == s \o t
<1>1. /\ u \in Seq(S) /\ Len(u) = Len(s) + Len(t) /\ Len(s) \in Nat /\ Len(t) \in Nat
      /\ \A k \in 1 .. Len(s) : k \in 1 .. Len(u) /\ u[k] = s[k]
      /\ \A k \in 1 .. Len(t) : k + Len(s) \in 1 .. Len(u) /\ u[k + Len(s)] = t[k]
  OBVIOUS
<1>2. \A k \in 1 .. Len(u) : \/ k \in 1 .. Len(s) /\ u[k] = s[k]
                             \/ k - Len(s) \in 1 .. Len(t) /\ u[k] = t[k - Len(s)]
  OBVIOUS
<1> HIDE DEF u
<1>3. \A j \in 1 .. Len(s), k \in 1 .. Len(t) : s[j] # t[k]
  BY InSequence
<1>4. NoRepeats(u)
  <2> SUFFICES ASSUME NEW j \in 1 .. Len(u), NEW k \in 1 .. Len(u), u[j] = u[k]
               PROVE  j = k
    BY DEF NoRepeats
  <2>1. CASE j \in 1 .. Len(s) /\ u[j] = s[j]
    <3>1. k \in 1 .. Len(s) /\ u[k] = s[k]
      BY <2>1, <1>2, <1>3
    <3> QED  BY <2>1, <3>1 DEF NoRepeats
  <2>2. CASE j - Len(s) \in 1 .. Len(t) /\ u[j] = t[j - Len(s)]
    <3>1. k - Len(s) \in 1 .. Len(t) /\ u[k] = t[k - Len(s)]
      BY <2>2, <1>2, <1>3
    <3>2. j - Len(s) = k - Len(s)
      BY <2>2, <3>1 DEF NoRepeats
    <3> QED  BY <3>2, <1>1
  <2> QED  BY <2>1, <2>2, <1>2
<1>5. \A x : x \in ToSet(u) <=> x \in ToSet(s) \cup ToSet(t)
  <2>1. ASSUME NEW x \in ToSet(u)  PROVE x \in ToSet(s) \cup ToSet(t)
    <3>1. PICK k \in 1 .. Len(u) : u[k] = x
      BY <1>1, InSequence
    <3> QED  BY <3>1, <1>2, InSequence
  <2>2. ASSUME NEW x \in ToSet(s)  PROVE x \in ToSet(u)
    BY <1>1, InSequence
  <2>3. ASSUME NEW x \in ToSet(t)  PROVE x \in ToSet(u)
    <3>1. PICK k \in 1 .. Len(t) : t[k] = x
      BY InSequence
    <3> QED  BY <3>1, <1>1, InSequence
  <2> QED  BY <2>1, <2>2, <2>3
<1> QED  BY <1>1, <1>4, <1>5 DEF u

LEMMA EmptySequence == NoRepeats(<<>>) /\ ToSet(<<>>) = {} /\ Len(<<>>) = 0
BY SMT DEF NoRepeats, ToSet

LEMMA HasLeast ==
  ASSUME NEW S \in SUBSET Nat, S # {}
  PROVE  Min(S) \in S
<1>1. IsWellFoundedOn(OpToRel(<, Nat), Nat)
  BY NatLessThanWellFounded
<1>2. PICK x \in S : \A y \in S : ~ (<<y, x>> \in OpToRel(<, Nat))
  BY <1>1, WFMin
<1>3. \A y \in S : ~ (y < x)
  BY <1>2 DEF OpToRel
<1>4. \A y \in S : x <= y
  BY <1>3
<1> QED  BY <1>4 DEF Min

LEMMA UnionBound ==
  ASSUME NEW A, NEW B, NEW C, IsFiniteSet(A), IsFiniteSet(B), C \subseteq A \cup B
  PROVE  IsFiniteSet(C) /\ Cardinality(C) \in Nat /\ Cardinality(C) <= Cardinality(A) + Cardinality(B)
<1>1. /\ IsFiniteSet(A \cup B) /\ IsFiniteSet(A \cap B)
      /\ Cardinality(A \cup B) = Cardinality(A) + Cardinality(B) - Cardinality(A \cap B)
  BY FS_Union, FS_Intersection
<1>2. IsFiniteSet(C) /\ Cardinality(C) <= Cardinality(A \cup B)
  BY <1>1, FS_Subset
<1>3. /\ Cardinality(A) \in Nat /\ Cardinality(B) \in Nat /\ Cardinality(A \cap B) \in Nat
      /\ Cardinality(C) \in Nat /\ Cardinality(A \cup B) \in Nat
  BY <1>1, <1>2, FS_CardinalityType
<1> QED  BY <1>1, <1>2, <1>3

-----------------------------------------------------------------------------
(* Where the rows are.                                                     *)

LEMMA LogFields ==
  ASSUME TypeOK
  PROVE  /\ req \in [Requests -> [pc : {"none", "running", "sampled", "finished"}, id : Ids]]
         /\ queue \in Seq(Requests) /\ batch \in Seq(Requests)
         /\ Len(queue) \in Nat /\ Len(queue) <= QueueSize /\ Len(batch) \in Nat
         /\ counts \in [{"written", "dropped", "failed"} -> Nat]
         /\ counts["written"] \in Nat /\ counts["dropped"] \in Nat /\ counts["failed"] \in Nat
         /\ rows \in [Ids -> Requests \cup {None}] /\ None \notin Requests
         /\ lost \subseteq Requests
BY GatewayAssumption DEF TypeOK, None

LEMMA Counted ==
  ASSUME TypeOK, RowsAreDistinct
  PROVE  /\ IsFiniteSet(ToSet(queue)) /\ Cardinality(ToSet(queue)) = Len(queue)
         /\ IsFiniteSet(ToSet(batch)) /\ Cardinality(ToSet(batch)) = Len(batch)
         /\ IsFiniteSet(lost) /\ Cardinality(lost) \in Nat
         /\ IsFiniteSet(Finished) /\ Cardinality(Finished) \in Nat
         /\ IsFiniteSet(Missing) /\ Cardinality(Missing) \in Nat
<1>1. lost \subseteq Finished /\ Missing \subseteq Finished /\ IsFiniteSet(Finished)
  BY DEF RowsAreDistinct, Missing
<1>2. IsFiniteSet(lost) /\ IsFiniteSet(Missing)
  BY <1>1, FS_Subset
<1>3. NoRepeats(queue) /\ NoRepeats(batch)
  BY DEF RowsAreDistinct
<1> QED  BY <1>1, <1>2, <1>3, LogFields, DistinctCount, FS_CardinalityType

LEMMA LogKept ==
  ASSUME RowsAreKept, UNCHANGED <<req, queue, batch, counts, rows, lost>>
  PROVE  RowsAreKept'
<1>1. Finished' = Finished
  BY DEF Finished
<1>2. Missing' = Missing
  BY <1>1 DEF Missing
<1> QED  BY <1>1, <1>2 DEF RowsAreKept, RowsAreDistinct, RowsCountedOnce, MissingAreCounted

\* A request begins or is sampled: it is not a finished one.
LEMMA UnfinishedMoves ==
  ASSUME TypeOK, RowsAreKept, NEW r \in Requests, req[r].pc # "finished", req'[r].pc # "finished",
         \A q \in Requests \ {r} : req'[q] = req[q],
         UNCHANGED <<queue, batch, counts, rows, lost>>
  PROVE  RowsAreKept'
<1>1. Finished' = Finished
  BY DEF Finished
<1>2. Missing' = Missing
  <2>1. \A q \in Finished : req'[q].id = req[q].id
    BY DEF Finished
  <2> QED  BY <1>1, <2>1 DEF Missing
<1> QED  BY <1>1, <1>2 DEF RowsAreKept, RowsAreDistinct, RowsCountedOnce, MissingAreCounted

LEMMA FinishKeepsRows ==
  ASSUME TypeOK, RowsAreKept, NEW r \in Requests, Finish(r)
  PROVE  RowsAreKept'
<1> USE LogFields
<1>1. /\ r \notin Finished /\ Finished' = Finished \cup {r}
      /\ \A q \in Finished : req'[q].id = req[q].id
  BY DEF Finish, Running, Finished
<1>2. /\ IsFiniteSet(Finished') /\ Cardinality(Finished') = Cardinality(Finished) + 1
  BY <1>1, Counted, FS_AddElement DEF RowsAreKept
<1>3. r \notin ToSet(queue) \cup ToSet(batch) \cup lost
  BY <1>1 DEF RowsAreKept, RowsAreDistinct
<1>4. batch' = batch /\ rows' = rows /\ lost' = lost
  BY DEF Finish, database
<1>5. CASE Len(queue) < QueueSize
  <2>1. queue' = Append(queue, r) /\ counts' = counts
    BY <1>5 DEF Finish, Write
  <2>2. /\ Len(queue') = Len(queue) + 1 /\ NoRepeats(queue') /\ ToSet(queue') = ToSet(queue) \cup {r}
    BY <2>1, <1>3, DistinctAppend DEF RowsAreKept, RowsAreDistinct
  <2>3. RowsAreDistinct'
    BY <1>1, <1>2, <1>3, <1>4, <2>2 DEF RowsAreKept, RowsAreDistinct
  <2>4. Missing' = Missing
    BY <1>1, <1>3, <1>4, <2>2 DEF Missing
  <2>5. RowsCountedOnce'
    BY <1>2, <1>4, <2>1, <2>2, Counted, SMTT(40) DEF RowsAreKept, RowsCountedOnce
  <2> QED  BY <1>4, <2>1, <2>3, <2>4, <2>5 DEF RowsAreKept, MissingAreCounted
<1>6. CASE ~ (Len(queue) < QueueSize)
  <2>1. /\ queue' = queue /\ counts'["written"] = counts["written"]
        /\ counts'["failed"] = counts["failed"] /\ counts'["dropped"] = counts["dropped"] + 1
    BY <1>6 DEF Finish, Write
  <2>2. RowsAreDistinct'
    BY <1>1, <1>2, <1>3, <1>4, <2>1 DEF RowsAreKept, RowsAreDistinct
  <2>3. RowsCountedOnce'
    BY <1>2, <1>4, <2>1, Counted, SMTT(40) DEF RowsAreKept, RowsCountedOnce
  <2>4. Missing' \subseteq Missing \cup {r}
    BY <1>1, <1>4, <2>1 DEF Missing
  <2>5. Cardinality(Missing') \in Nat /\ Cardinality(Missing') <= Cardinality(Missing) + 1
    BY <2>4, Counted, FS_Singleton, UnionBound, ZenonT(40) DEF RowsAreKept
  <2> QED  BY <1>4, <2>1, <2>2, <2>3, <2>5, Counted, SMTT(40) DEF RowsAreKept, MissingAreCounted
<1> QED  BY <1>5, <1>6

LEMMA TakeKeepsRows ==
  ASSUME TypeOK, RowsAreKept, TakeRow
  PROVE  RowsAreKept'
<1>1. /\ req' = req /\ counts' = counts /\ rows' = rows /\ lost' = lost /\ Finished' = Finished
      /\ queue # <<>> /\ queue' = Tail(queue) /\ batch' = Append(batch, Head(queue))
  BY DEF TakeRow, database, Finished
<1>2. /\ Len(queue') = Len(queue) - 1 /\ NoRepeats(queue') /\ ToSet(queue') = ToSet(queue) \ {Head(queue)}
      /\ Head(queue) \in ToSet(queue) /\ Head(queue) \in Requests
  BY <1>1, LogFields, DistinctTail DEF RowsAreKept, RowsAreDistinct
<1>3. Head(queue) \notin ToSet(batch)
  BY <1>2 DEF RowsAreKept, RowsAreDistinct
<1>4. Len(batch') = Len(batch) + 1 /\ NoRepeats(batch') /\ ToSet(batch') = ToSet(batch) \cup {Head(queue)}
  BY <1>1, <1>2, <1>3, LogFields, DistinctAppend DEF RowsAreKept, RowsAreDistinct
<1>5. RowsAreDistinct'
  BY <1>1, <1>2, <1>3, <1>4 DEF RowsAreKept, RowsAreDistinct
<1>6. Missing' = Missing
  BY <1>1, <1>2, <1>4 DEF Missing
<1>7. RowsCountedOnce'
  <2> DEFINE total == counts["written"] + counts["dropped"] + counts["failed"] + Cardinality(lost)
  <2>1. Len(queue') + Len(batch') = Len(queue) + Len(batch) /\ Len(queue') \in Int /\ Len(batch') \in Int
    BY <1>2, <1>4, LogFields
  <2>2. total \in Int /\ Len(queue) \in Int /\ Len(batch) \in Int
    BY Counted, LogFields DEF RowsAreKept
  <2>3. total + Len(queue) + Len(batch) = Cardinality(Finished)
    BY DEF RowsAreKept, RowsCountedOnce
  <2> HIDE DEF total
  <2>4. total + Len(queue') + Len(batch') = Cardinality(Finished)
    BY <2>1, <2>2, <2>3
  <2> QED  BY <2>4, <1>1, Zenon DEF RowsCountedOnce, total
<1> QED  BY <1>1, <1>5, <1>6, <1>7 DEF RowsAreKept, MissingAreCounted

LEMMA FinalFlushKeepsRows ==
  ASSUME TypeOK, RowsAreKept, FinalFlush
  PROVE  RowsAreKept'
<1> USE LogFields
<1>1. /\ req' = req /\ counts' = counts /\ rows' = rows /\ lost' = lost /\ Finished' = Finished
      /\ queue' = <<>> /\ batch' = batch \o queue
  BY DEF FinalFlush, database, Finished
<1>2. /\ Len(batch') = Len(batch) + Len(queue) /\ NoRepeats(batch')
      /\ ToSet(batch') = ToSet(batch) \cup ToSet(queue)
  BY <1>1, DistinctConcat DEF RowsAreKept, RowsAreDistinct
<1>3. NoRepeats(queue') /\ ToSet(queue') = {} /\ Len(queue') = 0
  BY <1>1, EmptySequence
<1>4. RowsAreDistinct'
  BY <1>1, <1>2, <1>3 DEF RowsAreKept, RowsAreDistinct
<1>5. Missing' = Missing
  BY <1>1, <1>2, <1>3 DEF Missing
<1>6. RowsCountedOnce'
  BY <1>1, <1>2, <1>3, Counted DEF RowsAreKept, RowsCountedOnce
<1> QED  BY <1>1, <1>4, <1>5, <1>6 DEF RowsAreKept, MissingAreCounted

\* A flush empties the batch: into the table, into a count, or with a panic.
LEMMA BatchEnds ==
  ASSUME TypeOK, RowsAreKept, UNCHANGED <<req, queue>>, batch' = <<>>,
         \A i \in Ids : rows[i] # None => rows'[i] # None,
         counts'["dropped"] = counts["dropped"],
         \/ /\ lost' = lost /\ counts'["failed"] = counts["failed"]
            /\ counts'["written"] = counts["written"] + Len(batch)
            /\ \A r \in ToSet(batch) : rows'[req[r].id] # None
         \/ /\ lost' = lost /\ counts'["written"] = counts["written"]
            /\ counts'["failed"] = counts["failed"] + Len(batch)
         \/ /\ lost' = lost \cup ToSet(batch) /\ counts'["written"] = counts["written"]
            /\ counts'["failed"] = counts["failed"]
  PROVE  RowsAreKept'
<1> USE LogFields
<1>1. NoRepeats(batch') /\ ToSet(batch') = {} /\ Len(batch') = 0 /\ Finished' = Finished
  BY EmptySequence DEF Finished
<1>2. \A r \in Finished : req[r].id \in Ids
  BY DEF Finished
<1>3. Missing' \subseteq Missing \cup ToSet(batch)
  BY <1>1, <1>2 DEF Missing
<1>4. Cardinality(Missing') \in Nat /\ Cardinality(Missing') <= Cardinality(Missing) + Len(batch)
  BY <1>3, Counted, UnionBound DEF RowsAreKept
<1>5. ToSet(batch) \subseteq Finished /\ lost \cap ToSet(batch) = {}
  BY DEF RowsAreKept, RowsAreDistinct
<1>6. CASE lost' = lost
  <2>1. RowsAreDistinct'
    BY <1>1, <1>6 DEF RowsAreKept, RowsAreDistinct
  <2>2. CASE /\ counts'["failed"] = counts["failed"] /\ counts'["written"] = counts["written"] + Len(batch)
             /\ \A r \in ToSet(batch) : rows'[req[r].id] # None
    <3>1. Missing' \subseteq Missing
      BY <1>1, <1>2, <2>2 DEF Missing
    <3>2. Cardinality(Missing') <= Cardinality(Missing)
      BY <3>1, Counted, FS_Subset DEF RowsAreKept
    <3>3. RowsCountedOnce'
      BY <1>1, <1>6, <2>2, Counted, SMTT(40) DEF RowsAreKept, RowsCountedOnce
    <3> QED  BY <1>4, <1>6, <2>1, <2>2, <3>2, <3>3, Counted, SMTT(40) DEF RowsAreKept, MissingAreCounted
  <2>3. CASE counts'["failed"] = counts["failed"] + Len(batch) /\ counts'["written"] = counts["written"]
    <3>1. RowsCountedOnce'
      BY <1>1, <1>6, <2>3, Counted, SMTT(40) DEF RowsAreKept, RowsCountedOnce
    <3> QED  BY <1>4, <1>6, <2>1, <2>3, <3>1, Counted, SMTT(40) DEF RowsAreKept, MissingAreCounted
  <2>4. CASE /\ lost' = lost \cup ToSet(batch) /\ counts'["written"] = counts["written"]
             /\ counts'["failed"] = counts["failed"]
    <3>1. ToSet(batch) = {}
      BY <1>5, <1>6, <2>4
    <3>2. Len(batch) = 0
      BY <3>1, Counted, FS_EmptySet DEF RowsAreKept
    <3>3. RowsCountedOnce'
      BY <1>1, <1>6, <2>4, <3>2, Counted DEF RowsAreKept, RowsCountedOnce
    <3> QED  BY <1>4, <1>6, <2>1, <2>4, <3>2, <3>3, Counted DEF RowsAreKept, MissingAreCounted
  <2> QED  BY <2>2, <2>3, <2>4
<1>7. CASE lost' # lost
  <2>1. /\ lost' = lost \cup ToSet(batch) /\ counts'["written"] = counts["written"]
        /\ counts'["failed"] = counts["failed"]
    BY <1>7
  <2>2. Cardinality(lost') = Cardinality(lost) + Len(batch)
    <3>1. /\ IsFiniteSet(lost) /\ IsFiniteSet(ToSet(batch)) /\ Cardinality(ToSet(batch)) = Len(batch)
          /\ Cardinality(lost) \in Nat
      BY Counted DEF RowsAreKept
    <3>2. Cardinality(lost') = Cardinality(lost) + Cardinality(ToSet(batch)) - Cardinality(lost \cap ToSet(batch))
      BY <2>1, <3>1, FS_Union
    <3>3. Cardinality(lost \cap ToSet(batch)) = 0
      BY <1>5, FS_EmptySet
    <3> QED  BY <3>1, <3>2, <3>3
  <2>3. RowsAreDistinct'
    BY <1>1, <1>5, <2>1 DEF RowsAreKept, RowsAreDistinct
  <2>4. RowsCountedOnce'
    BY <1>1, <2>1, <2>2, Counted DEF RowsAreKept, RowsCountedOnce
  <2> QED  BY <1>4, <2>1, <2>2, <2>3, <2>4, Counted, SMTT(40) DEF RowsAreKept, MissingAreCounted
<1> QED  BY <1>6, <1>7

\* The rows of a batch are inserted unless their ID has one.
LEMMA InsertKeeps ==
  ASSUME TypeOK
  PROVE  /\ inserted \in [Ids -> Requests \cup {None}]
         /\ \A i \in Ids : rows[i] # None => inserted[i] # None
         /\ \A r \in ToSet(batch) : inserted[req[r].id] # None
<1> USE LogFields
<1> DEFINE new(i) == {k \in DOMAIN batch : req[batch[k]].id = i}
<1>1. \A i : new(i) \in SUBSET Nat /\ \A k \in new(i) : batch[k] \in Requests
  OBVIOUS
<1>2. \A i : new(i) # {} => Min(new(i)) \in new(i)
  BY <1>1, HasLeast
<1> HIDE DEF new
<1>3. \A i \in Ids : inserted[i] = IF rows[i] = None /\ new(i) # {} THEN batch[Min(new(i))] ELSE rows[i]
  BY DEF inserted, new
<1>4. \A i \in Ids : new(i) # {} => inserted[i] \in Requests \cup {None} /\ inserted[i] # None
  BY <1>1, <1>2, <1>3
<1>5. inserted \in [Ids -> Requests \cup {None}]
  <2>1. \A i \in Ids : inserted[i] \in Requests \cup {None}
    BY <1>3, <1>4
  <2> QED  BY <2>1 DEF inserted
<1>6. ASSUME NEW r \in ToSet(batch)  PROVE inserted[req[r].id] # None
  <2>1. PICK k \in 1 .. Len(batch) : batch[k] = r
    BY InSequence
  <2>2. k \in new(req[r].id) /\ req[r].id \in Ids
    BY <2>1 DEF new
  <2> QED  BY <2>2, <1>4
<1> QED  BY <1>3, <1>5, <1>6

LEMMA FlushKeepsRows ==
  ASSUME TypeOK, RowsAreKept, FlushWritten \/ (\E reached \in BOOLEAN : FlushFails(reached)) \/ FlushPanics
  PROVE  RowsAreKept'
<1> USE LogFields, InsertKeeps
<1>1. CASE FlushWritten
  BY <1>1, BatchEnds DEF FlushWritten
<1>2. ASSUME NEW reached \in BOOLEAN, FlushFails(reached)  PROVE RowsAreKept'
  BY <1>2, BatchEnds DEF FlushFails
<1>3. CASE FlushPanics
  BY <1>3, BatchEnds DEF FlushPanics, Batched, database
<1> QED  BY <1>1, <1>2, <1>3

-----------------------------------------------------------------------------
(* Starting and leaving.                                                   *)

LEMMA StartingKeeps ==
  ASSUME GatewayInv, Starting
  PROVE  GatewayInv'
<1> USE DEF Booting, Draining, Stages, Listeners, Resources, PastRouter, Drained, process, logging, judging, database
<1>1. RowsAreKept'
  BY LogKept DEF GatewayInv, Starting, Boot, LoadConfig, SetUpTracing, BuildResilience, OpenPostgres, BuildCache, BuildRouter, BuildQuality, BuildIdentity, BindPublic, BindAdmin, Serve, StartWorkers, Announce
<1>2. TypeOK'
  <2> USE DEF GatewayInv, TypeOK, Boot, Idle, WriterStates
  <2>1. CASE LoadConfig
    BY <2>1 DEF LoadConfig
  <2>2. CASE SetUpTracing
    BY <2>2 DEF SetUpTracing
  <2>3. CASE BuildResilience
    BY <2>3 DEF BuildResilience
  <2>4. CASE OpenPostgres
    BY <2>4 DEF OpenPostgres
  <2>5. CASE BuildCache
    BY <2>5 DEF BuildCache
  <2>6. CASE BuildRouter
    BY <2>6 DEF BuildRouter
  <2>7. CASE BuildQuality
    BY <2>7 DEF BuildQuality
  <2>8. CASE BuildIdentity
    BY <2>8 DEF BuildIdentity
  <2>9. CASE BindPublic
    BY <2>9 DEF BindPublic
  <2>10. CASE BindAdmin
    BY <2>10 DEF BindAdmin
  <2>11. CASE Serve
    BY <2>11 DEF Serve
  <2>12. CASE StartWorkers
    BY <2>12 DEF StartWorkers
  <2>13. CASE Announce
    BY <2>13 DEF Announce
  <2> QED  BY <2>1, <2>2, <2>3, <2>4, <2>5, <2>6, <2>7, <2>8, <2>9, <2>10, <2>11, <2>12, <2>13 DEF Starting
<1>3. BootIsOrdered'
  <2> USE DEF GatewayInv, TypeOK, BootIsOrdered, Boot, Idle
  <2>1. CASE LoadConfig
    BY <2>1 DEF LoadConfig
  <2>2. CASE SetUpTracing
    <3>1. PICK ok \in BOOLEAN : Boot("tracing", ok, "resilience", {"tracing", "redis"})
      BY <2>2 DEF SetUpTracing
    <3> QED  BY <3>1
  <2>3. CASE BuildResilience
    BY <2>3 DEF BuildResilience
  <2>4. CASE OpenPostgres
    BY <2>4 DEF OpenPostgres
  <2>5. CASE BuildCache
    BY <2>5 DEF BuildCache
  <2>6. CASE BuildRouter
    BY <2>6 DEF BuildRouter
  <2>7. CASE BuildQuality
    BY <2>7 DEF BuildQuality
  <2>8. CASE BuildIdentity
    BY <2>8 DEF BuildIdentity
  <2>9. CASE BindPublic
    BY <2>9 DEF BindPublic
  <2>10. CASE BindAdmin
    BY <2>10 DEF BindAdmin
  <2>11. CASE Serve
    BY <2>11, ZenonT(40) DEF Serve
  <2>12. CASE StartWorkers
    BY <2>12 DEF StartWorkers
  <2>13. CASE Announce
    BY <2>13 DEF Announce
  <2> QED  BY <2>1, <2>2, <2>3, <2>4, <2>5, <2>6, <2>7, <2>8, <2>9, <2>10, <2>11, <2>12, <2>13 DEF Starting
<1>4. ShutdownIsOrdered'
  <2> USE DEF GatewayInv, TypeOK, BootIsOrdered, ShutdownIsOrdered, Running, Boot
  <2>1. CASE LoadConfig
    BY <2>1 DEF LoadConfig
  <2>2. CASE SetUpTracing
    BY <2>2 DEF SetUpTracing
  <2>3. CASE BuildResilience
    BY <2>3 DEF BuildResilience
  <2>4. CASE OpenPostgres
    BY <2>4 DEF OpenPostgres
  <2>5. CASE BuildCache
    BY <2>5, ZenonT(40) DEF BuildCache
  <2>6. CASE BuildRouter
    BY <2>6 DEF BuildRouter
  <2>7. CASE BuildQuality
    BY <2>7 DEF BuildQuality
  <2>8. CASE BuildIdentity
    BY <2>8 DEF BuildIdentity
  <2>9. CASE BindPublic
    BY <2>9 DEF BindPublic
  <2>10. CASE BindAdmin
    BY <2>10 DEF BindAdmin
  <2>11. CASE Serve
    BY <2>11 DEF Serve
  <2>12. CASE StartWorkers
    BY <2>12 DEF StartWorkers
  <2>13. CASE Announce
    BY <2>13 DEF Announce
  <2> QED  BY <2>1, <2>2, <2>3, <2>4, <2>5, <2>6, <2>7, <2>8, <2>9, <2>10, <2>11, <2>12, <2>13 DEF Starting
<1> QED  BY <1>1, <1>2, <1>3, <1>4 DEF GatewayInv

LEMMA LeavingKeeps ==
  ASSUME GatewayInv, Leaving
  PROVE  GatewayInv'
<1> USE DEF Booting, Draining, Stages, Listeners, Resources, PastRouter, Drained, process, logging, judging, database
<1> USE DEF Move, Unchanged
<1>1. RowsAreKept'
  BY LogKept DEF GatewayInv, Leaving, StopServing, CloseListeners, Drain, CancelQuality, WaitQuality, CancelLog, WaitLog, ClosePool, Exit
<1>2. TypeOK'
  <2> USE DEF GatewayInv, TypeOK
  <2>1. CASE StopServing
    BY <2>1 DEF StopServing
  <2>2. CASE CloseListeners
    BY <2>2 DEF CloseListeners
  <2>3. CASE Drain
    BY <2>3 DEF Drain
  <2>4. CASE CancelQuality
    BY <2>4 DEF CancelQuality
  <2>5. CASE WaitQuality
    BY <2>5 DEF WaitQuality
  <2>6. CASE CancelLog
    BY <2>6 DEF CancelLog
  <2>7. CASE WaitLog
    BY <2>7 DEF WaitLog
  <2>8. CASE ClosePool
    BY <2>8 DEF ClosePool
  <2>9. CASE Exit
    BY <2>9 DEF Exit
  <2> QED  BY <2>1, <2>2, <2>3, <2>4, <2>5, <2>6, <2>7, <2>8, <2>9 DEF Leaving
<1>3. BootIsOrdered'
  <2> USE DEF GatewayInv, BootIsOrdered
  <2>1. CASE StopServing
    BY <2>1 DEF StopServing
  <2>2. CASE CloseListeners
    BY <2>2 DEF CloseListeners
  <2>3. CASE Drain
    BY <2>3 DEF Drain
  <2>4. CASE CancelQuality
    BY <2>4 DEF CancelQuality
  <2>5. CASE WaitQuality
    BY <2>5 DEF WaitQuality
  <2>6. CASE CancelLog
    BY <2>6 DEF CancelLog
  <2>7. CASE WaitLog
    BY <2>7 DEF WaitLog
  <2>8. CASE ClosePool
    BY <2>8 DEF ClosePool
  <2>9. CASE Exit
    BY <2>9 DEF Exit
  <2> QED  BY <2>1, <2>2, <2>3, <2>4, <2>5, <2>6, <2>7, <2>8, <2>9 DEF Leaving
<1>4. ShutdownIsOrdered'
  <2> USE DEF GatewayInv, TypeOK, BootIsOrdered, ShutdownIsOrdered, Running, Flushing, WriterStates
  <2>1. CASE StopServing
    BY <2>1 DEF StopServing
  <2>2. CASE CloseListeners
    BY <2>2 DEF CloseListeners
  <2>3. CASE Drain
    BY <2>3 DEF Drain
  <2>4. CASE CancelQuality
    BY <2>4 DEF CancelQuality
  <2>5. CASE WaitQuality
    BY <2>5 DEF WaitQuality
  <2>6. CASE CancelLog
    BY <2>6 DEF CancelLog
  <2>7. CASE WaitLog
    BY <2>7 DEF WaitLog
  <2>8. CASE ClosePool
    BY <2>8 DEF ClosePool
  <2>9. CASE Exit
    BY <2>9 DEF Exit
  <2> QED  BY <2>1, <2>2, <2>3, <2>4, <2>5, <2>6, <2>7, <2>8, <2>9 DEF Leaving
<1> QED  BY <1>1, <1>2, <1>3, <1>4 DEF GatewayInv

LEMMA Countdown ==
  ASSUME TypeOK
  PROVE  /\ Fault => faults' \in 0 .. MaxFaults
         /\ reloads > 0 /\ reloads' = reloads - 1 => reloads' \in 0 .. MaxReloads
<1>1. MaxFaults \in Nat /\ MaxReloads \in Nat
  BY GatewayAssumption
<1> QED  BY <1>1 DEF TypeOK, Fault

\* What reaches the process from outside.
LEMMA EventsKeep ==
  ASSUME GatewayInv, Signal \/ (\E l \in Listeners : ListenerFails(l)) \/ (\E file \in Files : Reload(file))
  PROVE  GatewayInv'
<1> USE DEF Booting, Draining, Stages, Listeners, Resources, PastRouter, Drained, process, logging, judging, database
<1>1. RowsAreKept'
  BY LogKept DEF GatewayInv, Signal, ListenerFails, Reload
<1>2. TypeOK'
  <2> USE DEF GatewayInv, TypeOK, Alive
  <2>1. CASE Signal
    BY <2>1 DEF Signal
  <2>2. CASE (\E l \in Listeners : ListenerFails(l))
    BY <2>2, Countdown DEF ListenerFails
  <2>3. CASE (\E file \in Files : Reload(file))
    BY <2>3, Countdown DEF Reload
  <2> QED  BY <2>1, <2>2, <2>3
<1>3. BootIsOrdered'
  <2> USE DEF GatewayInv, BootIsOrdered, Fault, Alive
  <2>1. CASE Signal
    BY <2>1 DEF Signal
  <2>2. CASE (\E l \in Listeners : ListenerFails(l))
    BY <2>2 DEF ListenerFails
  <2>3. CASE (\E file \in Files : Reload(file))
    BY <2>3 DEF Reload
  <2> QED  BY <2>1, <2>2, <2>3
<1>4. ShutdownIsOrdered'
  <2> USE DEF GatewayInv, TypeOK, BootIsOrdered, ShutdownIsOrdered, Running, Fault, Alive
  <2>1. CASE Signal
    BY <2>1 DEF Signal
  <2>2. CASE (\E l \in Listeners : ListenerFails(l))
    BY <2>2 DEF ListenerFails
  <2>3. CASE (\E file \in Files : Reload(file))
    BY <2>3 DEF Reload
  <2> QED  BY <2>1, <2>2, <2>3
<1> QED  BY <1>1, <1>2, <1>3, <1>4 DEF GatewayInv

-----------------------------------------------------------------------------
(* Requests and the two workers.                                           *)

LEMMA RequestKeeps ==
  ASSUME GatewayInv, NEW r \in Requests, Request(r)
  PROVE  GatewayInv'
<1> USE DEF process, logging, judging, database, Running
<1>1. ASSUME NEW id \in Ids, Begin(r, id)  PROVE GatewayInv'
  <2>1. req'[r] = [pc |-> "running", id |-> id] /\ \A q \in Requests \ {r} : req'[q] = req[q]
    BY <1>1, LogFields DEF Begin, GatewayInv
  <2>2. RowsAreKept'
    BY <1>1, <2>1, UnfinishedMoves DEF Begin, GatewayInv
  <2>3. TypeOK'
    BY <1>1 DEF Begin, GatewayInv, TypeOK
  <2>4. BootIsOrdered' /\ ShutdownIsOrdered'
    BY <1>1, <2>1 DEF Begin, GatewayInv, BootIsOrdered, ShutdownIsOrdered, Booting, Drained, TypeOK, Stages
  <2> QED  BY <2>2, <2>3, <2>4 DEF GatewayInv
<1>2. ASSUME NEW kind \in Kinds, Sample(r, kind)  PROVE GatewayInv'
  <2>1. req'[r].pc = "sampled" /\ req[r].pc = "running" /\ \A q \in Requests \ {r} : req'[q] = req[q]
    BY <1>2, LogFields DEF Sample, GatewayInv
  <2>2. RowsAreKept'
    BY <1>2, <2>1, UnfinishedMoves DEF Sample, GatewayInv
  <2>3. samples' \in Seq(Requests) /\ Len(samples') <= SampleQueue
    <3>1. SampleQueue \in Nat
      BY GatewayAssumption
    <3>2. samples' = samples \/ (samples' = Append(samples, r) /\ Len(samples) < SampleQueue)
      BY <1>2 DEF Sample
    <3>3. samples \in Seq(Requests) /\ Len(samples) <= SampleQueue
      BY DEF GatewayInv, TypeOK
    <3> QED  BY <3>1, <3>2, <3>3, BoundedAppend
  <2>4. TypeOK'
    <3>1. req' \in [Requests -> [pc : {"none", "running", "sampled", "finished"}, id : Ids]]
      BY <1>2 DEF Sample, GatewayInv, TypeOK
    <3>2. UNCHANGED <<process, logging, worker, qualityCancelled, database, faults, excuses, lost>>
      BY <1>2 DEF Sample
    <3> QED  BY <2>3, <3>1, <3>2, SMTT(40) DEF GatewayInv, TypeOK
  <2>5. BootIsOrdered' /\ ShutdownIsOrdered'
    BY <1>2, <2>1 DEF Sample, GatewayInv, BootIsOrdered, ShutdownIsOrdered, Booting, Drained, TypeOK, Stages
  <2> QED  BY <2>2, <2>4, <2>5 DEF GatewayInv
<1>3. ASSUME Finish(r)  PROVE GatewayInv'
  <2>1. req'[r].pc = "finished" /\ r \in Running /\ \A q \in Requests \ {r} : req'[q] = req[q]
    BY <1>3, LogFields DEF Finish, GatewayInv
  <2>2. RowsAreKept'
    BY <1>3, FinishKeepsRows DEF GatewayInv
  <2>3. queue' \in Seq(Requests) /\ Len(queue') <= QueueSize /\ counts' \in [{"written", "dropped", "failed"} -> Nat]
    <3>1. QueueSize \in Nat
      BY GatewayAssumption
    <3>2. /\ queue \in Seq(Requests) /\ Len(queue) <= QueueSize
          /\ counts \in [{"written", "dropped", "failed"} -> Nat]
      BY LogFields DEF GatewayInv
    <3>3. \/ queue' = Append(queue, r) /\ Len(queue) < QueueSize /\ counts' = counts
          \/ queue' = queue /\ counts' = [counts EXCEPT !["dropped"] = @ + 1]
      BY <1>3 DEF Finish, Write
    <3>4. queue' \in Seq(Requests) /\ Len(queue') <= QueueSize
      BY <3>1, <3>2, <3>3, BoundedAppend
    <3>5. counts' \in [{"written", "dropped", "failed"} -> Nat]
      BY <3>2, <3>3
    <3> QED  BY <3>4, <3>5
  <2>4. TypeOK'
    BY <1>3, <2>3, ZenonT(40) DEF Finish, GatewayInv, TypeOK
  <2>5. BootIsOrdered' /\ ShutdownIsOrdered'
    BY <1>3, <2>1 DEF Finish, Write, GatewayInv, BootIsOrdered, ShutdownIsOrdered, Booting, Drained, TypeOK, Stages
  <2> QED  BY <2>2, <2>4, <2>5 DEF GatewayInv
<1> QED  BY <1>1, <1>2, <1>3 DEF Request

LEMMA LogWriterKeeps ==
  ASSUME GatewayInv, LogWriter
  PROVE  GatewayInv'
<1> USE DEF process, logging, judging, database, Alive, Flushing, afterFlush, Batched, GatewayInv
<1>1. RowsAreKept'
  <2>1. CASE TickFlush \/ RestartWriter \/ AbandonWriter
    BY <2>1, LogKept DEF TickFlush, RestartWriter, AbandonWriter
  <2> QED  BY <2>1, TakeKeepsRows, FinalFlushKeepsRows, FlushKeepsRows DEF LogWriter
<1>2. TypeOK'
  <2> USE DEF TypeOK, WriterStates
  <2>1. CASE TakeRow
    <3>1. batch' \in Seq(Requests) /\ queue' \in Seq(Requests) /\ Len(queue') <= QueueSize
      <4>1. QueueSize \in Nat
        BY GatewayAssumption
      <4> QED  BY <2>1, <4>1, LogFields DEF TakeRow
    <3> QED  BY <2>1, <3>1 DEF TakeRow
  <2>2. CASE FinalFlush
    <3>1. batch' \in Seq(Requests) /\ queue' \in Seq(Requests) /\ Len(queue') <= QueueSize
      <4>1. QueueSize \in Nat
        BY GatewayAssumption
      <4> QED  BY <2>2, <4>1, LogFields DEF FinalFlush
    <3> QED  BY <2>2, <3>1 DEF FinalFlush
  <2>3. CASE FlushWritten
    BY <2>3, InsertKeeps DEF FlushWritten
  <2>4. ASSUME NEW reached \in BOOLEAN, FlushFails(reached)  PROVE TypeOK'
    <3>1. faults' \in 0 .. MaxFaults
      BY <2>4, Countdown DEF FlushFails
    <3> QED  BY <2>4, <3>1, InsertKeeps DEF FlushFails
  <2>5. CASE FlushPanics
    <3>1. faults' \in 0 .. MaxFaults
      BY <2>5, Countdown DEF FlushPanics
    <3>2. lost' \subseteq Requests
      BY <2>5 DEF FlushPanics, ToSet
    <3> QED  BY <2>5, <3>1, <3>2 DEF FlushPanics
  <2>6. CASE TickFlush \/ RestartWriter \/ AbandonWriter
    BY <2>6 DEF TickFlush, RestartWriter, AbandonWriter
  <2> QED  BY <2>1, <2>2, <2>3, <2>4, <2>5, <2>6 DEF LogWriter
<1>3. /\ UNCHANGED <<env, live, stage, held, ready, serverErrs, logCancelled, req, worker>>
      /\ writer \notin {"off", "done"} /\ writer' # "off"
  BY DEF LogWriter, TakeRow, TickFlush, FinalFlush, FlushWritten, FlushFails, FlushPanics, RestartWriter, AbandonWriter
<1>4. BootIsOrdered'
  BY <1>3 DEF BootIsOrdered, Booting, PastRouter
<1>5. ShutdownIsOrdered'
  <2> USE <1>3 DEF ShutdownIsOrdered, Running, Drained
  <2>1. CASE TakeRow
    BY <2>1 DEF TakeRow
  <2>2. CASE FinalFlush
    BY <2>2 DEF FinalFlush
  <2>3. CASE FlushWritten
    BY <2>3 DEF FlushWritten
  <2>4. ASSUME NEW reached \in BOOLEAN, FlushFails(reached)  PROVE ShutdownIsOrdered'
    BY <2>4 DEF FlushFails
  <2>5. CASE FlushPanics
    BY <2>5 DEF FlushPanics
  <2>6. CASE TickFlush
    BY <2>6 DEF TickFlush
  <2>7. CASE RestartWriter
    BY <2>7 DEF RestartWriter
  <2>8. CASE AbandonWriter
    <3>1. /\ writer = "backoff" /\ writer' = "done" /\ logCancelled /\ UNCHANGED <<queue, batch>>
          /\ excuses' = {} => excuses = {} /\ queue = <<>>
      BY <2>8 DEF AbandonWriter
    <3> QED  BY <3>1
  <2> QED  BY <2>1, <2>2, <2>3, <2>4, <2>5, <2>6, <2>7, <2>8 DEF LogWriter
<1> QED  BY <1>1, <1>2, <1>4, <1>5

\* The quality workers touch nothing of a row but its score.
LEMMA WorkerEffect ==
  ASSUME TypeOK, NEW w \in Workers, QualityWorker(w)
  PROVE  /\ UNCHANGED <<process, req, logging, qualityCancelled, rows, querying, excuses, lost>>
         /\ samples' \in Seq(Requests) /\ Len(samples') <= SampleQueue
         /\ worker' \in [Workers -> [pc : {"off", "idle", "judging", "storing", "backoff", "stopped"},
                                     sample : Requests \cup {None}]]
         /\ \A v \in Workers : worker[v].pc # "off" => worker'[v].pc # "off"
         /\ score' \in [Ids -> 0 .. 5] /\ faults' \in 0 .. MaxFaults
<1> USE DEF process, logging, judging, database, Idle
<1>1. /\ worker \in [Workers -> [pc : {"off", "idle", "judging", "storing", "backoff", "stopped"},
                                 sample : Requests \cup {None}]]
      /\ samples \in Seq(Requests) /\ Len(samples) <= SampleQueue
      /\ score \in [Ids -> 0 .. 5] /\ faults \in 0 .. MaxFaults /\ SampleQueue \in Nat
  BY GatewayAssumption DEF TypeOK
<1>2. CASE Pick(w)
  BY <1>1, <1>2 DEF Pick
<1>3. CASE JudgeFails(w)
  BY <1>1, <1>3, Countdown DEF JudgeFails
<1>4. CASE JudgePanics(w)
  BY <1>1, <1>4, Countdown DEF JudgePanics
<1>5. CASE StoreFails(w)
  BY <1>1, <1>5, Countdown DEF StoreFails
<1>6. CASE RestartWorker(w) \/ StopWorker(w)
  BY <1>1, <1>6, SMTT(40) DEF RestartWorker, StopWorker
<1>7. ASSUME NEW reply \in Replies, Judged(w, reply) \/ StoreScore(w, reply)
      PROVE  /\ UNCHANGED <<process, req, logging, qualityCancelled, rows, querying, excuses, lost, samples, faults>>
             /\ worker' \in [Workers -> [pc : {"off", "idle", "judging", "storing", "backoff", "stopped"},
                                         sample : Requests \cup {None}]]
             /\ \A v \in Workers : worker[v].pc # "off" => worker'[v].pc # "off"
             /\ score' \in [Ids -> 0 .. 5]
  <2>1. parseVerdict(reply) \in 0 .. 5
    <3>1. reply.n \in Int
      BY GatewayAssumption
    <3>2. \A n \in Int : clamp(n) \in 0 .. 5
      BY DEF clamp
    <3> QED  BY <3>1, <3>2 DEF parseVerdict
  <2>2. CASE Judged(w, reply)
    BY <1>1, <2>2 DEF Judged
  <2>3. CASE StoreScore(w, reply)
    BY <1>1, <2>1, <2>3 DEF StoreScore
  <2> QED  BY <1>7, <2>2, <2>3
<1> QED  BY <1>1, <1>2, <1>3, <1>4, <1>5, <1>6, <1>7 DEF QualityWorker

LEMMA QualityWorkerKeeps ==
  ASSUME GatewayInv, NEW w \in Workers, QualityWorker(w)
  PROVE  GatewayInv'
<1>1. /\ UNCHANGED <<process, req, logging, qualityCancelled, rows, querying, excuses, lost>>
      /\ samples' \in Seq(Requests) /\ Len(samples') <= SampleQueue
      /\ worker' \in [Workers -> [pc : {"off", "idle", "judging", "storing", "backoff", "stopped"},
                                  sample : Requests \cup {None}]]
      /\ \A v \in Workers : worker[v].pc # "off" => worker'[v].pc # "off"
      /\ score' \in [Ids -> 0 .. 5] /\ faults' \in 0 .. MaxFaults
  BY WorkerEffect DEF GatewayInv
<1>2. RowsAreKept'
  BY <1>1, LogKept DEF GatewayInv, logging
<1>3. TypeOK'
  BY <1>1 DEF GatewayInv, TypeOK, process, logging
<1>4. BootIsOrdered' /\ ShutdownIsOrdered'
  BY <1>1 DEF GatewayInv, BootIsOrdered, ShutdownIsOrdered, process, logging, Running, Drained, Booting, PastRouter
<1> QED  BY <1>2, <1>3, <1>4 DEF GatewayInv

\* A query of the admin listener holds a connection, and nothing else.
LEMMA AdminKeeps ==
  ASSUME GatewayInv, NEW a \in Admins, Admin(a)
  PROVE  GatewayInv'
<1>1. UNCHANGED <<process, req, logging, judging, rows, score, faults, excuses, lost>>
  BY DEF Admin, Query, QueryEnds
<1>2. querying' \subseteq Admins
  BY DEF Admin, Query, QueryEnds, GatewayInv, TypeOK
<1> USE DEF process, logging, judging
<1>3. RowsAreKept'
  BY <1>1, LogKept DEF GatewayInv
<1>4. TypeOK'
  BY <1>1, <1>2 DEF GatewayInv, TypeOK
<1>5. BootIsOrdered' /\ ShutdownIsOrdered'
  BY <1>1 DEF GatewayInv, BootIsOrdered, ShutdownIsOrdered, Running
<1> QED  BY <1>3, <1>4, <1>5 DEF GatewayInv

-----------------------------------------------------------------------------
LEMMA GatewayInit == Init => GatewayInv
<1> SUFFICES ASSUME Init PROVE GatewayInv
  OBVIOUS
<1>1. TypeOK
  <2>1. MaxFaults \in Nat /\ MaxReloads \in Nat /\ QueueSize \in Nat /\ SampleQueue \in Nat /\ live \in Files
    BY GatewayAssumption DEF Init
  <2>2. /\ worker \in [Workers -> [pc : {"off", "idle", "judging", "storing", "backoff", "stopped"},
                                  sample : Requests \cup {None}]]
        /\ req \in [Requests -> [pc : {"none", "running", "sampled", "finished"}, id : Ids]]
    BY DEF Init, Idle, Ids
  <2>3. /\ queue \in Seq(Requests) /\ batch \in Seq(Requests) /\ samples \in Seq(Requests)
        /\ Len(queue) <= QueueSize /\ Len(samples) <= SampleQueue
    BY <2>1 DEF Init
  <2>4. faults \in 0 .. MaxFaults /\ reloads \in 0 .. MaxReloads /\ score \in [Ids -> 0 .. 5]
    BY <2>1 DEF Init
  <2> QED  BY <2>1, <2>2, <2>3, <2>4 DEF Init, TypeOK, Stages, Booting, WriterStates
<1>2. BootIsOrdered /\ ShutdownIsOrdered
  BY DEF Init, BootIsOrdered, ShutdownIsOrdered, Booting, Draining, PastRouter, Drained, Running
<1>3. Finished = {} /\ Missing = {} /\ IsFiniteSet({}) /\ Cardinality({}) = 0
  BY FS_EmptySet DEF Init, Finished, Missing
<1>4. RowsAreKept
  BY <1>3, EmptySequence DEF Init, RowsAreKept, RowsAreDistinct, RowsCountedOnce, MissingAreCounted
<1> QED  BY <1>1, <1>2, <1>4 DEF GatewayInv

LEMMA GatewayStep == GatewayInv /\ [Next]_vars => GatewayInv'
<1> SUFFICES ASSUME GatewayInv, [Next]_vars PROVE GatewayInv'
  OBVIOUS
<1>1. CASE Next
  BY <1>1, StartingKeeps, LeavingKeeps, EventsKeep, RequestKeeps, LogWriterKeeps, QualityWorkerKeeps, AdminKeeps
     DEF Next, Main
<1>2. CASE UNCHANGED vars
  <2> USE <1>2 DEF vars, process, logging, judging, database
  <2>1. RowsAreKept'
    BY LogKept DEF GatewayInv
  <2>2. TypeOK'
    BY DEF GatewayInv, TypeOK
  <2>3. BootIsOrdered' /\ ShutdownIsOrdered'
    BY DEF GatewayInv, BootIsOrdered, ShutdownIsOrdered, Running
  <2> QED  BY <2>1, <2>2, <2>3 DEF GatewayInv
<1> QED  BY <1>1, <1>2

\* The gateway's inductive invariant: what a boot has reached at each stage, the order of a
\* shutdown, and where the row of every finished request is (run, serve and shutdown of
\* cmd/gateway; Write, loop, flush and finalFlush of logstore.Writer).
THEOREM GatewayCorrect == Spec => []GatewayInv
BY GatewayInit, GatewayStep, PTL DEF Spec

\* /readyz answers 200 only while run() serves, with everything opened that it opens, the
\* log writer started and, when sampling is on, every quality worker too.
THEOREM ReadinessIsEarned == Spec => []ReadyMeansServing
<1>1. GatewayInv => ReadyMeansServing
  BY DEF GatewayInv, BootIsOrdered, ReadyMeansServing, PastRouter, validateRoutingPolicy
<1> QED  BY <1>1, GatewayCorrect, PTL

\* The log writer's metrics account for every finished request exactly once, whatever fails
\* or panics and however full its queue is.
THEOREM EveryRowIsCountedOnce == Spec => []RowsCountedOnce
<1>1. GatewayInv => RowsCountedOnce
  BY DEF GatewayInv, RowsAreKept
<1> QED  BY <1>1, GatewayCorrect, PTL

\* A process that drained its requests and waited for its writer exits with a row for every
\* finished request but those it counted as dropped or failed, and those a panic took.
THEOREM OrderlyExitKeepsRows == Spec => []DrainKeepsRows
<1>1. ASSUME GatewayInv, stage = "exited", excuses = {}
      PROVE  Cardinality({r \in Finished : rows[req[r].id] = None})
               <= counts["dropped"] + counts["failed"] + Cardinality(lost)
  <2>1. writer \in {"off", "done"}
    BY <1>1 DEF GatewayInv, ShutdownIsOrdered
  <2>2. CASE writer = "off"
    <3>1. {r \in Finished : rows[req[r].id] = None} = {}
      BY <1>1, <2>2 DEF GatewayInv, ShutdownIsOrdered, Finished
    <3>2. counts["dropped"] \in Nat /\ counts["failed"] \in Nat /\ Cardinality(lost) \in Nat
      BY <1>1, LogFields, Counted DEF GatewayInv, RowsAreKept
    <3>3. Cardinality({r \in Finished : rows[req[r].id] = None}) = 0
      BY <3>1, FS_EmptySet, Zenon
    <3> QED  BY <3>2, <3>3
  <2>3. CASE writer = "done"
    <3>1. queue = <<>> /\ batch = <<>>
      BY <1>1, <2>3 DEF GatewayInv, ShutdownIsOrdered
    <3>2. {r \in Finished : rows[req[r].id] = None} = Missing
      BY <3>1, EmptySequence DEF Missing
    <3> QED  BY <1>1, <3>2 DEF GatewayInv, RowsAreKept, MissingAreCounted
  <2> QED  BY <2>1, <2>2, <2>3
<1>2. GatewayInv => DrainKeepsRows
  BY <1>1 DEF DrainKeepsRows
<1> QED  BY <1>2, GatewayCorrect, PTL
=============================================================================
