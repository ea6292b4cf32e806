---------------------------- MODULE RequestProofs ----------------------------
(***************************************************************************)
(* Request for every table of models, tiers, teams and asks, every limit   *)
(* on attempts and everything the upstreams may answer: what is settled,   *)
(* what the client is sent, what health hears, and where a request may be  *)
(* routed.                                                                 *)
(***************************************************************************)
EXTENDS Request, TokenBucket, FiniteSetTheorems, WellFoundedInduction, NaturalsInduction, TLAPS

Before == {"auth", "limit", "decode", "route", "authorize", "resolve", "cache"}
Walking == {"walk", "admit", "call", "backoff", "stalled", "exhausted"}
Streaming == {"recv", "silent", "clean"}
Steps == Before \cup {"replay", "tokens", "budget"} \cup Walking \cup Streaming \cup {"store", "unwind", "end"}

-----------------------------------------------------------------------------
(* The ledger: what is reserved is deferred or settled, and the deferred   *)
(* calls have run when the handler has returned.                           *)

LedgerIsSound ==
  /\ held.extra \in Nat
  /\ IsFiniteSet(held.tpm) /\ IsFiniteSet(held.budget)
  /\ pc \in Before \cup {"replay", "tokens"} => defers = {} /\ held.tpm = {}
  /\ pc \in Before \cup {"replay", "tokens", "budget"} => held.budget = {} /\ held.extra = 0
  /\ pc = "budget" => defers = {"tpm"}
  /\ pc \in Walking \cup Streaming \cup {"store"} => defers = {"tpm", "budget"}
  /\ pc = "unwind" => defers \in {{}, {"tpm"}, {"tpm", "budget"}}
  /\ pc = "end" => defers = {}
  /\ "tpm" \in defers => settled.tpm = <<>>
  /\ "tpm" \notin defers => Len(settled.tpm) = Cardinality(held.tpm)
  /\ "budget" \in defers => settled.budget = <<>>
  /\ "budget" \notin defers => Len(settled.budget) = Cardinality(held.budget) /\ settled.extra = held.extra
  /\ \A k \in DOMAIN settled.budget : settled.budget[k] = m.cost
  /\ settled.tpm # <<>> \/ settled.budget # <<>> => pc \in {"unwind", "end"}
  /\ \A r \in row : r.cost = m.cost
  /\ row # {} => pc = "end"

LedgerType ==
  /\ DOMAIN held = {"tpm", "budget", "extra"} /\ DOMAIN settled = {"tpm", "budget", "extra"}
  /\ held = [tpm |-> held.tpm, budget |-> held.budget, extra |-> held.extra]
  /\ settled = [tpm |-> settled.tpm, budget |-> settled.budget, extra |-> settled.extra]

-----------------------------------------------------------------------------
(* Health: one verdict for each call that has ended.                       *)

open == IF pc \in Streaming THEN 1 ELSE 0

VerdictsAreSound ==
  /\ calls \in Nat /\ verdicts \in [ok : Nat, bad : Nat]
  /\ verdicts.ok + verdicts.bad + open <= calls
  /\ ~ gone /\ ~ panicked => verdicts.ok + verdicts.bad + open = calls
  /\ pc \notin {"store", "unwind", "end"} => verdicts.ok = 0 /\ ~ panicked
  /\ pc = "store" => ~ panicked
  /\ verdicts.ok <= 1

-----------------------------------------------------------------------------
(* The response: nothing, or chunks, and then one ending.                  *)

Chunks(w) == \A k \in 1 .. Len(w) : w[k] = "chunk"
Terminated(w, ends) == /\ Len(w) > 0 /\ w[Len(w)] \in ends
                       /\ \A k \in 1 .. Len(w) - 1 : w[k] = "chunk"
Single(w, ones) == Len(w) = 1 /\ w[1] \in ones
PanickedAtEnd(w) == Len(w) > 1 /\ w[Len(w)] = "sse_error" /\ Terminated(Front(w), {"done"})
Replies == ErrorStatuses \cup {"body", "chunk", "done", "sse_error"}

WireIsSound ==
  /\ wire \in Seq(Replies)
  /\ {gone, panicked, wrote, sent} \subseteq BOOLEAN
  /\ ~ wrote => wire = <<>>
  /\ pc \notin {"unwind", "end"} => ~ panicked
  /\ pc \in Before \cup {"tokens", "budget"} \cup Walking => ~ wrote
  /\ pc \in Before => i = 1
  /\ pc = "replay" => i \in 1 .. Pieces + 2 /\ Chunks(wire) /\ (wrote => ctype = "sse")
  /\ pc \in Streaming => Chunks(wire) /\ ctype = "sse" /\ (wrote => sent)
  /\ pc = "store" => \/ wrote /\ ctype = "json" /\ (Single(wire, {"body"}) \/ (gone /\ wire = <<>>))
                     \/ wrote /\ ctype = "sse" /\ (Terminated(wire, {"done"}) \/ (gone /\ Chunks(wire)))
  /\ pc = "unwind" /\ ~ panicked =>
       \/ Single(wire, ErrorStatuses \cup {"body"}) \/ Terminated(wire, {"done", "sse_error"})
       \/ gone /\ Chunks(wire)
  /\ pc = "unwind" /\ panicked /\ wrote =>
       \/ ctype = "json" /\ (Single(wire, {"body"}) \/ (gone /\ wire = <<>>))
       \/ ctype = "sse" /\ (Chunks(wire) \/ Terminated(wire, {"done"}))
  /\ pc = "end" => \/ Single(wire, ErrorStatuses \cup {"body"}) \/ Terminated(wire, {"done", "sse_error"})
                   \/ panicked /\ PanickedAtEnd(wire)
                   \/ gone /\ Chunks(wire)

-----------------------------------------------------------------------------
(* Routing.                                                                *)

WithinPolicy ==
  /\ ~ on.routing \/ ask.model \notin Keywords => model = ask.model
  /\ tier # "" => /\ candidate(model) \in ToSet(tiers[tier])
                  /\ ask.model # AutoModel => tier = ask.model
                  /\ ask.model = AutoModel /\ tier # ask.level =>
                       /\ tier = Complex
                       /\ \A c \in ToSet(tiers[Simple]) : ~ allowed(c)

Unrouted == {"auth", "limit", "decode", "route"}

RoutingIsSound ==
  /\ \E d \in Deployments : tiers = d.tiers
  /\ ask.level \in {Simple, Complex}
  /\ pc \in Unrouted => tier = "" /\ model = ask.model
  /\ pc \in Steps \ (Unrouted \cup {"unwind", "end"}) => WithinPolicy

RequestInv == pc \in Steps /\ LedgerIsSound /\ LedgerType /\ VerdictsAreSound /\ WireIsSound /\ RoutingIsSound

LEMMA SettleAllEffect ==
  ASSUME NEW S, IsFiniteSet(S), NEW v
  PROVE  LET t == <<>> \o settleAll(S, v)
         IN  Len(t) = Cardinality(S) /\ \A k \in DOMAIN t : t[k] = v
<1>1. Cardinality(S) \in Nat
  BY FS_CardinalityType
<1>2. settleAll(S, v) \in Seq({v}) /\ Len(settleAll(S, v)) = Cardinality(S)
  BY <1>1 DEF settleAll
<1> QED  BY <1>2

\* What ReserveTokens does to the ledger.
LEMMA ReserveTokensEffect ==
  ASSUME LedgerType, ReserveTokens
  PROVE  /\ held'.budget = held.budget /\ held'.extra = held.extra
         /\ settled'.budget = settled.budget /\ settled'.extra = settled.extra
         /\ LedgerType' /\ UNCHANGED <<m, row>>
         /\ \/ /\ defers' = {"tpm"} /\ pc' = "budget" /\ settled'.tpm = settled.tpm
               /\ held'.tpm = held.tpm \/ \E x : held'.tpm = {x}
            \/ defers' = defers /\ pc' = "unwind" /\ settled'.tpm = settled.tpm /\ held'.tpm = held.tpm
            \/ /\ defers' = defers /\ pc' = "unwind" /\ settled'.tpm = Append(settled.tpm, 0)
               /\ \E x : held'.tpm = {x}
<1> USE DEF LedgerType, ReserveTokens, Refuse, Say, Goto, outcome
<1>1. CASE defers' = {"tpm"} /\ Goto("budget") /\ UNCHANGED <<held, settled>>
  BY <1>1
<1>2. CASE Refuse("429") /\ UNCHANGED <<held, settled, defers>>
  BY <1>2
<1>3. CASE /\ held' = [held EXCEPT !.tpm = {estimateTokens}] /\ Refuse("429") /\ UNCHANGED defers
           /\ settled' = [settled EXCEPT !.tpm = Append(@, 0)]
  BY <1>3
<1>4. CASE /\ held' = [held EXCEPT !.tpm = {estimateTokens}] /\ defers' = {"tpm"} /\ Goto("budget")
           /\ UNCHANGED settled
  BY <1>4
<1> QED  BY <1>1, <1>2, <1>3, <1>4

\* What a read from the upstream may do: it goes on, with a chunk or without, or it
\* ends the stream; the client hears of it unless it has left.
Speaks(what, type) ==
  /\ wire' = IF gone THEN wire ELSE Append(wire, what)
  /\ wrote' = TRUE /\ ctype' = type

LEMMA ReceiveEffect ==
  ASSUME Receive
  PROVE  /\ pc = "recv" /\ UNCHANGED <<settings, query, walk, m, held, settled, defers, gone, panicked, outcome, calls>>
         /\ \/ pc' \in {"recv", "clean"} /\ UNCHANGED <<sent, reply, verdicts>>
            \/ pc' = "recv" /\ Speaks("chunk", "sse") /\ sent' = TRUE /\ UNCHANGED verdicts
            \/ pc' = "unwind" /\ gone /\ UNCHANGED <<sent, wire, verdicts>> /\ (wrote' = TRUE \/ UNCHANGED reply)
            \/ /\ pc' = "unwind" /\ ~ gone /\ sent' = sent /\ verdicts' = [verdicts EXCEPT !.bad = @ + 1]
               /\ \/ sent /\ Speaks("sse_error", "sse")
                  \/ ~ sent /\ \E e : Speaks(writeProviderError(e), "json")
<1>1. PICK event : ReceiveEvent(event)
  BY DEF Receive
<1>2. pc = "recv" /\ UNCHANGED <<settings, query, walk, m, held, settled, defers, gone, panicked, outcome, calls>>
  BY DEF Receive
<1> DEFINE d == decode(dialect, event, input)
<1>4. CASE Goto("clean") /\ UNCHANGED <<sent, reply, verdicts>>
  BY <1>2, <1>4 DEF reply, Goto
<1>5. CASE StreamFails(d.err) /\ UNCHANGED sent
  BY <1>2, <1>5 DEF StreamFails, Return, Say, Goto, Speaks, reply
<1>6. CASE UNCHANGED <<pc, sent, reply, verdicts>>
  BY <1>2, <1>6 DEF reply
<1>7. CASE Say("chunk", "sse") /\ sent' = TRUE /\ UNCHANGED <<pc, verdicts>>
  BY <1>2, <1>7 DEF Say, Speaks
<1>8. CASE gone /\ pc' = "unwind" /\ wrote' = TRUE /\ UNCHANGED <<sent, wire, ctype, verdicts>>
  BY <1>2, <1>8
<1> HIDE DEF d
<1>9. \/ UNCHANGED <<pc, sent, reply, verdicts>>
      \/ Goto("clean") /\ UNCHANGED <<sent, reply, verdicts>>
      \/ StreamFails(d.err) /\ UNCHANGED sent
      \/ Say("chunk", "sse") /\ sent' = TRUE /\ UNCHANGED <<pc, verdicts>>
      \/ gone /\ pc' = "unwind" /\ wrote' = TRUE /\ UNCHANGED <<sent, wire, ctype, verdicts>>
  BY <1>1 DEF ReceiveEvent, Return, Goto, reply, d
<1> QED  BY <1>4, <1>5, <1>6, <1>7, <1>8, <1>9

LEMMA Shapes ==
  ASSUME NEW w \in Seq(Replies), NEW x \in Replies
  PROVE  /\ Append(w, x) \in Seq(Replies) /\ Chunks(<<>>) /\ <<>> \in Seq(Replies)
         /\ Chunks(w) /\ x = "chunk" => Chunks(Append(w, x))
         /\ \A ends : Chunks(w) /\ x \in ends => Terminated(Append(w, x), ends)
         /\ \A ones : w = <<>> /\ x \in ones => Single(Append(w, x), ones)
         /\ Terminated(w, {"done"}) /\ x = "sse_error" => PanickedAtEnd(Append(w, x))
<1> DEFINE t == Append(w, x)
<1>1. /\ t \in Seq(Replies) /\ Len(t) = Len(w) + 1 /\ Len(w) \in Nat /\ t[Len(t)] = x
      /\ \A k \in 1 .. Len(w) : t[k] = w[k]
  OBVIOUS
<1>2. Front(t) = w
  BY DEF Front
<1>3. Chunks(<<>>)
  BY DEF Chunks
<1>4. w = <<>> => Len(w) = 0
  OBVIOUS
<1>5. <<>> \in Seq(Replies)
  OBVIOUS
<1> HIDE DEF t
<1>6. \A k \in 1 .. Len(t) : k \in 1 .. Len(w) \/ k = Len(t)
  BY <1>1
<1>7. Chunks(w) /\ x = "chunk" => Chunks(t)
  BY <1>1, <1>6 DEF Chunks
<1>8. \A ends : Chunks(w) /\ x \in ends => Terminated(t, ends)
  BY <1>1 DEF Chunks, Terminated
<1>9. \A ones : w = <<>> /\ x \in ones => Single(t, ones)
  BY <1>1, <1>4 DEF Single
<1>10. Terminated(w, {"done"}) /\ x = "sse_error" => PanickedAtEnd(t)
  BY <1>1, <1>2 DEF Terminated, PanickedAtEnd
<1> QED  BY <1>1, <1>3, <1>5, <1>7, <1>8, <1>9, <1>10 DEF t

LEMMA Statuses ==
  /\ writeChainError \in ErrorStatuses
  /\ \A e : writeProviderError(e) \in ErrorStatuses
  /\ ErrorStatuses \subseteq Replies /\ {"body", "chunk", "done", "sse_error"} \subseteq Replies
<1>1. \A kind : statusForKind(kind) \in ErrorStatuses
  BY DEF statusForKind, ErrorStatuses
<1>2. \A e : writeProviderError(e) \in ErrorStatuses
  BY <1>1 DEF writeProviderError, ErrorStatuses
<1>3. writeChainError \in ErrorStatuses
  BY <1>2 DEF writeChainError, ErrorStatuses
<1> QED  BY <1>2, <1>3 DEF Replies

LEMMA StepsKept ==
  ASSUME RequestInv, [Next]_vars
  PROVE  pc' \in Steps
<1> USE DEF query, walk, flow, ledger, reply, outcome, heard, settings, chaos, Before, Walking, Streaming, Steps, RequestInv, vars
<1>1. CASE Auth \/ RateLimit \/ Decode \/ AuthorizeModel
  BY <1>1 DEF Auth, RateLimit, Decode, AuthorizeModel, Refuse, Say, Goto
<1>2. CASE Resolve
  BY <1>2 DEF Resolve, Refuse, Say, Goto
<1>3. CASE Route
  BY <1>3 DEF Route, Routed, Refuse, Say, Goto
<1>4. CASE ConsultCache \/ Replay \/ ReplayCut
  BY <1>4 DEF ConsultCache, Replay, ReplayCut, replayed, Say, Goto
<1>5. CASE ReserveTokens
  BY <1>5 DEF ReserveTokens, Refuse, Say, Goto
<1>6. CASE ReserveBudget
  BY <1>6 DEF ReserveBudget, Refuse, Say, Goto
<1>7. CASE NextCandidate \/ Skip \/ ChaosPanic \/ Retry \/ RetryCut \/ Exhausted \/ OpenStalls
  BY <1>7 DEF NextCandidate, Skip, ChaosPanic, Retry, RetryCut, Exhausted, OpenStalls, MoveOn, Refuse, Say, Goto
<1>8. CASE Admit
  BY <1>8 DEF Admit, Goto
<1>9. CASE ChaosFault \/ ChaosDelayCut \/ CallFails \/ OpenCut
  BY <1>9 DEF ChaosFault, ChaosDelayCut, CallFails, OpenCut, AttemptFails, MoveOn, Goto
<1>10. CASE Complete
  BY <1>10 DEF Complete, Won, Say, Goto
<1>11. CASE Open
  BY <1>11 DEF Open, Won, Goto
<1>12. CASE Receive
  BY <1>12 DEF Receive, ReceiveEvent, StreamFails, Return, Say, Goto
<1>13. CASE ReceiveEnd \/ ReceiveStalls \/ ReceiveCut
  BY <1>13 DEF ReceiveEnd, ReceiveStalls, ReceiveCut, StreamFails, Return, Say, Goto
<1>14. CASE StreamEnds
  BY <1>14 DEF StreamEnds, Return, Say, Goto
<1>15. CASE Store
  BY <1>15 DEF Store, Return, Goto
<1>16. CASE SettleBudget
  BY <1>16 DEF SettleBudget, settleAll
<1>17. CASE SettleTokens
  BY <1>17 DEF SettleTokens, settleAll
<1>18. CASE WriteRow
  BY <1>18 DEF WriteRow, Goto
<1>19. CASE Recover
  BY <1>19 DEF Recover, Say, Goto
<1>20. CASE Panic \/ ClientLeaves \/ PostChaos \/ DeleteChaos
  BY <1>20 DEF Panic, ClientLeaves, PostChaos, DeleteChaos, Goto
<1>21. CASE UNCHANGED vars
  BY <1>21 DEF vars
<1> QED  BY <1>1, <1>2, <1>3, <1>4, <1>5, <1>6, <1>7, <1>8, <1>9, <1>10, <1>11, <1>12, <1>13, <1>14, <1>15, <1>16, <1>17, <1>18, <1>19, <1>20, <1>21 DEF Next, Step

LEMMA LedgerKept ==
  ASSUME RequestInv, [Next]_vars
  PROVE  LedgerIsSound' /\ LedgerType'
<1> USE DEF query, walk, flow, ledger, reply, outcome, heard, settings, chaos, Before, Walking, Streaming, Steps, RequestInv, LedgerIsSound, LedgerType
<1>1. CASE Auth \/ RateLimit \/ Decode \/ AuthorizeModel
  BY <1>1 DEF Auth, RateLimit, Decode, AuthorizeModel, Refuse, Say, Goto
<1>2. CASE Resolve
  BY <1>2 DEF Resolve, Refuse, Say, Goto
<1>3. CASE Route
  BY <1>3 DEF Route, Routed, Refuse, Say, Goto
<1>4. CASE ConsultCache \/ Replay \/ ReplayCut
  BY <1>4 DEF ConsultCache, Replay, ReplayCut, replayed, Say, Goto
<1>5. CASE ReserveTokens
  <2>1. \A x : IsFiniteSet({x}) /\ Cardinality({x}) = 1
    BY FS_Singleton
  <2>2. pc = "tokens" /\ settled.tpm = <<>> /\ Len(Append(<<>>, 0)) = 1 /\ defers = {} /\ held.tpm = {}
    BY <1>5 DEF ReserveTokens
  <2>3. /\ held'.budget = held.budget /\ held'.extra = held.extra /\ settled'.budget = settled.budget
        /\ settled'.extra = settled.extra /\ LedgerType' /\ UNCHANGED <<m, row>>
    BY <1>5, ReserveTokensEffect
  <2>4. CASE defers' = {"tpm"} /\ pc' = "budget" /\ settled'.tpm = settled.tpm /\ held'.tpm = held.tpm
    BY <2>2, <2>3, <2>4
  <2>5. CASE defers' = {"tpm"} /\ pc' = "budget" /\ settled'.tpm = settled.tpm /\ \E x : held'.tpm = {x}
    <3>1. IsFiniteSet(held'.tpm)
      BY <2>1, <2>5, ZenonT(40)
    <3> QED  BY <2>2, <2>3, <2>5, <3>1
  <2>6. CASE defers' = defers /\ pc' = "unwind" /\ settled'.tpm = settled.tpm /\ held'.tpm = held.tpm
    BY <2>2, <2>3, <2>6
  <2>7. CASE /\ defers' = defers /\ pc' = "unwind" /\ settled'.tpm = Append(settled.tpm, 0)
             /\ \E x : held'.tpm = {x}
    <3>1. PICK x : held'.tpm = {x}
      BY <2>7
    <3>2. IsFiniteSet({x}) /\ Cardinality({x}) = 1
      BY <2>1, Zenon
    <3> QED  BY <2>2, <2>3, <2>7, <3>1, <3>2
  <2> QED  BY <2>4, <2>5, <2>6, <2>7, <1>5, ReserveTokensEffect
<1>6. CASE ReserveBudget
  <2>1. \A x : IsFiniteSet({x}) /\ Cardinality({x}) = 1
    BY FS_Singleton
  <2>2. CASE UNCHANGED <<held, defers>> /\ pc' = "unwind"
    BY <2>2, <1>6 DEF ReserveBudget
  <2>3. CASE /\ held' = [held EXCEPT !.budget = {Price[model] * estimateTokens}]
             /\ defers' = defers \cup {"budget"} /\ pc' = "walk"
    <3>1. /\ held'.budget = {Price[model] * estimateTokens} /\ held'.tpm = held.tpm /\ held'.extra = held.extra
          /\ DOMAIN held' = DOMAIN held /\ LedgerType'
      BY <2>3, <1>6 DEF ReserveBudget
    <3>2. pc = "budget" /\ defers' = {"tpm", "budget"} /\ UNCHANGED <<settled, m, row>>
      BY <2>3, <1>6 DEF ReserveBudget
    <3>3. settled.budget = <<>>
      BY <3>2
    <3> QED  BY <2>1, <2>3, <3>1, <3>2, <3>3
  <2> QED  BY <2>2, <2>3, <1>6 DEF ReserveBudget, Refuse, Goto
<1>7. CASE NextCandidate \/ Skip \/ ChaosPanic \/ Retry \/ RetryCut \/ Exhausted \/ OpenStalls
  BY <1>7 DEF NextCandidate, Skip, ChaosPanic, Retry, RetryCut, Exhausted, OpenStalls, MoveOn, Refuse, Say, Goto
<1>8. CASE Admit
  BY <1>8 DEF Admit, Goto
<1>9. CASE ChaosFault \/ ChaosDelayCut \/ CallFails \/ OpenCut
  BY <1>9 DEF ChaosFault, ChaosDelayCut, CallFails, OpenCut, AttemptFails, MoveOn, Goto
<1>10. CASE Complete
  BY <1>10 DEF Complete, Won, Say, Goto
<1>11. CASE Open
  BY <1>11 DEF Open, Won, Goto
<1>12. CASE Receive
  BY <1>12 DEF Receive, ReceiveEvent, StreamFails, Return, Say, Goto
<1>13. CASE ReceiveEnd \/ ReceiveStalls \/ ReceiveCut
  BY <1>13 DEF ReceiveEnd, ReceiveStalls, ReceiveCut, StreamFails, Return, Say, Goto
<1>14. CASE StreamEnds
  BY <1>14 DEF StreamEnds, Return, Say, Goto
<1>15. CASE Store
  BY <1>15 DEF Store, Return, Goto
<1>16. CASE SettleBudget
  <2>1. /\ pc = "unwind" /\ pc' = "unwind" /\ defers = {"tpm", "budget"} /\ defers' = {"tpm"}
        /\ settled.budget = <<>> /\ UNCHANGED <<m, row, held>>
    BY <1>16 DEF SettleBudget
  <2>2. /\ settled'.budget = <<>> \o settleAll(held.budget, m.cost) /\ settled'.tpm = settled.tpm
        /\ settled'.extra = held.extra /\ LedgerType'
    BY <2>1, <1>16 DEF SettleBudget
  <2>3. /\ Len(settled'.budget) = Cardinality(held.budget)
        /\ \A k \in DOMAIN settled'.budget : settled'.budget[k] = m.cost
    BY <2>2, SettleAllEffect
  <2> QED  BY <2>1, <2>2, <2>3
<1>17. CASE SettleTokens
  <2>1. /\ pc = "unwind" /\ pc' = "unwind" /\ defers = {"tpm"} /\ defers' = {}
        /\ settled.tpm = <<>> /\ UNCHANGED <<m, row, held>>
    BY <1>17 DEF SettleTokens
  <2>2. /\ settled'.tpm = <<>> \o settleAll(held.tpm, actual) /\ settled'.budget = settled.budget
        /\ settled'.extra = settled.extra /\ LedgerType'
    BY <2>1, <1>17 DEF SettleTokens
  <2>3. Len(settled'.tpm) = Cardinality(held.tpm)
    BY <2>2, SettleAllEffect
  <2> QED  BY <2>1, <2>2, <2>3
<1>18. CASE WriteRow
  BY <1>18 DEF WriteRow, Goto
<1>19. CASE Recover
  BY <1>19 DEF Recover, Say, Goto
<1>20. CASE Panic \/ ClientLeaves \/ PostChaos \/ DeleteChaos
  BY <1>20 DEF Panic, ClientLeaves, PostChaos, DeleteChaos, Goto
<1>21. CASE UNCHANGED vars
  BY <1>21 DEF vars
<1> QED  BY <1>1, <1>2, <1>3, <1>4, <1>5, <1>6, <1>7, <1>8, <1>9, <1>10, <1>11, <1>12, <1>13, <1>14, <1>15, <1>16, <1>17, <1>18, <1>19, <1>20, <1>21 DEF Next, Step

LEMMA VerdictsKept ==
  ASSUME RequestInv, [Next]_vars
  PROVE  VerdictsAreSound'
<1> USE DEF query, walk, flow, ledger, reply, outcome, heard, settings, chaos, Before, Walking, Streaming, Steps, RequestInv, VerdictsAreSound, open
<1>1. CASE Auth \/ RateLimit \/ Decode \/ AuthorizeModel
  BY <1>1 DEF Auth, RateLimit, Decode, AuthorizeModel, Refuse, Say, Goto
<1>2. CASE Resolve
  BY <1>2 DEF Resolve, Refuse, Say, Goto
<1>3. CASE Route
  BY <1>3 DEF Route, Routed, Refuse, Say, Goto
<1>4. CASE ConsultCache \/ Replay \/ ReplayCut
  BY <1>4 DEF ConsultCache, Replay, ReplayCut, replayed, Say, Goto
<1>5. CASE ReserveTokens
  BY <1>5 DEF ReserveTokens, Refuse, Say, Goto
<1>6. CASE ReserveBudget
  BY <1>6 DEF ReserveBudget, Refuse, Say, Goto
<1>7. CASE NextCandidate \/ Skip \/ ChaosPanic \/ Retry \/ RetryCut \/ Exhausted \/ OpenStalls
  BY <1>7 DEF NextCandidate, Skip, ChaosPanic, Retry, RetryCut, Exhausted, OpenStalls, MoveOn, Refuse, Say, Goto
<1>8. CASE Admit
  BY <1>8 DEF Admit, Goto
<1>9. CASE ChaosFault \/ ChaosDelayCut \/ CallFails \/ OpenCut
  BY <1>9 DEF ChaosFault, ChaosDelayCut, CallFails, OpenCut, AttemptFails, MoveOn, Goto
<1>10. CASE Complete
  BY <1>10 DEF Complete, Won, Say, Goto
<1>11. CASE Open
  BY <1>11 DEF Open, Won, Goto
<1>12. CASE Receive
  <2>1. /\ pc = "recv" /\ UNCHANGED <<calls, gone, panicked>>
        /\ \/ pc' \in {"recv", "clean"} /\ verdicts' = verdicts
           \/ pc' = "unwind" /\ gone /\ verdicts' = verdicts
           \/ pc' = "unwind" /\ verdicts' = [verdicts EXCEPT !.bad = @ + 1]
    BY <1>12, ReceiveEffect
  <2> QED  BY <2>1
<1>13. CASE ReceiveEnd \/ ReceiveStalls \/ ReceiveCut
  BY <1>13 DEF ReceiveEnd, ReceiveStalls, ReceiveCut, StreamFails, Return, Say, Goto
<1>14. CASE StreamEnds
  BY <1>14 DEF StreamEnds, Return, Say, Goto
<1>15. CASE Store
  BY <1>15 DEF Store, Return, Goto
<1>16. CASE SettleBudget
  BY <1>16 DEF SettleBudget, settleAll
<1>17. CASE SettleTokens
  BY <1>17 DEF SettleTokens, settleAll
<1>18. CASE WriteRow
  BY <1>18 DEF WriteRow, Goto
<1>19. CASE Recover
  BY <1>19 DEF Recover, Say, Goto
<1>20. CASE Panic \/ ClientLeaves \/ PostChaos \/ DeleteChaos
  BY <1>20 DEF Panic, ClientLeaves, PostChaos, DeleteChaos, Goto
<1>21. CASE UNCHANGED vars
  BY <1>21 DEF vars
<1> QED  BY <1>1, <1>2, <1>3, <1>4, <1>5, <1>6, <1>7, <1>8, <1>9, <1>10, <1>11, <1>12, <1>13, <1>14, <1>15, <1>16, <1>17, <1>18, <1>19, <1>20, <1>21 DEF Next, Step

Fresh == Before \cup {"tokens", "budget"} \cup Walking

LEMMA FreshMoves ==
  ASSUME WireIsSound, pc \in Fresh, pc' \in Fresh, pc' \in Before => pc \in Before /\ i' = i,
         UNCHANGED <<reply, sent, gone, panicked>>
  PROVE  WireIsSound'
BY DEF WireIsSound, Fresh, Before, Walking, Streaming, reply

LEMMA FreshRefuses ==
  ASSUME WireIsSound, pc \in Fresh, NEW status \in ErrorStatuses, Refuse(status), UNCHANGED <<sent, gone, panicked>>
  PROVE  WireIsSound'
<1>1. /\ wire = <<>> /\ ~ wrote /\ ~ panicked /\ status \in Replies
      /\ wire \in Seq(Replies) /\ {gone, panicked, wrote, sent} \subseteq BOOLEAN
  BY Statuses DEF WireIsSound, Fresh, Before, Walking
<1>2. pc' = "unwind" /\ wrote' = TRUE /\ wire' = IF gone THEN wire ELSE Append(wire, status)
  BY DEF Refuse, Say, Goto
<1>3. /\ wire' \in Seq(Replies)
      /\ Single(wire', ErrorStatuses \cup {"body"}) \/ (gone /\ Chunks(wire'))
  <2>1. status \in ErrorStatuses \cup {"body"}
    OBVIOUS
  <2>2. Append(wire, status) \in Seq(Replies) /\ Single(Append(wire, status), ErrorStatuses \cup {"body"}) /\ Chunks(<<>>)
    BY <1>1, <2>1, Shapes
  <2> QED  BY <1>1, <1>2, <2>2
<1> QED  BY <1>1, <1>2, <1>3 DEF WireIsSound, Before, Walking, Streaming

LEMMA PanicKeepsWire ==
  ASSUME WireIsSound, pc \notin {"unwind", "end"}, pc \in Steps, pc' = "unwind", panicked' = TRUE,
         UNCHANGED <<reply, sent, gone>>
  PROVE  WireIsSound'
<1>1. /\ wire \in Seq(Replies) /\ {gone, wrote, sent} \subseteq BOOLEAN /\ (~ wrote => wire = <<>>)
  BY DEF WireIsSound
<1>2. wrote => \/ ctype = "json" /\ (Single(wire, {"body"}) \/ (gone /\ wire = <<>>))
               \/ ctype = "sse" /\ (Chunks(wire) \/ Terminated(wire, {"done"}))
  BY DEF WireIsSound, Steps, Before, Walking, Streaming
<1> QED  BY <1>1, <1>2 DEF WireIsSound, Before, Walking, Streaming, reply

\* The last thing a request says on its way to its deferred calls.
LEMMA LastWord ==
  ASSUME WireIsSound, pc' = "unwind", ~ panicked, UNCHANGED <<gone, panicked>>, sent' \in BOOLEAN, wrote' = TRUE,
         \/ wire = <<>> /\ \E x \in ErrorStatuses \cup {"body"} : wire' = IF gone THEN wire ELSE Append(wire, x)
         \/ Chunks(wire) /\ \E x \in {"done", "sse_error"} : wire' = IF gone THEN wire ELSE Append(wire, x)
         \/ gone /\ Chunks(wire) /\ wire' = wire
  PROVE  WireIsSound'
<1>1. wire \in Seq(Replies) /\ {gone, panicked} \subseteq BOOLEAN /\ Chunks(<<>>)
  BY Statuses, Shapes DEF WireIsSound
<1>2. CASE wire = <<>> /\ \E x \in ErrorStatuses \cup {"body"} : wire' = IF gone THEN wire ELSE Append(wire, x)
  <2>1. PICK x \in ErrorStatuses \cup {"body"} : wire' = IF gone THEN wire ELSE Append(wire, x)
    BY <1>2
  <2>2. x \in Replies
    BY Statuses
  <2>3. wire' \in Seq(Replies) /\ (Single(wire', ErrorStatuses \cup {"body"}) \/ (gone /\ Chunks(wire')))
    BY <1>1, <1>2, <2>1, <2>2, Shapes
  <2> QED  BY <1>1, <2>3 DEF WireIsSound, Before, Walking, Streaming
<1>3. CASE Chunks(wire) /\ \E x \in {"done", "sse_error"} : wire' = IF gone THEN wire ELSE Append(wire, x)
  <2>1. PICK x \in {"done", "sse_error"} : wire' = IF gone THEN wire ELSE Append(wire, x)
    BY <1>3
  <2>2. x \in Replies
    BY Statuses
  <2>3. wire' \in Seq(Replies) /\ (Terminated(wire', {"done", "sse_error"}) \/ (gone /\ Chunks(wire')))
    BY <1>1, <1>3, <2>1, <2>2, Shapes
  <2> QED  BY <1>1, <2>3 DEF WireIsSound, Before, Walking, Streaming
<1>4. CASE gone /\ Chunks(wire) /\ wire' = wire
  BY <1>1, <1>4 DEF WireIsSound, Before, Walking, Streaming
<1> QED  BY <1>2, <1>3, <1>4

LEMMA ReplayKeepsWire ==
  ASSUME WireIsSound, Replay \/ ReplayCut
  PROVE  WireIsSound'
<1>1. /\ pc = "replay" /\ UNCHANGED <<sent, gone, panicked>> /\ ~ panicked /\ i \in 1 .. 4 /\ Chunks(wire)
      /\ wire \in Seq(Replies) /\ {gone, panicked, sent} \subseteq BOOLEAN
  BY DEF WireIsSound, Replay, ReplayCut, flow, Pieces
<1>2. Len(replayed) = 4 /\ \A k \in 1 .. 4 : replayed[k] = IF k <= 3 THEN "chunk" ELSE "done"
  BY DEF replayed, Pieces
<1>3. CASE Replay /\ i = 4
  <2>1. pc' = "unwind" /\ wrote' = TRUE /\ wire' = IF gone THEN wire ELSE Append(wire, "done")
    BY <1>1, <1>2, <1>3 DEF Replay, Say, Goto
  <2> QED  BY <1>1, <2>1, LastWord
<1>4. CASE Replay /\ i # 4
  <2>1. /\ pc' = "replay" /\ wrote' = TRUE /\ ctype' = "sse" /\ i' = i + 1
        /\ wire' = IF gone THEN wire ELSE Append(wire, "chunk")
    BY <1>1, <1>2, <1>4 DEF Replay, Say, Goto
  <2>2. wire' \in Seq(Replies) /\ Chunks(wire')
    BY <1>1, <2>1, Shapes, Statuses
  <2>3. i' \in 1 .. Pieces + 2
    BY <1>1, <1>4, <2>1 DEF Pieces
  <2> QED  BY <1>1, <2>1, <2>2, <2>3 DEF WireIsSound, Before, Walking, Streaming
<1>5. CASE ReplayCut
  BY <1>1, <1>5 DEF ReplayCut, Goto, reply, WireIsSound, Before, Walking, Streaming
<1> QED  BY <1>3, <1>4, <1>5

LEMMA CacheKeepsWire ==
  ASSUME WireIsSound, ConsultCache
  PROVE  WireIsSound'
<1>1. /\ pc = "cache" /\ i = 1 /\ ~ wrote /\ wire = <<>> /\ ~ panicked /\ UNCHANGED <<i, sent, gone, panicked>>
      /\ {sent, gone, panicked} \subseteq BOOLEAN /\ Chunks(<<>>)
  BY Shapes, Statuses DEF WireIsSound, ConsultCache, Before, walk
<1>2. CASE Goto("tokens") /\ UNCHANGED reply
  BY <1>1, <1>2, FreshMoves DEF Goto, Fresh, Before, Walking
<1>3. CASE Goto("replay") /\ UNCHANGED reply
  BY <1>1, <1>3 DEF WireIsSound, Goto, Before, Walking, Streaming, reply, Pieces
<1>4. CASE Say("body", "json") /\ Goto("unwind")
  BY <1>1, <1>4, LastWord DEF Say, Goto
<1> QED  BY <1>2, <1>3, <1>4 DEF ConsultCache

\* A completion is written, or a stream is opened.
LEMMA CallKeepsWire ==
  ASSUME WireIsSound, Complete \/ Open
  PROVE  WireIsSound'
<1>1. /\ pc = "call" /\ ~ wrote /\ wire = <<>> /\ ~ panicked /\ UNCHANGED <<sent, gone, panicked>>
      /\ wire \in Seq(Replies) /\ {sent, gone, panicked, wrote} \subseteq BOOLEAN /\ Chunks(<<>>) /\ "body" \in Replies
  BY Shapes, Statuses DEF WireIsSound, Complete, Open, flow, Walking
<1>2. CASE Complete
  <2>1. pc' = "store" /\ wrote' = TRUE /\ ctype' = "json" /\ wire' = IF gone THEN wire ELSE Append(wire, "body")
    BY <1>2 DEF Complete, Say, Goto
  <2>2. wire' \in Seq(Replies) /\ (Single(wire', {"body"}) \/ (gone /\ wire' = <<>>))
    BY <1>1, <2>1, Shapes
  <2> QED  BY <1>1, <2>1, <2>2 DEF WireIsSound, Before, Walking, Streaming
<1>3. CASE Open
  <2>1. pc' = "recv" /\ ctype' = "sse" /\ UNCHANGED <<wire, wrote>>
    BY <1>3 DEF Open, Goto
  <2> QED  BY <1>1, <2>1 DEF WireIsSound, Before, Walking, Streaming
<1> QED  BY <1>2, <1>3

\* A failing stream says a status if it has said nothing, else an error event.
LEMMA FailureKeepsWire ==
  ASSUME WireIsSound, pc \in Streaming, NEW e, StreamFails(e), UNCHANGED <<sent, gone, panicked>>
  PROVE  WireIsSound'
<1>1. /\ Chunks(wire) /\ ~ panicked /\ (~ sent => wire = <<>>)
      /\ wire \in Seq(Replies) /\ {sent, gone, panicked, wrote} \subseteq BOOLEAN
  BY DEF WireIsSound, Streaming
<1>2. pc' = "unwind"
  BY DEF StreamFails, Return, Goto
<1>3. CASE gone
  BY <1>1, <1>2, <1>3 DEF StreamFails, WireIsSound, reply, Before, Walking, Streaming
<1>4. CASE ~ gone /\ sent
  BY <1>1, <1>2, <1>4, LastWord DEF StreamFails, Say
<1>5. CASE ~ gone /\ ~ sent
  <2>1. writeProviderError(e) \in ErrorStatuses
    BY Statuses
  <2> QED  BY <1>1, <1>2, <1>5, <2>1, LastWord DEF StreamFails, Say
<1> QED  BY <1>1, <1>3, <1>4, <1>5

LEMMA StreamKeepsWire ==
  ASSUME WireIsSound, Receive \/ ReceiveEnd \/ ReceiveStalls \/ ReceiveCut \/ StreamEnds
  PROVE  WireIsSound'
<1>1. pc \in Streaming /\ UNCHANGED <<gone, panicked>>
  BY ReceiveEffect DEF ReceiveEnd, ReceiveStalls, ReceiveCut, StreamEnds, Streaming
<1>2. /\ Chunks(wire) /\ ~ panicked /\ ctype = "sse" /\ (wrote => sent) /\ (~ wrote => wire = <<>>)
      /\ wire \in Seq(Replies) /\ {sent, gone, panicked, wrote} \subseteq BOOLEAN
  BY <1>1 DEF WireIsSound, Streaming
<1>3. ASSUME pc' \in Streaming, UNCHANGED <<sent, reply>>  PROVE WireIsSound'
  BY <1>1, <1>2, <1>3 DEF WireIsSound, reply, Before, Walking, Streaming
<1>4. CASE Receive
  <2>1. CASE pc' \in {"recv", "clean"} /\ UNCHANGED <<sent, reply>>
    BY <1>3, <2>1 DEF Streaming
  <2>2. CASE pc' = "recv" /\ Speaks("chunk", "sse") /\ sent' = TRUE
    <3>1. wire' \in Seq(Replies) /\ Chunks(wire')
      BY <1>2, <2>2, Shapes, Statuses DEF Speaks
    <3> QED  BY <1>1, <1>2, <2>2, <3>1 DEF WireIsSound, Before, Walking, Streaming, Speaks
  <2>3. CASE pc' = "unwind" /\ gone /\ wire' = wire /\ sent' = sent /\ wrote' = TRUE
    BY <1>1, <1>2, <2>3, LastWord
  <2>4. CASE pc' = "unwind" /\ gone /\ UNCHANGED <<sent, reply>>
    BY <1>1, <1>2, <2>4 DEF WireIsSound, reply, Before, Walking, Streaming
  <2>5. CASE pc' = "unwind" /\ sent /\ sent' = sent /\ Speaks("sse_error", "sse")
    BY <1>1, <1>2, <2>5, LastWord DEF Speaks
  <2>6. CASE pc' = "unwind" /\ ~ sent /\ sent' = sent /\ \E e : Speaks(writeProviderError(e), "json")
    <3>1. PICK e : Speaks(writeProviderError(e), "json")
      BY <2>6
    <3>2. writeProviderError(e) \in ErrorStatuses
      BY Statuses
    <3> QED  BY <1>1, <1>2, <2>6, <3>1, <3>2, LastWord DEF Speaks
  <2> QED  BY <1>4, <2>1, <2>2, <2>3, <2>4, <2>5, <2>6, ReceiveEffect
<1>5. CASE ReceiveEnd
  <2>1. CASE Goto("clean") /\ UNCHANGED reply
    BY <1>3, <1>5, <2>1 DEF ReceiveEnd, Goto, Streaming, flow
  <2>2. CASE StreamFails(Untyped)
    BY <1>1, <1>5, <2>2, FailureKeepsWire DEF ReceiveEnd, flow
  <2> QED  BY <1>5, <2>1, <2>2 DEF ReceiveEnd
<1>6. CASE ReceiveStalls
  BY <1>3, <1>6 DEF ReceiveStalls, Goto, Streaming, flow
<1>7. CASE ReceiveCut
  BY <1>1, <1>7, FailureKeepsWire DEF ReceiveCut, flow
<1>8. CASE StreamEnds
  <2>1. sent' = sent
    BY <1>8 DEF StreamEnds, flow
  <2>2. CASE Say("done", "sse") /\ Goto("store")
    <3>1. pc' = "store" /\ wrote' = TRUE /\ ctype' = "sse" /\ wire' = IF gone THEN wire ELSE Append(wire, "done")
      BY <2>2 DEF Say, Goto
    <3>2. wire' \in Seq(Replies) /\ (Terminated(wire', {"done"}) \/ (gone /\ Chunks(wire')))
      BY <1>2, <3>1, Shapes, Statuses
    <3> QED  BY <1>1, <1>2, <2>1, <3>1, <3>2 DEF WireIsSound, Before, Walking, Streaming
  <2>3. CASE gone /\ wrote' = TRUE /\ Return(text, usage) /\ wire' = wire
    BY <1>1, <1>2, <2>1, <2>3, LastWord DEF Return, Goto
  <2> QED  BY <1>8, <2>2, <2>3 DEF StreamEnds
<1> QED  BY <1>4, <1>5, <1>6, <1>7, <1>8

LEMMA StoreKeepsWire ==
  ASSUME WireIsSound, Store
  PROVE  WireIsSound'
<1>1. pc = "store" /\ pc' = "unwind" /\ UNCHANGED <<reply, sent, gone, panicked>>
  BY DEF Store, Return, Goto, flow
<1>2. \/ Single(wire, {"body"}) \/ Terminated(wire, {"done"}) \/ (gone /\ Chunks(wire)) \/ (gone /\ wire = <<>>)
  BY <1>1 DEF WireIsSound
<1>3. Chunks(<<>>)
  BY DEF Chunks
<1>4. /\ Single(wire, {"body"}) => Single(wire, ErrorStatuses \cup {"body"})
      /\ Terminated(wire, {"done"}) => Terminated(wire, {"done", "sse_error"})
  BY DEF Single, Terminated
<1> QED  BY <1>1, <1>2, <1>3, <1>4 DEF WireIsSound, reply, Before, Walking, Streaming

\* respondToPanic.
LEMMA RecoverKeepsWire ==
  ASSUME WireIsSound, Recover
  PROVE  WireIsSound'
<1>1. /\ pc = "unwind" /\ panicked /\ pc' = "end" /\ UNCHANGED <<sent, gone, panicked>>
      /\ wire \in Seq(Replies) /\ {gone, panicked, sent, wrote} \subseteq BOOLEAN /\ (~ wrote => wire = <<>>)
  BY DEF Recover, WireIsSound, Goto, flow
<1>2. Chunks(<<>>) /\ {"500", "sse_error"} \subseteq Replies /\ "500" \in ErrorStatuses
  <2>1. "500" \in ErrorStatuses
    BY DEF ErrorStatuses
  <2>2. Chunks(<<>>)
    BY DEF Chunks
  <2> QED  BY <2>1, <2>2, Statuses
<1>3. CASE ~ wrote
  <2>1. wrote' = TRUE /\ wire' = IF gone THEN wire ELSE Append(wire, "500")
    BY <1>3 DEF Recover, Say
  <2>2. wire' \in Seq(Replies) /\ (Single(wire', ErrorStatuses \cup {"body"}) \/ (gone /\ Chunks(wire')))
    <3>1. "500" \in ErrorStatuses \cup {"body"} /\ "500" \in Replies
      BY <1>2
    <3>2. Append(wire, "500") \in Seq(Replies) /\ Single(Append(wire, "500"), ErrorStatuses \cup {"body"})
      BY <1>1, <1>3, <3>1, Shapes
    <3> QED  BY <1>1, <1>2, <1>3, <2>1, <3>2
  <2> QED  BY <1>1, <2>1, <2>2 DEF WireIsSound, Before, Walking, Streaming
<1>4. CASE wrote /\ ctype = "sse"
  <2>1. wrote' = TRUE /\ wire' = IF gone THEN wire ELSE Append(wire, "sse_error")
    BY <1>4 DEF Recover, Say
  <2>2. Chunks(wire) \/ Terminated(wire, {"done"})
    BY <1>1, <1>4 DEF WireIsSound
  <2>3. /\ wire' \in Seq(Replies)
        /\ \/ Terminated(wire', {"done", "sse_error"}) \/ PanickedAtEnd(wire') \/ (gone /\ Chunks(wire'))
    <3>1. Terminated(wire, {"done"}) => Terminated(wire, {"done", "sse_error"})
      BY DEF Terminated
    <3> QED  BY <1>1, <1>2, <2>1, <2>2, <3>1, Shapes
  <2> QED  BY <1>1, <2>1, <2>3 DEF WireIsSound, Before, Walking, Streaming
<1>5. CASE wrote /\ ctype # "sse"
  <2>1. wrote' = wrote /\ wire' = wire
    BY <1>5 DEF Recover, reply
  <2>2. Single(wire, {"body"}) \/ (gone /\ wire = <<>>)
    BY <1>1, <1>5 DEF WireIsSound
  <2>3. Single(wire, {"body"}) => Single(wire, ErrorStatuses \cup {"body"})
    BY DEF Single
  <2> QED  BY <1>1, <1>2, <2>1, <2>2, <2>3 DEF WireIsSound, Before, Walking, Streaming
<1> QED  BY <1>3, <1>4, <1>5

LEMMA WireKept ==
  ASSUME RequestInv, [Next]_vars
  PROVE  WireIsSound'
<1> USE DEF query, walk, flow, ledger, reply, outcome, heard, settings, chaos
<1>1. WireIsSound /\ pc \in Steps
  BY DEF RequestInv
<1>2. CASE Auth \/ RateLimit \/ Decode \/ AuthorizeModel \/ Resolve \/ Route \/ ReserveTokens \/ ReserveBudget \/ Exhausted
  <2>1. /\ pc \in Fresh /\ UNCHANGED <<sent, gone, panicked>>
        /\ \/ \E status \in ErrorStatuses : Refuse(status)
           \/ pc' \in Fresh /\ (pc' \in Before => pc \in Before /\ i' = i) /\ UNCHANGED reply
    <3> USE DEF Fresh, Before, Walking, Goto, ErrorStatuses
    <3>1. CASE Auth \/ RateLimit \/ Decode \/ AuthorizeModel
      BY <3>1 DEF Auth, RateLimit, Decode, AuthorizeModel
    <3>2. CASE Resolve \/ Route
      BY <3>2 DEF Resolve, Route, Routed
    <3>3. CASE ReserveTokens \/ ReserveBudget
      BY <3>3 DEF ReserveTokens, ReserveBudget
    <3>4. CASE Exhausted
      <4>1. writeChainError \in ErrorStatuses
        BY Statuses
      <4> QED  BY <3>4, <4>1 DEF Exhausted
    <3> QED  BY <1>2, <3>1, <3>2, <3>3, <3>4
  <2> QED  BY <1>1, <2>1, FreshMoves, FreshRefuses
<1>3. CASE \/ NextCandidate \/ Skip \/ Admit \/ Retry \/ RetryCut \/ OpenStalls
           \/ ChaosFault \/ ChaosDelayCut \/ CallFails \/ OpenCut
  <2>1. pc \in Fresh /\ pc' \in Fresh \ Before /\ UNCHANGED <<reply, sent, gone, panicked>>
    BY <1>3 DEF NextCandidate, Skip, Admit, Retry, RetryCut, OpenStalls, ChaosFault, ChaosDelayCut, CallFails,
                OpenCut, AttemptFails, MoveOn, Goto, Fresh, Before, Walking
  <2> QED  BY <1>1, <2>1, FreshMoves
<1>4. CASE ChaosPanic \/ Panic
  BY <1>1, <1>4, PanicKeepsWire DEF ChaosPanic, Panic, Goto
<1>5. CASE ClientLeaves
  BY <1>1, <1>5 DEF ClientLeaves, WireIsSound, Before, Walking, Streaming
<1>6. CASE SettleBudget \/ SettleTokens \/ PostChaos \/ DeleteChaos \/ UNCHANGED vars
  <2>1. UNCHANGED <<pc, i, reply, sent, gone, panicked>>
    BY <1>6 DEF SettleBudget, SettleTokens, PostChaos, DeleteChaos, vars
  <2> QED  BY <1>1, <2>1 DEF WireIsSound
<1>7. CASE WriteRow
  BY <1>1, <1>7 DEF WriteRow, Goto, WireIsSound, Before, Walking, Streaming
<1> QED  BY <1>1, <1>2, <1>3, <1>4, <1>5, <1>6, <1>7, ReplayKeepsWire, CacheKeepsWire, CallKeepsWire,
            StreamKeepsWire, StoreKeepsWire, RecoverKeepsWire DEF Next, Step

LEMMA HasLeast ==
  ASSUME NEW S \in SUBSET Nat, S # {}
  PROVE  Min(S) \in S /\ \A y \in S : Min(S) <= y
<1>1. IsWellFoundedOn(OpToRel(<, Nat), Nat)
  BY NatLessThanWellFounded
<1>2. PICK x \in S : \A y \in S : ~ (<<y, x>> \in OpToRel(<, Nat))
  BY <1>1, WFMin
<1>3. \A y \in S : ~ (y < x)
  BY <1>2 DEF OpToRel
<1>4. \A y \in S : x <= y
  BY <1>3
<1> QED  BY <1>4 DEF Min

\* What is eligible is in the list, and something is if the team may use any of the list.
LEMMA EligibleIsFair ==
  ASSUME NEW S, NEW list \in Seq(S), NEW up
  PROVE  /\ eligible(list, up) \subseteq DOMAIN list
         /\ eligible(list, up) = {} => \A k \in DOMAIN list : ~ allowed(list[k])
<1>1. eligible(list, up) \subseteq DOMAIN list
  BY DEF eligible
<1>2. ASSUME eligible(list, up) = {}, NEW k \in DOMAIN list, allowed(list[k])
      PROVE  FALSE
  <2> DEFINE same == {j \in DOMAIN list : list[j] = list[k]}
             first == Min(same)
  <2>1. DOMAIN list = 1 .. Len(list) /\ Len(list) \in Nat
    OBVIOUS
  <2>2. same \in SUBSET Nat /\ same # {}
    BY <2>1
  <2>3. first \in same /\ \A j \in same : first <= j
    <3> HIDE DEF same
    <3> QED  BY <2>2, HasLeast
  <2> HIDE DEF first
  <2>4. first \in DOMAIN list /\ list[first] = list[k]
    BY <2>3
  <2>5. \A j \in 1 .. first - 1 : list[j] # list[first]
    <3>1. SUFFICES ASSUME NEW j \in 1 .. first - 1, list[j] = list[first]  PROVE FALSE
      OBVIOUS
    <3>2. j \in 1 .. Len(list) /\ j < first
      BY <2>1, <2>4, <3>1
    <3> QED  BY <2>1, <2>3, <2>4, <3>1, <3>2
  <2> HIDE DEF same
  <2>6. allowed(list[first])
    BY <1>2, <2>4
  <2> QED  BY <1>2, <2>4, <2>5, <2>6 DEF eligible
<1> QED  BY <1>1, <1>2

\* selectCandidate finds a candidate of the tier, and one whenever the team may use any.
LEMMA SelectionIsSound ==
  ASSUME RoutingIsSound, NEW t \in {Simple, Complex}, NEW up, NEW tripped
  PROVE  /\ \A c \in selectCandidate(t, up, tripped) : c \in ToSet(tiers[t]) /\ candidate(c.model) = c
         /\ selectCandidate(t, up, tripped) = {} => \A c \in ToSet(tiers[t]) : ~ allowed(c)
<1> DEFINE Known == {[provider |-> Serves[name], model |-> name] : name \in DOMAIN Serves}
<1>1. tiers[t] \in Seq(Known)
  BY RequestAssumption DEF RoutingIsSound
<1>2. \A c \in Known : candidate(c.model) = c
  BY DEF candidate
<1> DEFINE usable == eligible(tiers[t], up)
           closed == {k \in usable : tiers[t][k].provider \notin tripped}
           preferred == IF closed = {} THEN usable ELSE closed
<1>3. usable \subseteq DOMAIN tiers[t] /\ (usable = {} => \A k \in DOMAIN tiers[t] : ~ allowed(tiers[t][k]))
  BY <1>1, EligibleIsFair
<1> HIDE DEF usable
<1>4. preferred \subseteq usable /\ (preferred = {} => usable = {})
  OBVIOUS
<1>5. selectCandidate(t, up, tripped) = IF preferred = {} THEN {} ELSE {tiers[t][Min(preferred)]}
  BY DEF selectCandidate, usable
<1> HIDE DEF preferred
<1>6. DOMAIN tiers[t] \subseteq Nat /\ \A k \in DOMAIN tiers[t] : tiers[t][k] \in Known /\ tiers[t][k] \in ToSet(tiers[t])
  BY <1>1 DEF ToSet
<1>7. preferred # {} => Min(preferred) \in DOMAIN tiers[t]
  BY <1>3, <1>4, <1>6, HasLeast
<1>8. \A c \in selectCandidate(t, up, tripped) : c \in ToSet(tiers[t]) /\ candidate(c.model) = c
  BY <1>2, <1>5, <1>6, <1>7
<1>9. selectCandidate(t, up, tripped) = {} => \A c \in ToSet(tiers[t]) : ~ allowed(c)
  BY <1>3, <1>4, <1>5 DEF ToSet
<1> QED  BY <1>8, <1>9

LEMMA RoutedKeeps ==
  ASSUME RoutingIsSound, pc = "route", on.routing, Routes(model), NEW up, NEW tripped, Routed(up, tripped),
         UNCHANGED <<settings, team, ask>>
  PROVE  RoutingIsSound'
<1>1. /\ model = ask.model /\ ask.model \in Keywords /\ ask.level \in {Simple, Complex}
      /\ PlanTier \in {Simple, Complex} /\ escalation \subseteq {Complex}
  BY DEF RoutingIsSound, Unrouted, Routes, Keywords, PlanTier, Pinned, escalation, Escalate
<1> DEFINE holds(t) == selectCandidate(t, up, tripped) # {}
           found == IF holds(PlanTier) THEN {PlanTier} ELSE {t \in escalation : holds(t)}
<1>2. CASE pc' = "unwind" /\ UNCHANGED <<model, tier>>
  BY <1>1, <1>2 DEF RoutingIsSound, Unrouted, settings
<1>3. CASE \E t \in found : \E c \in selectCandidate(t, up, tripped) :
             model' = c.model /\ tier' = t /\ pc' = "authorize"
  <2> PICK t \in found : \E c \in selectCandidate(t, up, tripped) :
                            model' = c.model /\ tier' = t /\ pc' = "authorize"
    BY <1>3
  <2>1. PICK c \in selectCandidate(t, up, tripped) : model' = c.model /\ tier' = t /\ pc' = "authorize"
    OBVIOUS
  <2>2. t \in {Simple, Complex} /\ (t = PlanTier \/ (t \in escalation /\ ~ holds(PlanTier)))
    BY <1>1
  <2>3. c \in ToSet(tiers[t]) /\ candidate(c.model) = c
    BY <2>2, SelectionIsSound
  <2>4. ask.model # AutoModel => t = ask.model
    BY <2>2 DEF PlanTier, Pinned, escalation
  <2>5. ask.model = AutoModel /\ t # ask.level => t = Complex /\ \A d \in ToSet(tiers[Simple]) : ~ allowed(d)
    <3>1. SUFFICES ASSUME ask.model = AutoModel, t # ask.level
                   PROVE  t = Complex /\ \A d \in ToSet(tiers[Simple]) : ~ allowed(d)
      OBVIOUS
    <3>2. t \in Escalate(ask.level) /\ selectCandidate(ask.level, up, tripped) = {}
      BY <2>2, <3>1 DEF PlanTier, Pinned, escalation
    <3>3. t = Complex /\ ask.level = Simple
      BY <3>2 DEF Escalate
    <3> QED  BY <3>2, <3>3, SelectionIsSound
  <2>6. UNCHANGED <<on, tiers, team, ask>> /\ \A d : allowed(d)' = allowed(d)
    BY DEF settings, allowed
  <2>7. WithinPolicy'
    BY <1>1, <2>1, <2>3, <2>4, <2>5, <2>6 DEF WithinPolicy, candidate
  <2> QED  BY <1>1, <2>1, <2>6, <2>7 DEF RoutingIsSound, Unrouted
<1> QED  BY <1>2, <1>3 DEF Routed, Refuse, Goto

LEMMA RoutingKept ==
  ASSUME RequestInv, [Next]_vars
  PROVE  RoutingIsSound'
<1> USE DEF query, walk, flow, ledger, reply, outcome, heard, settings, chaos
<1>1. RoutingIsSound /\ pc \in Steps
  BY DEF RequestInv
<1>2. CASE Auth
  BY <1>1, <1>2 DEF Auth, Refuse, Goto, RoutingIsSound, Unrouted
<1>3. CASE Decode
  <2>1. \A a \in Asks : a.level \in {Simple, Complex}
    BY RequestAssumption
  <2> QED  BY <1>1, <1>3, <2>1 DEF Decode, Refuse, Goto, RoutingIsSound, Unrouted
<1>4. CASE Route
  <2>1. pc = "route" /\ UNCHANGED <<settings, team, ask>>
    BY <1>4 DEF Route
  <2>2. CASE on.routing /\ Routes(model)
    BY <1>1, <1>4, <2>1, <2>2, RoutedKeeps DEF Route
  <2>3. CASE ~ (on.routing /\ Routes(model))
    <3>1. pc' = "authorize" /\ UNCHANGED <<model, tier>>
      BY <1>4, <2>3 DEF Route, Goto
    <3> QED  BY <1>1, <2>1, <3>1 DEF RoutingIsSound, Unrouted, WithinPolicy
  <2> QED  BY <2>2, <2>3
<1>5. CASE (Next /\ ~ Auth /\ ~ Decode /\ ~ Route) \/ UNCHANGED vars
  <2>1. /\ UNCHANGED <<settings, query>>
        /\ pc' \in Unrouted => pc \in Unrouted
        /\ pc' \in Steps \ (Unrouted \cup {"unwind", "end"}) => pc \in Steps \ (Unrouted \cup {"unwind", "end"})
    <3> USE DEF Unrouted, Steps, Before, Walking, Streaming, Refuse, Goto
    <3>1. CASE RateLimit \/ AuthorizeModel \/ Resolve \/ ConsultCache \/ Replay \/ ReplayCut \/ ReserveTokens \/ ReserveBudget
      BY <3>1 DEF RateLimit, AuthorizeModel, Resolve, ConsultCache, Replay, ReplayCut, ReserveTokens, ReserveBudget
    <3>2. CASE NextCandidate \/ Skip \/ Admit \/ ChaosPanic \/ Retry \/ RetryCut \/ Exhausted
      BY <3>2 DEF NextCandidate, Skip, Admit, ChaosPanic, Retry, RetryCut, Exhausted, MoveOn
    <3>3. CASE ChaosFault \/ ChaosDelayCut \/ CallFails \/ OpenCut
      BY <3>3 DEF ChaosFault, ChaosDelayCut, CallFails, OpenCut, AttemptFails, MoveOn
    <3>4. CASE Complete \/ Open \/ OpenStalls \/ ReceiveEnd \/ ReceiveStalls \/ ReceiveCut \/ StreamEnds \/ Store
      BY <3>4 DEF Complete, Open, OpenStalls, ReceiveEnd, ReceiveStalls, ReceiveCut, StreamFails, StreamEnds, Store, Return
    <3>5. CASE Receive
      BY <3>5, ReceiveEffect
    <3>6. CASE SettleBudget \/ SettleTokens \/ WriteRow \/ Recover \/ Panic \/ ClientLeaves \/ PostChaos \/ DeleteChaos
      BY <3>6 DEF SettleBudget, SettleTokens, WriteRow, Recover, Panic, ClientLeaves, PostChaos, DeleteChaos
    <3>7. CASE UNCHANGED vars
      BY <1>1, <3>7 DEF vars
    <3> QED  BY <1>5, <3>1, <3>2, <3>3, <3>4, <3>5, <3>6, <3>7 DEF Next, Step
  <2>2. WithinPolicy => WithinPolicy'
    BY <2>1 DEF WithinPolicy, candidate, allowed
  <2> QED  BY <1>1, <2>1, <2>2 DEF RoutingIsSound
<1> QED  BY <1>2, <1>3, <1>4, <1>5

-----------------------------------------------------------------------------
LEMMA RequestInit == Init => RequestInv
<1> SUFFICES ASSUME Init PROVE RequestInv
  OBVIOUS
<1>1. /\ pc = "auth" /\ pc \in Steps /\ pc \in Before /\ pc \notin Walking \cup Streaming /\ pc \in Unrouted
  BY DEF Init, Before, Walking, Streaming, Steps, Unrouted
<1>2. /\ held = [tpm |-> {}, budget |-> {}, extra |-> 0] /\ defers = {} /\ row = {}
      /\ settled = [tpm |-> <<>>, budget |-> <<>>, extra |-> 0]
  BY DEF Init
<1>3. Cardinality({}) = 0 /\ IsFiniteSet({})
  BY FS_EmptySet, Zenon
<1>4. LedgerIsSound /\ LedgerType
  BY <1>1, <1>2, <1>3 DEF LedgerIsSound, LedgerType
<1>5. calls = 0 /\ verdicts = [ok |-> 0, bad |-> 0] /\ panicked = FALSE
  BY DEF Init
<1>6. open = 0
  BY <1>1 DEF open
<1>7. VerdictsAreSound
  BY <1>1, <1>5, <1>6 DEF VerdictsAreSound
<1>8. wire = <<>> /\ wrote = FALSE /\ gone = FALSE /\ sent = FALSE /\ i = 1
  BY DEF Init
<1>9. WireIsSound
  <2>1. {gone, panicked, wrote, sent} \subseteq BOOLEAN
    BY <1>5, <1>8
  <2>2. wire \in Seq(Replies)
    BY <1>8
  <2> QED  BY <1>1, <1>5, <1>8, <2>1, <2>2 DEF WireIsSound
<1>10. RoutingIsSound
  <2>1. /\ \E d \in Deployments : tiers = d.tiers
        /\ ask = NoAsk /\ model = "" /\ tier = ""
    BY DEF Init
  <2>2. ask.level = Simple /\ ask.model = ""
    BY <2>1 DEF NoAsk
  <2> QED  BY <1>1, <2>1, <2>2 DEF RoutingIsSound
<1> QED  BY <1>1, <1>4, <1>7, <1>9, <1>10 DEF RequestInv

LEMMA RequestStep == RequestInv /\ [Next]_vars => RequestInv'
BY StepsKept, LedgerKept, VerdictsKept, WireKept, RoutingKept DEF RequestInv

\* The inductive invariant of a request through ChatCompletions and its middleware.
THEOREM RequestCorrect == Spec => []RequestInv
BY RequestInit, RequestStep, PTL DEF Spec

\* Whatever ends a request (an answer, a refusal, a client that left, a panic anywhere),
\* the deferred calls of ChatCompletions settle each reservation exactly once, and the
\* budget with the cost that the log row shows.
THEOREM EveryReservationIsSettledOnce == Spec => []SettledOnce
<1>1. RequestInv => SettledOnce
  <2> SUFFICES ASSUME RequestInv, pc = "end"
               PROVE  /\ Len(settled.tpm) = Cardinality(held.tpm)
                      /\ Len(settled.budget) = Cardinality(held.budget)
                      /\ settled.extra = held.extra
                      /\ \A r \in row, k \in DOMAIN settled.budget : settled.budget[k] = r.cost
    BY DEF SettledOnce
  <2> QED  BY DEF RequestInv, LedgerIsSound
<1> QED  BY <1>1, RequestCorrect, PTL

\* The health tracker hears of every provider call at most once, of at most one success,
\* and of every call that neither the client nor a panic cut short.
THEOREM HealthHearsEveryCall == Spec => []VerdictPerCall
<1>1. RequestInv => VerdictPerCall
  BY DEF RequestInv, VerdictsAreSound, VerdictPerCall, open, Streaming
<1> QED  BY <1>1, RequestCorrect, PTL

\* A client is told one ending: a status, a body, or chunks and then the terminator or
\* an error event; only a panic after the terminator adds an event behind it.
THEOREM ClientsAreToldOneEnding == Spec => []OneEnding
<1>1. ASSUME RequestInv  PROVE OneEnding
  <2>1. /\ wire \in Seq(Replies) /\ Len(wire) \in Nat /\ DOMAIN wire = 1 .. Len(wire) /\ pc \in Steps
    BY <1>1 DEF RequestInv, WireIsSound
  <2>2. \/ Chunks(wire) \/ Single(wire, ErrorStatuses \cup {"body"}) \/ Terminated(wire, {"done", "sse_error"})
        \/ panicked /\ PanickedAtEnd(wire)
    <3>1. /\ Single(wire, {"body"}) => Single(wire, ErrorStatuses \cup {"body"})
          /\ Terminated(wire, {"done"}) => Terminated(wire, {"done", "sse_error"})
          /\ wire = <<>> => Chunks(wire)
      BY DEF Single, Terminated, Chunks
    <3>2. pc = "unwind" => (panicked \/ ~ panicked) /\ (wrote \/ ~ wrote)
      OBVIOUS
    <3> QED  BY <1>1, <2>1, <3>1, <3>2 DEF RequestInv, WireIsSound, Steps, Before, Walking, Streaming
  <2>3. pc = "end" /\ ~ gone => ~ Chunks(wire) \/ wire # <<>>
    BY <1>1 DEF RequestInv, WireIsSound, Single, Terminated, PanickedAtEnd
  <2> DEFINE EndsOnce(w) == /\ \A k \in DOMAIN w : w[k] \in ErrorStatuses \cup {"body"} => Len(w) = 1
                            /\ \A k \in DOMAIN w : w[k] \in {"done", "sse_error"} => k = Len(w)
             ended(w) == w # <<>> /\ w[Len(w)] # "chunk"
             told == IF panicked /\ Len(wire) > 1 /\ wire[Len(wire)] = "sse_error" /\ wire[Len(wire) - 1] = "done"
                     THEN Front(wire) ELSE wire
  <2>4. "chunk" \notin ErrorStatuses /\ "done" \notin ErrorStatuses /\ "sse_error" \notin ErrorStatuses
    BY DEF ErrorStatuses
  <2>5. ASSUME NEW w \in Seq(Replies),
               Chunks(w) \/ Single(w, ErrorStatuses \cup {"body"}) \/ Terminated(w, {"done", "sse_error"})
        PROVE  EndsOnce(w) /\ (~ Chunks(w) => ended(w))
    <3>1. Len(w) \in Nat /\ DOMAIN w = 1 .. Len(w)
      OBVIOUS
    <3>2. \A k \in 1 .. Len(w) : k = Len(w) \/ k \in 1 .. Len(w) - 1
      <4>1. \A c \in Nat : \A k \in 1 .. c : k = c \/ k \in 1 .. c - 1
        OBVIOUS
      <4> QED  BY <3>1, <4>1
    <3>3. CASE Chunks(w)
      BY <2>4, <3>1, <3>3 DEF Chunks
    <3>4. CASE Single(w, ErrorStatuses \cup {"body"})
      BY <2>4, <3>1, <3>4 DEF Single
    <3>5. CASE Terminated(w, {"done", "sse_error"})
      <4>1. w[Len(w)] \in {"done", "sse_error"} /\ w # <<>> /\ \A k \in 1 .. Len(w) - 1 : w[k] = "chunk"
        BY <3>5 DEF Terminated
      <4>2. \A k \in DOMAIN w : k = Len(w) \/ w[k] = "chunk"
        BY <3>1, <3>2, <4>1
      <4>3. "body" # "done" /\ "body" # "sse_error" /\ "chunk" # "body" /\ "chunk" # "done" /\ "chunk" # "sse_error"
        OBVIOUS
      <4> QED  BY <2>4, <4>1, <4>2, <4>3
    <3> QED  BY <2>5, <3>3, <3>4, <3>5
  <2>6. CASE panicked /\ PanickedAtEnd(wire)
    <3>1. /\ Len(wire) > 1 /\ wire[Len(wire)] = "sse_error" /\ Terminated(Front(wire), {"done"})
      BY <2>6 DEF PanickedAtEnd
    <3>2. Front(wire) \in Seq(Replies) /\ Len(Front(wire)) = Len(wire) - 1 /\ Front(wire)[Len(wire) - 1] = wire[Len(wire) - 1]
      BY <2>1, <3>1 DEF Front
    <3>3. wire[Len(wire) - 1] = "done" /\ told = Front(wire)
      BY <2>6, <3>1, <3>2 DEF Terminated
    <3>4. Terminated(Front(wire), {"done", "sse_error"}) /\ ~ Chunks(Front(wire))
      BY <3>1, <3>2, <2>1 DEF Terminated, Chunks
    <3>5. EndsOnce(told) /\ ended(told)
      BY <2>5, <3>2, <3>3, <3>4
    <3> QED  BY <3>5 DEF OneEnding
  <2>7. CASE ~ (panicked /\ PanickedAtEnd(wire))
    <3>1. Chunks(wire) \/ Single(wire, ErrorStatuses \cup {"body"}) \/ Terminated(wire, {"done", "sse_error"})
      BY <2>2, <2>7
    <3>2. EndsOnce(wire) /\ (~ Chunks(wire) => ended(wire))
      BY <2>1, <2>5, <3>1
    <3>3. told = wire
      <4>1. SUFFICES ASSUME Len(wire) > 1, wire[Len(wire) - 1] = "done"  PROVE FALSE
        OBVIOUS
      <4>2. Len(wire) - 1 \in DOMAIN wire
        BY <2>1, <4>1
      <4> QED  BY <2>1, <3>2, <4>1, <4>2
    <3>4. pc = "end" /\ ~ gone => ~ Chunks(wire)
      BY <1>1, <2>1, <2>7 DEF RequestInv, WireIsSound, Single, Terminated, Chunks, ErrorStatuses
    <3> QED  BY <3>2, <3>3, <3>4 DEF OneEnding
  <2> QED  BY <2>6, <2>7
<1> QED  BY <1>1, RequestCorrect, PTL

\* A model the caller named is never replaced, a tier it named is never left, and "auto"
\* leaves the classifier's tier only upwards, when the team may use nothing in it.
THEOREM RoutingFollowsPolicy == Spec => []RoutedWithinPolicy
<1>1. RequestInv => RoutedWithinPolicy
  BY DEF RequestInv, RoutingIsSound, WithinPolicy, RoutedWithinPolicy, Unrouted, Steps, Before, Walking
<1> QED  BY <1>1, RequestCorrect, PTL
-----------------------------------------------------------------------------
(* The answer: what a stream has brought so far, and what it is charged.   *)

\* The candidate being tried is one of the chain, and some adapter serves it.
Trying == {"admit", "call", "backoff", "stalled"} \cup Streaming

ChainIsKnown ==
  /\ Len(chain) \in Nat /\ DOMAIN chain = 1 .. Len(chain)
  /\ \A k \in DOMAIN chain : chain[k].provider \in Providers
  /\ pc \in {"tokens", "budget"} \cup Walking \cup Streaming => i \in Nat \ {0}
  /\ pc \in Trying => i \in DOMAIN chain

\* textAfter(d)[k + 1]: the bytes that the first k events of d's script bring.
textAfter(d) ==
  CASE d = "openai" -> <<0, 0, 1, 5, 5, 5, 5>>
    [] d = "anthropic" -> <<0, 0, 1, 1, 5, 5, 5>>
    [] d = "gemini" -> <<0, 1, 5>>
    [] d = "ollama" -> <<0, 1, 5, 5>>

\* A count that a provider reports covers the prompt, and the whole answer if it covers
\* any of it.
Covers(reported) ==
  \/ reported = {}
  \/ \E u \in [in : Nat \ {0}, out : Nat] : reported = {u} /\ (u.out = 0 \/ u.out >= Pieces)

\* "stop" has come only with the whole text.
Honest(received, reason) == reason = "" \/ (reason = "stop" /\ received = WholeText)

StreamIsSound(d) ==
  /\ at \in 0 .. Len(Script(d)) /\ text = textAfter(d)[at + 1]
  /\ Honest(text, finish)
  /\ Covers(usage)
  /\ input \in Nat /\ (d = "anthropic" /\ at > 0 => input = 1)

AnswerIsSound ==
  /\ pc \in Fresh => at = 0 /\ input = 0 /\ text = 0 /\ finish = "" /\ usage = {} /\ actual = 0
  /\ pc \in Streaming => ask.stream /\ StreamIsSound(dialect)
  /\ pc = "store" /\ ask.stream => text \in 0 .. WholeText /\ Honest(text, finish) /\ Covers(usage)

NoChunks(w) == \A k \in DOMAIN w : w[k] # "chunk"

\* What is or will be settled with the TPM bucket covers the text, if any was sent.
ChargeIsSound ==
  /\ "cost" \in DOMAIN m /\ actual \in Nat /\ text \in Nat
  /\ \A k \in DOMAIN settled.tpm : settled.tpm[k] \in Nat
  /\ pc \in Streaming \cup {"store"} => calls > 0
  /\ pc = "store" /\ ~ ask.stream => NoChunks(wire)
  /\ calls = 0 => m.cost = 0 /\ actual = 0 /\ \A k \in DOMAIN settled.tpm : settled.tpm[k] = 0
  /\ pc \in {"unwind", "end"} /\ ~ panicked =>
       /\ "tpm" \in defers => NoChunks(wire) \/ actual >= leastCharge(text, usage)
       /\ \A k \in DOMAIN settled.tpm : NoChunks(wire) \/ settled.tpm[k] >= leastCharge(text, usage)

AnswerInv == ChainIsKnown /\ AnswerIsSound /\ ChargeIsSound

\* What may be stored is whole, and stays what it was.
CacheInv ==
  /\ pc = "store" /\ finish = "stop" /\ text > 0 => text = WholeText
  /\ stored => pc \in {"unwind", "end"} /\ text = WholeText /\ finish = "stop"

-----------------------------------------------------------------------------
(* Event by event: what the adapters make of the upstreams' scripts.       *)

\* What event k of d's script does, when decoded with the memory mem.
Brings(d, k, mem) ==
  LET ev == Script(d)[k]
      decoded == decode(d, ev, mem)
      before == textAfter(d)[k]
      after == textAfter(d)[k + 1]
  IN  /\ before \in 0 .. WholeText /\ after \in 0 .. WholeText /\ (before = WholeText => after = WholeText)
      /\ inputAfter(d, ev, mem) = IF d = "anthropic" /\ k = 1 THEN 1 ELSE mem
      /\ decoded.res \in {"skip", "done", "chunk"}
      /\ decoded.res # "chunk" => after = before
      /\ decoded.res = "chunk" => /\ after = before + decoded.text
                                  /\ Honest(after, decoded.finish)
                                  /\ Covers(decoded.usage)

LEMMA CoversWhole == Covers(usageOf(1, Pieces)) /\ Covers(usageOf(1, 0)) /\ Covers({})
<1>1. ASSUME NEW b \in {0, Pieces}  PROVE Covers(usageOf(1, b))
  <2>1. [in |-> 1, out |-> b] \in [in : Nat \ {0}, out : Nat] /\ (b = 0 \/ b >= Pieces)
    BY DEF Pieces
  <2> QED  BY <2>1 DEF Covers, usageOf
<1> QED  BY <1>1 DEF Covers

LEMMA HonestTexts == Honest(0, "") /\ Honest(1, "") /\ Honest(5, "") /\ Honest(5, "stop")
BY DEF Honest, WholeText

LEMMA OpenAIBrings == ASSUME NEW mem \in Nat, NEW k \in 1 .. 6  PROVE Brings("openai", k, mem)
<1>1. CASE k = 1
  <2> DEFINE ev == Event("data", 0, "", 0, 0)
             c == Chunk(0, "", {})
  <2>1. Script("openai")[1] = ev /\ textAfter("openai")[1] = 0 /\ textAfter("openai")[1 + 1] = 0
    BY DEF Script, textAfter
  <2>2. decode("openai", ev, mem) = c /\ inputAfter("openai", ev, mem) = mem
    BY DEF decode, inputAfter, Event, decodeOpenAI, finishOf
  <2>3. c.res = "chunk" /\ c.text = 0 /\ c.finish = "" /\ c.usage = {}
    BY DEF Chunk
  <2>4. Honest(0, c.finish) /\ Covers(c.usage)
    BY <2>3, HonestTexts, CoversWhole, Zenon
  <2>5. c.res = "chunk" /\ c.text = 0
    BY <2>3
  <2> HIDE DEF ev, c
  <2> QED  BY <1>1, <2>1, <2>2, <2>4, <2>5 DEF Brings, WholeText
<1>2. CASE k = 2
  <2> DEFINE ev == Event("data", 1, "", 0, 0)
             c == Chunk(1, "", {})
  <2>1. Script("openai")[2] = ev /\ textAfter("openai")[2] = 0 /\ textAfter("openai")[2 + 1] = 1
    BY DEF Script, textAfter
  <2>2. decode("openai", ev, mem) = c /\ inputAfter("openai", ev, mem) = mem
    BY DEF decode, inputAfter, Event, decodeOpenAI, finishOf
  <2>3. c.res = "chunk" /\ c.text = 1 /\ c.finish = "" /\ c.usage = {}
    BY DEF Chunk
  <2>4. Honest(1, c.finish) /\ Covers(c.usage)
    BY <2>3, HonestTexts, CoversWhole, Zenon
  <2>5. c.res = "chunk" /\ c.text = 1
    BY <2>3
  <2> HIDE DEF ev, c
  <2> QED  BY <1>2, <2>1, <2>2, <2>4, <2>5 DEF Brings, WholeText
<1>3. CASE k = 3
  <2> DEFINE ev == Event("data", 4, "", 0, 0)
             c == Chunk(4, "", {})
  <2>1. Script("openai")[3] = ev /\ textAfter("openai")[3] = 1 /\ textAfter("openai")[3 + 1] = 5
    BY DEF Script, textAfter
  <2>2. decode("openai", ev, mem) = c /\ inputAfter("openai", ev, mem) = mem
    BY DEF decode, inputAfter, Event, decodeOpenAI, finishOf
  <2>3. c.res = "chunk" /\ c.text = 4 /\ c.finish = "" /\ c.usage = {}
    BY DEF Chunk
  <2>4. Honest(5, c.finish) /\ Covers(c.usage)
    BY <2>3, HonestTexts, CoversWhole, Zenon
  <2>5. c.res = "chunk" /\ c.text = 4
    BY <2>3
  <2> HIDE DEF ev, c
  <2> QED  BY <1>3, <2>1, <2>2, <2>4, <2>5 DEF Brings, WholeText
<1>4. CASE k = 4
  <2> DEFINE ev == Event("data", 0, "stop", 0, 0)
             c == Chunk(0, "stop", {})
  <2>1. Script("openai")[4] = ev /\ textAfter("openai")[4] = 5 /\ textAfter("openai")[4 + 1] = 5
    BY DEF Script, textAfter
  <2>2. decode("openai", ev, mem) = c /\ inputAfter("openai", ev, mem) = mem
    BY DEF decode, inputAfter, Event, decodeOpenAI, finishOf, finishReason, oaiFinishReason
  <2>3. c.res = "chunk" /\ c.text = 0 /\ c.finish = "stop" /\ c.usage = {}
    BY DEF Chunk
  <2>4. Honest(5, c.finish) /\ Covers(c.usage)
    BY <2>3, HonestTexts, CoversWhole, Zenon
  <2>5. c.res = "chunk" /\ c.text = 0
    BY <2>3
  <2> HIDE DEF ev, c
  <2> QED  BY <1>4, <2>1, <2>2, <2>4, <2>5 DEF Brings, WholeText
<1>5. CASE k = 5
  <2> DEFINE ev == Event("usage", 0, "", 1, Pieces)
             c == Chunk(0, "", usageOf(1, Pieces))
  <2>1. Script("openai")[5] = ev /\ textAfter("openai")[5] = 5 /\ textAfter("openai")[5 + 1] = 5
    BY DEF Script, textAfter
  <2>2. decode("openai", ev, mem) = c /\ inputAfter("openai", ev, mem) = mem
    BY DEF decode, inputAfter, Event, decodeOpenAI, finishOf
  <2>3. c.res = "chunk" /\ c.text = 0 /\ c.finish = "" /\ c.usage = usageOf(1, Pieces)
    BY DEF Chunk
  <2>4. Honest(5, c.finish) /\ Covers(c.usage)
    BY <2>3, HonestTexts, CoversWhole, Zenon
  <2>5. c.res = "chunk" /\ c.text = 0
    BY <2>3
  <2> HIDE DEF ev, c
  <2> QED  BY <1>5, <2>1, <2>2, <2>4, <2>5 DEF Brings, WholeText
<1>6. CASE k = 6
  <2> DEFINE ev == Event("DONE", 0, "", 0, 0)
             c == Finished
  <2>1. Script("openai")[6] = ev /\ textAfter("openai")[6] = 5 /\ textAfter("openai")[6 + 1] = 5
    BY DEF Script, textAfter
  <2>2. decode("openai", ev, mem) = c /\ inputAfter("openai", ev, mem) = mem
    BY DEF decode, inputAfter, Event, decodeOpenAI
  <2>3. c.res = "done"
    BY DEF Finished
  <2> HIDE DEF ev, c
  <2> QED  BY <1>6, <2>1, <2>2, <2>3 DEF Brings, WholeText
<1> QED  BY <1>1, <1>2, <1>3, <1>4, <1>5, <1>6

LEMMA AnthropicBrings == ASSUME NEW mem \in Nat, NEW k \in 1 .. 6, k > 1 => mem = 1  PROVE Brings("anthropic", k, mem)
<1>1. CASE k = 1
  <2> DEFINE ev == Event("message_start", 0, "", 1, 0)
             c == Skipped
  <2>1. Script("anthropic")[1] = ev /\ textAfter("anthropic")[1] = 0 /\ textAfter("anthropic")[1 + 1] = 0
    BY DEF Script, textAfter
  <2>2. decode("anthropic", ev, mem) = c /\ inputAfter("anthropic", ev, mem) = 1
    BY DEF decode, inputAfter, Event, decodeAnthropic
  <2>3. c.res = "skip"
    BY DEF Skipped
  <2> HIDE DEF ev, c
  <2> QED  BY <1>1, <2>1, <2>2, <2>3 DEF Brings, WholeText
<1>2. CASE k = 2
  <2> DEFINE ev == Event("content_block_delta", 1, "", 0, 0)
             c == Chunk(1, "", {})
  <2>1. Script("anthropic")[2] = ev /\ textAfter("anthropic")[2] = 0 /\ textAfter("anthropic")[2 + 1] = 1
    BY DEF Script, textAfter
  <2>2. decode("anthropic", ev, mem) = c /\ inputAfter("anthropic", ev, mem) = mem
    BY DEF decode, inputAfter, Event, decodeAnthropic
  <2>3. c.res = "chunk" /\ c.text = 1 /\ c.finish = "" /\ c.usage = {}
    BY DEF Chunk
  <2>4. Honest(1, c.finish) /\ Covers(c.usage)
    BY <2>3, HonestTexts, CoversWhole, Zenon
  <2>5. c.res = "chunk" /\ c.text = 1
    BY <2>3
  <2> HIDE DEF ev, c
  <2> QED  BY <1>2, <2>1, <2>2, <2>4, <2>5 DEF Brings, WholeText
<1>3. CASE k = 3
  <2> DEFINE ev == Event("ping", 0, "", 0, 0)
             c == Skipped
  <2>1. Script("anthropic")[3] = ev /\ textAfter("anthropic")[3] = 1 /\ textAfter("anthropic")[3 + 1] = 1
    BY DEF Script, textAfter
  <2>2. decode("anthropic", ev, mem) = c /\ inputAfter("anthropic", ev, mem) = mem
    BY DEF decode, inputAfter, Event, decodeAnthropic
  <2>3. c.res = "skip"
    BY DEF Skipped
  <2> HIDE DEF ev, c
  <2> QED  BY <1>3, <2>1, <2>2, <2>3 DEF Brings, WholeText
<1>4. CASE k = 4
  <2> DEFINE ev == Event("content_block_delta", 4, "", 0, 0)
             c == Chunk(4, "", {})
  <2>1. Script("anthropic")[4] = ev /\ textAfter("anthropic")[4] = 1 /\ textAfter("anthropic")[4 + 1] = 5
    BY DEF Script, textAfter
  <2>2. decode("anthropic", ev, mem) = c /\ inputAfter("anthropic", ev, mem) = mem
    BY DEF decode, inputAfter, Event, decodeAnthropic
  <2>3. c.res = "chunk" /\ c.text = 4 /\ c.finish = "" /\ c.usage = {}
    BY DEF Chunk
  <2>4. Honest(5, c.finish) /\ Covers(c.usage)
    BY <2>3, HonestTexts, CoversWhole, Zenon
  <2>5. c.res = "chunk" /\ c.text = 4
    BY <2>3
  <2> HIDE DEF ev, c
  <2> QED  BY <1>4, <2>1, <2>2, <2>4, <2>5 DEF Brings, WholeText
<1>5. CASE k = 5
  <2> DEFINE ev == Event("message_delta", 0, "end_turn", 0, Pieces)
             c == Chunk(0, "stop", usageOf(1, Pieces))
  <2>1. Script("anthropic")[5] = ev /\ textAfter("anthropic")[5] = 5 /\ textAfter("anthropic")[5 + 1] = 5
    BY DEF Script, textAfter
  <2>2. decode("anthropic", ev, mem) = c /\ inputAfter("anthropic", ev, mem) = mem
    BY <1>5 DEF decode, inputAfter, Event, decodeAnthropic, finishOf, finishReason, anthropicFinishReason
  <2>3. c.res = "chunk" /\ c.text = 0 /\ c.finish = "stop" /\ c.usage = usageOf(1, Pieces)
    BY DEF Chunk
  <2>4. Honest(5, c.finish) /\ Covers(c.usage)
    BY <2>3, HonestTexts, CoversWhole, Zenon
  <2>5. c.res = "chunk" /\ c.text = 0
    BY <2>3
  <2> HIDE DEF ev, c
  <2> QED  BY <1>5, <2>1, <2>2, <2>4, <2>5 DEF Brings, WholeText
<1>6. CASE k = 6
  <2> DEFINE ev == Event("message_stop", 0, "", 0, 0)
             c == Finished
  <2>1. Script("anthropic")[6] = ev /\ textAfter("anthropic")[6] = 5 /\ textAfter("anthropic")[6 + 1] = 5
    BY DEF Script, textAfter
  <2>2. decode("anthropic", ev, mem) = c /\ inputAfter("anthropic", ev, mem) = mem
    BY DEF decode, inputAfter, Event, decodeAnthropic
  <2>3. c.res = "done"
    BY DEF Finished
  <2> HIDE DEF ev, c
  <2> QED  BY <1>6, <2>1, <2>2, <2>3 DEF Brings, WholeText
<1> QED  BY <1>1, <1>2, <1>3, <1>4, <1>5, <1>6

LEMMA GeminiBrings == ASSUME NEW mem \in Nat, NEW k \in 1 .. 2  PROVE Brings("gemini", k, mem)
<1>1. CASE k = 1
  <2> DEFINE ev == Event("data", 1, "", 1, 0)
             c == Chunk(1, "", usageOf(1, 0))
  <2>1. Script("gemini")[1] = ev /\ textAfter("gemini")[1] = 0 /\ textAfter("gemini")[1 + 1] = 1
    BY DEF Script, textAfter
  <2>2. decode("gemini", ev, mem) = c /\ inputAfter("gemini", ev, mem) = mem
    BY DEF decode, inputAfter, Event, decodeGemini, finishOf
  <2>3. c.res = "chunk" /\ c.text = 1 /\ c.finish = "" /\ c.usage = usageOf(1, 0)
    BY DEF Chunk
  <2>4. Honest(1, c.finish) /\ Covers(c.usage)
    BY <2>3, HonestTexts, CoversWhole, Zenon
  <2>5. c.res = "chunk" /\ c.text = 1
    BY <2>3
  <2> HIDE DEF ev, c
  <2> QED  BY <1>1, <2>1, <2>2, <2>4, <2>5 DEF Brings, WholeText
<1>2. CASE k = 2
  <2> DEFINE ev == Event("data", 4, "STOP", 1, Pieces)
             c == Chunk(4, "stop", usageOf(1, Pieces))
  <2>1. Script("gemini")[2] = ev /\ textAfter("gemini")[2] = 1 /\ textAfter("gemini")[2 + 1] = 5
    BY DEF Script, textAfter
  <2>2. decode("gemini", ev, mem) = c /\ inputAfter("gemini", ev, mem) = mem
    BY DEF decode, inputAfter, Event, decodeGemini, finishOf, finishReason, geminiFinishReason
  <2>3. c.res = "chunk" /\ c.text = 4 /\ c.finish = "stop" /\ c.usage = usageOf(1, Pieces)
    BY DEF Chunk
  <2>4. Honest(5, c.finish) /\ Covers(c.usage)
    BY <2>3, HonestTexts, CoversWhole, Zenon
  <2>5. c.res = "chunk" /\ c.text = 4
    BY <2>3
  <2> HIDE DEF ev, c
  <2> QED  BY <1>2, <2>1, <2>2, <2>4, <2>5 DEF Brings, WholeText
<1> QED  BY <1>1, <1>2

LEMMA OllamaBrings == ASSUME NEW mem \in Nat, NEW k \in 1 .. 3  PROVE Brings("ollama", k, mem)
<1>1. CASE k = 1
  <2> DEFINE ev == Event("line", 1, "", 0, 0)
             c == Chunk(1, "", {})
  <2>1. Script("ollama")[1] = ev /\ textAfter("ollama")[1] = 0 /\ textAfter("ollama")[1 + 1] = 1
    BY DEF Script, textAfter
  <2>2. decode("ollama", ev, mem) = c /\ inputAfter("ollama", ev, mem) = mem
    BY DEF decode, inputAfter, Event, decodeOllama
  <2>3. c.res = "chunk" /\ c.text = 1 /\ c.finish = "" /\ c.usage = {}
    BY DEF Chunk
  <2>4. Honest(1, c.finish) /\ Covers(c.usage)
    BY <2>3, HonestTexts, CoversWhole, Zenon
  <2>5. c.res = "chunk" /\ c.text = 1
    BY <2>3
  <2> HIDE DEF ev, c
  <2> QED  BY <1>1, <2>1, <2>2, <2>4, <2>5 DEF Brings, WholeText
<1>2. CASE k = 2
  <2> DEFINE ev == Event("line", 4, "", 0, 0)
             c == Chunk(4, "", {})
  <2>1. Script("ollama")[2] = ev /\ textAfter("ollama")[2] = 1 /\ textAfter("ollama")[2 + 1] = 5
    BY DEF Script, textAfter
  <2>2. decode("ollama", ev, mem) = c /\ inputAfter("ollama", ev, mem) = mem
    BY DEF decode, inputAfter, Event, decodeOllama
  <2>3. c.res = "chunk" /\ c.text = 4 /\ c.finish = "" /\ c.usage = {}
    BY DEF Chunk
  <2>4. Honest(5, c.finish) /\ Covers(c.usage)
    BY <2>3, HonestTexts, CoversWhole, Zenon
  <2>5. c.res = "chunk" /\ c.text = 4
    BY <2>3
  <2> HIDE DEF ev, c
  <2> QED  BY <1>2, <2>1, <2>2, <2>4, <2>5 DEF Brings, WholeText
<1>3. CASE k = 3
  <2> DEFINE ev == Event("done", 0, "stop", 1, Pieces)
             c == Chunk(0, "stop", usageOf(1, Pieces))
  <2>1. Script("ollama")[3] = ev /\ textAfter("ollama")[3] = 5 /\ textAfter("ollama")[3 + 1] = 5
    BY DEF Script, textAfter
  <2>2. decode("ollama", ev, mem) = c /\ inputAfter("ollama", ev, mem) = mem
    BY DEF decode, inputAfter, Event, decodeOllama, ollamaFinishReason
  <2>3. c.res = "chunk" /\ c.text = 0 /\ c.finish = "stop" /\ c.usage = usageOf(1, Pieces)
    BY DEF Chunk
  <2>4. Honest(5, c.finish) /\ Covers(c.usage)
    BY <2>3, HonestTexts, CoversWhole, Zenon
  <2>5. c.res = "chunk" /\ c.text = 0
    BY <2>3
  <2> HIDE DEF ev, c
  <2> QED  BY <1>3, <2>1, <2>2, <2>4, <2>5 DEF Brings, WholeText
<1> QED  BY <1>1, <1>2, <1>3

LEMMA ScriptBrings ==
  ASSUME NEW d \in Dialects, NEW mem \in Nat, NEW k \in 1 .. Len(Script(d)), d = "anthropic" /\ k > 1 => mem = 1
  PROVE  Brings(d, k, mem)
<1>1. CASE d = "openai"
  <2>1. Len(Script(d)) = 6
    BY <1>1 DEF Script
  <2> QED  BY <1>1, <2>1, OpenAIBrings
<1>2. CASE d = "anthropic"
  <2>1. Len(Script(d)) = 6
    BY <1>2 DEF Script
  <2> QED  BY <1>2, <2>1, AnthropicBrings
<1>3. CASE d = "gemini"
  <2>1. Len(Script(d)) = 2
    BY <1>3 DEF Script
  <2> QED  BY <1>3, <2>1, GeminiBrings
<1>4. CASE d = "ollama"
  <2>1. Len(Script(d)) = 3
    BY <1>4 DEF Script
  <2> QED  BY <1>4, <2>1, OllamaBrings
<1> QED  BY <1>1, <1>2, <1>3, <1>4 DEF Dialects

\* An error event or garbage ends the stream or brings nothing.
LEMMA BrokenBrings ==
  ASSUME NEW d \in Dialects, NEW mem, NEW ev \in broken
  PROVE  LET decoded == decode(d, ev, mem)
         IN  /\ inputAfter(d, ev, mem) = mem
             /\ decoded.res \in {"skip", "fail", "chunk"}
             /\ decoded.res = "chunk" => decoded.text = 0 /\ decoded.finish = "" /\ decoded.usage = {}
<1>1. PICK type \in {"error", "malformed", "blocked"} : ev = Event(type, 0, "", 0, 0)
  BY DEF broken
<1>2. ev.type = type /\ ev.text = 0 /\ ev.stop = "" /\ ev.in = 0 /\ ev.out = 0
  BY <1>1 DEF Event
<1> USE DEF decode, inputAfter, Skipped, Failed, Chunk, finishOf
<1>3. CASE d = "openai"
  BY <1>2, <1>3 DEF decodeOpenAI
<1>4. CASE d = "anthropic"
  BY <1>2, <1>4 DEF decodeAnthropic
<1>5. CASE d = "gemini"
  BY <1>2, <1>5 DEF decodeGemini
<1>6. CASE d = "ollama"
  BY <1>2, <1>6 DEF decodeOllama
<1> QED  BY <1>3, <1>4, <1>5, <1>6 DEF Dialects

LEMMA ContentIsCounted == ASSUME NEW received \in 0 .. WholeText  PROVE contentTokens(received) \in 0 .. Pieces
BY DEF contentTokens, charsPerToken, WholeText, Pieces

\* streamChatCompletions returns no less than what is owed for what was received.
LEMMA StreamedCovers ==
  ASSUME NEW received \in 0 .. WholeText, NEW reported, Covers(reported)
  PROVE  streamedTokens(received, reported) \in Nat /\ streamedTokens(received, reported) >= leastCharge(received, reported)
<1>0. contentTokens(received) \in 0 .. Pieces /\ received \in Nat /\ Pieces = 2
  BY ContentIsCounted DEF WholeText, Pieces
<1>1. CASE reported = {}
  BY <1>0, <1>1 DEF streamedTokens, leastCharge, PromptOnly, estimateInputTokens
<1>2. CASE reported # {}
  <2>1. PICK u \in [in : Nat \ {0}, out : Nat] : reported = {u} /\ (u.out = 0 \/ u.out >= Pieces)
    BY <1>2 DEF Covers
  <2>2. (CHOOSE v \in reported : TRUE) = u
    BY <2>1
  <2>3. u.in \in Nat \ {0} /\ u.out \in Nat
    OBVIOUS
  <2>4. streamedTokens(received, reported) = u.in + u.out
    BY <1>2, <2>1, <2>2, <2>3 DEF streamedTokens
  <2>5. PromptOnly(reported) <=> u.out = 0
    BY <2>1, <2>3 DEF PromptOnly
  <2> QED  BY <1>0, <2>1, <2>3, <2>4, <2>5 DEF leastCharge, estimateInputTokens
<1> QED  BY <1>1, <1>2
-----------------------------------------------------------------------------
(* The chain consists of candidates that some provider serves.             *)

LEMMA ChainIsServed ==
  ASSUME RoutingIsSound, model \in DOMAIN Serves, NEW up, NEW degraded, NEW c \in chainFor(up, degraded)
  PROVE  Len(c) \in Nat /\ DOMAIN c = 1 .. Len(c) /\ \A k \in DOMAIN c : c[k].provider \in Providers
<1> DEFINE Known == {[provider |-> Serves[name], model |-> name] : name \in DOMAIN Serves}
<1>1. \A t \in DOMAIN tiers : tiers[t] \in Seq(Known)
  BY RequestAssumption DEF RoutingIsSound
<1>2. requested \in Known
  BY DEF requested, candidate
<1>3. TierFor(model) \in Seq(Known)
  <2> DEFINE containing == {t \in DOMAIN tiers : candidate(model) \in ToSet(tiers[t])}
             chosen == CHOOSE t \in containing : TRUE
  <2>1. TierFor(model) = IF containing = {} THEN <<>> ELSE tiers[chosen]
    BY DEF TierFor
  <2>2. containing # {} => chosen \in DOMAIN tiers
    <3>1. containing # {} => chosen \in containing
      <4> HIDE DEF containing
      <4> QED  OBVIOUS
    <3> QED  BY <3>1
  <2> HIDE DEF containing, chosen, Known
  <2>3. <<>> \in Seq(Known)
    OBVIOUS
  <2> QED  BY <1>1, <2>1, <2>2, <2>3
<1>4. \A x \in Known : x.provider \in Providers
  <2>1. \A name \in DOMAIN Serves : Serves[name] \in Providers
    BY RequestAssumption
  <2> QED  BY <2>1
<1> HIDE DEF Known
<1>5. options \in Seq(Known)
  BY <1>2, <1>3 DEF options
<1>6. DOMAIN options = 1 .. Len(options) /\ Len(options) \in Nat /\ \A k \in DOMAIN options : options[k] \in Known
  BY <1>5
<1> DEFINE S == eligible(options, up)
<1>7. S \subseteq DOMAIN options
  BY <1>5, EligibleIsFair
<1>8. PICK places \in Banded(options, S, degraded) : c = [k \in DOMAIN places |-> options[places[k]]]
  BY DEF chainFor, BuildChain
<1> HIDE DEF S
<1>9. Cardinality(S) \in Nat
  <2>1. IsFiniteSet(1 .. Len(options))
    BY <1>6, FS_Interval
  <2>2. IsFiniteSet(S)
    BY <1>6, <1>7, <2>1, FS_Subset
  <2> QED  BY <2>2, FS_CardinalityType
<1>10. places \in [1 .. Cardinality(S) -> S]
  BY DEF Banded
<1>11. DOMAIN c = 1 .. Cardinality(S) /\ \A k \in DOMAIN c : c[k] \in Known
  BY <1>6, <1>7, <1>8, <1>10
<1>12. c \in Seq(Known)
  BY <1>8, <1>9, <1>10, <1>11
<1> QED  BY <1>4, <1>11, <1>12

LEMMA ChainKept ==
  ASSUME RequestInv, ChainIsKnown, [Next]_vars
  PROVE  ChainIsKnown'
<1> USE DEF query, walk, flow, ledger, reply, outcome, heard, settings, chaos, Before, Walking, Streaming, Trying, Steps
<1>1. WireIsSound /\ RoutingIsSound /\ pc \in Steps
  BY DEF RequestInv
<1>2. ChainIsKnown /\ (pc \in Before => i = 1)
  BY <1>1 DEF WireIsSound
<1>3. CASE Resolve
  <2>1. CASE UNCHANGED chain
    BY <1>2, <1>3, <2>1 DEF Resolve, Refuse, Goto, ChainIsKnown
  <2>2. CASE model \in DOMAIN Serves /\ \E up, degraded : chain' \in chainFor(up, degraded)
    <3>1. Len(chain') \in Nat /\ DOMAIN chain' = 1 .. Len(chain') /\ \A k \in DOMAIN chain' : chain'[k].provider \in Providers
      BY <1>1, <2>2, ChainIsServed
    <3>2. pc' \in {"unwind", "cache"}
      BY <1>3 DEF Resolve, Refuse, Goto
    <3> QED  BY <3>1, <3>2 DEF ChainIsKnown
  <2> QED  BY <1>3, <2>1, <2>2 DEF Resolve
<1>4. CASE Auth \/ RateLimit \/ Decode \/ AuthorizeModel \/ Route
  BY <1>2, <1>4 DEF Auth, RateLimit, Decode, AuthorizeModel, Route, Routed, Refuse, Goto, ChainIsKnown
<1>5. CASE ConsultCache \/ Replay \/ ReplayCut \/ ReserveTokens \/ ReserveBudget
  BY <1>2, <1>5 DEF ConsultCache, Replay, ReplayCut, ReserveTokens, ReserveBudget, Refuse, Goto, ChainIsKnown
<1>6. CASE NextCandidate \/ Skip \/ Admit \/ ChaosPanic \/ Retry \/ RetryCut \/ Exhausted
  BY <1>2, <1>6 DEF NextCandidate, Skip, Admit, ChaosPanic, Retry, RetryCut, Exhausted, MoveOn, Refuse, Goto, ChainIsKnown
<1>7. CASE ChaosFault \/ ChaosDelayCut \/ CallFails \/ OpenCut
  BY <1>2, <1>7 DEF ChaosFault, ChaosDelayCut, CallFails, OpenCut, AttemptFails, MoveOn, Goto, ChainIsKnown
<1>8. CASE Complete \/ Open \/ OpenStalls
  BY <1>2, <1>8 DEF Complete, Open, OpenStalls, Won, Goto, ChainIsKnown
<1>9. CASE Receive
  <2>1. UNCHANGED <<chain, i>> /\ pc = "recv" /\ pc' \in {"recv", "clean", "unwind"}
    BY <1>9, ReceiveEffect
  <2> QED  BY <1>2, <2>1 DEF ChainIsKnown
<1>10. CASE ReceiveEnd \/ ReceiveStalls \/ ReceiveCut \/ StreamEnds \/ Store
  BY <1>2, <1>10 DEF ReceiveEnd, ReceiveStalls, ReceiveCut, StreamFails, StreamEnds, Store, Return, Goto, ChainIsKnown
<1>11. CASE SettleBudget \/ SettleTokens \/ WriteRow \/ Recover \/ Panic \/ ClientLeaves \/ PostChaos \/ DeleteChaos
  BY <1>2, <1>11 DEF SettleBudget, SettleTokens, WriteRow, Recover, Panic, ClientLeaves, PostChaos, DeleteChaos, Goto, ChainIsKnown
<1>12. CASE UNCHANGED vars
  BY <1>2, <1>12 DEF vars, ChainIsKnown
<1> QED  BY <1>3, <1>4, <1>5, <1>6, <1>7, <1>8, <1>9, <1>10, <1>11, <1>12 DEF Next, Step
-----------------------------------------------------------------------------
(* What a stream has brought stays what its script says.                   *)

LEMMA TextIsBounded == ASSUME NEW d \in Dialects, NEW k \in 0 .. Len(Script(d))  PROVE textAfter(d)[k + 1] \in 0 .. WholeText
<1>1. CASE k < Len(Script(d))
  <2>1. k + 1 \in 1 .. Len(Script(d))
    BY <1>1 DEF Script, Dialects
  <2>2. Brings(d, k + 1, 1)
    BY <2>1, ScriptBrings
  <2> QED  BY <2>2 DEF Brings
<1>2. CASE k = Len(Script(d))
  BY <1>2 DEF Script, Dialects, textAfter, WholeText
<1>3. Len(Script(d)) \in Nat
  BY DEF Script, Dialects
<1> QED  BY <1>1, <1>2, <1>3

LEMMA DialectIsKnown == ASSUME ChainIsKnown, pc \in Trying  PROVE dialect \in Dialects
<1>1. chain[i].provider \in Providers
  BY DEF ChainIsKnown
<1> QED  BY <1>1, RequestAssumption DEF dialect, cand

LEMMA ReceiveBrings ==
  ASSUME ChainIsKnown, AnswerIsSound, Receive
  PROVE  /\ StreamIsSound(dialect)' /\ dialect \in Dialects
         /\ text \in 0 .. WholeText /\ text' \in 0 .. WholeText
         /\ pc' # "unwind" => actual' = actual
         /\ pc' = "unwind" => actual' \in Nat /\ actual' >= leastCharge(text', usage')
<1>1. pc = "recv" /\ UNCHANGED <<chain, i, ask>>
  BY DEF Receive, walk, query
<1>2. dialect \in Dialects /\ StreamIsSound(dialect)
  BY <1>1, DialectIsKnown DEF Trying, Streaming, AnswerIsSound
<1>3. dialect' = dialect
  BY <1>1 DEF dialect, cand
<1>0. PICK d \in Dialects : d = dialect /\ d = dialect'
  BY <1>2, <1>3
<1>4. PICK event :
        /\ ReceiveEvent(event)
        /\ \/ at < Len(Script(d)) /\ event = Script(d)[at + 1] /\ at' = at + 1
           \/ event \in broken /\ at' = at
  BY <1>0 DEF Receive, flow
<1> DEFINE r == decode(d, event, input)
<1>5. /\ at \in 0 .. Len(Script(d)) /\ text = textAfter(d)[at + 1] /\ Honest(text, finish) /\ Covers(usage)
      /\ input \in Nat /\ (d = "anthropic" /\ at > 0 => input = 1)
  BY <1>0, <1>2 DEF StreamIsSound
<1>6. input' = inputAfter(d, event, input)
  BY <1>0, <1>4 DEF ReceiveEvent
<1>7. /\ r.res # "chunk" => text' = text /\ finish' = finish /\ usage' = usage
      /\ r.res = "chunk" => /\ text' = text + r.text
                            /\ finish' = IF r.finish = "" THEN finish ELSE r.finish
                            /\ usage' = IF r.usage = {} THEN usage ELSE r.usage
  BY <1>0, <1>4 DEF ReceiveEvent
<1>8. Len(Script(d)) \in Nat
  BY <1>2 DEF Script, Dialects
<1>9. ASSUME at < Len(Script(d)), event = Script(d)[at + 1], at' = at + 1  PROVE StreamIsSound(d)'
  <2>1. at + 1 \in 1 .. Len(Script(d)) /\ at' \in 0 .. Len(Script(d))
    BY <1>5, <1>8, <1>9
  <2>2. Brings(d, at + 1, input)
    <3>1. d = "anthropic" /\ at + 1 > 1 => input = 1
      BY <1>5
    <3> QED  BY <1>5, <2>1, <3>1, ScriptBrings
  <2> DEFINE before == textAfter(d)[at + 1]
             after == textAfter(d)[at + 1 + 1]
  <2>3. /\ before \in 0 .. WholeText /\ after \in 0 .. WholeText /\ (before = WholeText => after = WholeText)
        /\ inputAfter(d, event, input) = IF d = "anthropic" /\ at + 1 = 1 THEN 1 ELSE input
        /\ r.res # "chunk" => after = before
        /\ r.res = "chunk" => after = before + r.text /\ Honest(after, r.finish) /\ Covers(r.usage)
    BY <1>9, <2>2 DEF Brings
  <2> HIDE DEF r, before, after
  <2>4. text = before
    BY <1>5 DEF before
  <2>5. text' = after /\ Covers(usage')
    BY <1>5, <1>7, <2>3, <2>4
  <2>6. Honest(text', finish')
    BY <1>5, <1>7, <2>3, <2>4, <2>5 DEF Honest
  <2>7. text' = textAfter(d)[at' + 1]
    BY <1>9, <2>5 DEF after
  <2>8. input' \in Nat /\ (d = "anthropic" /\ at' > 0 => input' = 1)
    BY <1>5, <1>6, <1>9, <2>3
  <2> QED  BY <2>1, <2>5, <2>6, <2>7, <2>8 DEF StreamIsSound
<1>10. ASSUME event \in broken, at' = at  PROVE StreamIsSound(d)'
  <2>1. /\ inputAfter(d, event, input) = input
        /\ r.res = "chunk" => r.text = 0 /\ r.finish = "" /\ r.usage = {}
    BY <1>10, BrokenBrings
  <2>2. text \in Nat
    BY <1>5, TextIsBounded DEF WholeText
  <2> HIDE DEF r
  <2>3. text' = text /\ finish' = finish /\ usage' = usage /\ input' = input
    <3>1. CASE r.res = "chunk"
      <4>1. r.text = 0 /\ text' = text + r.text
        BY <1>7, <2>1, <3>1, Zenon
      <4>2. text' = text
        BY <2>2, <4>1
      <4>3. finish' = finish /\ usage' = usage
        BY <1>7, <2>1, <3>1, Zenon
      <4> QED  BY <1>6, <2>1, <4>2, <4>3, Zenon
    <3>2. CASE r.res # "chunk"
      BY <1>6, <1>7, <2>1, <3>2, Zenon
    <3> QED  BY <3>1, <3>2, Zenon
  <2> QED  BY <1>5, <1>10, <2>3 DEF StreamIsSound
<1>11. StreamIsSound(d)' /\ StreamIsSound(dialect)'
  <2>1. StreamIsSound(d)'
    BY <1>4, <1>9, <1>10
  <2> QED  BY <1>0, <2>1 DEF StreamIsSound
<1>12. text \in 0 .. WholeText /\ text' \in 0 .. WholeText /\ Covers(usage')
  <2>1. at' \in 0 .. Len(Script(d)) /\ text' = textAfter(d)[at' + 1] /\ Covers(usage')
    BY <1>0, <1>11 DEF StreamIsSound
  <2> QED  BY <1>5, <2>1, TextIsBounded
<1>13. streamedTokens(text', usage') \in Nat /\ streamedTokens(text', usage') >= leastCharge(text', usage')
  BY <1>12, StreamedCovers
<1>14. /\ pc' # "unwind" => actual' = actual
       /\ pc' = "unwind" => actual' = streamedTokens(text', usage')
  BY <1>1, <1>4 DEF ReceiveEvent, StreamFails, Return, Goto
<1> QED  BY <1>2, <1>11, <1>12, <1>13, <1>14
LEMMA StreamStays ==
  ASSUME ChainIsKnown, AnswerIsSound, pc \in Streaming, UNCHANGED <<flow, ask, chain, i>>
  PROVE  StreamIsSound(dialect)' /\ ask'.stream
<1>1. dialect' = dialect
  BY DEF dialect, cand
<1> QED  BY <1>1 DEF AnswerIsSound, StreamIsSound, flow

LEMMA StreamText ==
  ASSUME ChainIsKnown, AnswerIsSound, pc \in Streaming
  PROVE  text \in 0 .. WholeText /\ Honest(text, finish) /\ Covers(usage)
<1>1. dialect \in Dialects /\ StreamIsSound(dialect)
  BY DialectIsKnown DEF Trying, AnswerIsSound
<1> QED  BY <1>1, TextIsBounded DEF StreamIsSound

LEMMA AnswerKept ==
  ASSUME RequestInv, ChainIsKnown, AnswerIsSound, [Next]_vars
  PROVE  AnswerIsSound'
<1> USE DEF query, walk, flow, ledger, reply, outcome, heard, settings, chaos, Before, Walking, Fresh
<1> DEFINE Over == {"replay", "unwind", "end"}
<1>1. pc \in Steps /\ (pc \in Fresh => at = 0 /\ input = 0 /\ text = 0 /\ finish = "" /\ usage = {} /\ actual = 0)
  BY DEF RequestInv, AnswerIsSound
<1>2. ASSUME pc' \in Over  PROVE AnswerIsSound'
  BY <1>2 DEF AnswerIsSound, Streaming
<1>3. ASSUME pc \in Fresh, pc' \in Fresh, UNCHANGED <<at, input, text, finish, usage, actual>>  PROVE AnswerIsSound'
  BY <1>1, <1>3 DEF AnswerIsSound, Streaming
<1>4. CASE Auth \/ RateLimit \/ Decode \/ AuthorizeModel \/ Route
  <2>1. pc \in Fresh /\ UNCHANGED <<at, input, text, finish, usage, actual>> /\ pc' \in Fresh \cup {"unwind"}
    BY <1>4 DEF Auth, RateLimit, Decode, AuthorizeModel, Route, Routed, Refuse, Goto
  <2> QED  BY <1>2, <1>3, <2>1
<1>5. CASE Resolve \/ ReserveTokens \/ ReserveBudget
  <2>1. pc \in Fresh /\ UNCHANGED <<at, input, text, finish, usage, actual>> /\ pc' \in Fresh \cup {"unwind"}
    BY <1>5 DEF Resolve, ReserveTokens, ReserveBudget, Refuse, Goto
  <2> QED  BY <1>2, <1>3, <2>1
<1>6. CASE ConsultCache \/ Replay \/ ReplayCut
  <2>1. \/ pc' \in Over
        \/ pc \in Fresh /\ UNCHANGED <<at, input, text, finish, usage, actual>> /\ pc' \in Fresh
    BY <1>6 DEF ConsultCache, Replay, ReplayCut, Goto
  <2> QED  BY <1>2, <1>3, <2>1
<1>7. CASE NextCandidate \/ Skip \/ Admit \/ ChaosPanic \/ Retry \/ RetryCut \/ Exhausted \/ OpenStalls
  <2>1. pc \in Fresh /\ UNCHANGED <<at, input, text, finish, usage, actual>> /\ pc' \in Fresh \cup {"unwind"}
    BY <1>7 DEF NextCandidate, Skip, Admit, ChaosPanic, Retry, RetryCut, Exhausted, OpenStalls, MoveOn, Refuse, Goto
  <2> QED  BY <1>2, <1>3, <2>1
<1>8. CASE ChaosFault \/ ChaosDelayCut \/ CallFails \/ OpenCut
  <2>1. pc \in Fresh /\ UNCHANGED <<at, input, text, finish, usage, actual>> /\ pc' \in Fresh \cup {"unwind"}
    BY <1>8 DEF ChaosFault, ChaosDelayCut, CallFails, OpenCut, AttemptFails, MoveOn, Goto
  <2> QED  BY <1>2, <1>3, <2>1
<1>9. CASE Complete
  <2>1. pc' = "store" /\ ~ ask'.stream
    BY <1>9 DEF Complete, Goto
  <2> QED  BY <2>1 DEF AnswerIsSound, Streaming
<1>10. CASE Open
  <2>1. pc = "call" /\ pc' = "recv" /\ ask.stream /\ UNCHANGED <<ask, chain, i, at, input, text, finish, usage>>
    BY <1>10 DEF Open, Won, Goto
  <2>2. dialect \in Dialects /\ dialect' = dialect
    BY <2>1, DialectIsKnown DEF Trying, dialect, cand
  <2>3. at' = 0 /\ input' = 0 /\ text' = 0 /\ finish' = "" /\ usage' = {}
    BY <1>1, <2>1
  <2>4. PICK d \in Dialects : d = dialect'
    BY <2>2
  <2>5. Len(Script(d)) \in Nat /\ textAfter(d)[0 + 1] = 0
    BY DEF Script, Dialects, textAfter
  <2>6. Honest(text', finish') /\ Covers(usage')
    BY <2>3, HonestTexts, CoversWhole
  <2>7. StreamIsSound(d)'
    <3>1. at' = 0 /\ input' = 0 /\ text' = 0
      BY <2>3
    <3>2. at' \in 0 .. Len(Script(d)) /\ text' = textAfter(d)[at' + 1] /\ input' \in Nat /\ ~ (at' > 0)
      BY <2>5, <3>1
    <3> QED  BY <2>6, <3>2 DEF StreamIsSound
  <2>8. StreamIsSound(dialect)'
    BY <2>4, <2>7 DEF StreamIsSound
  <2> QED  BY <2>1, <2>8 DEF AnswerIsSound, Streaming
<1>11. CASE Receive
  <2>1. StreamIsSound(dialect)' /\ ask' = ask /\ pc = "recv" /\ pc' \in {"recv", "clean", "unwind"}
    BY <1>11, ReceiveBrings, ReceiveEffect
  <2> QED  BY <2>1 DEF AnswerIsSound, Streaming
<1>12. CASE ReceiveEnd \/ ReceiveStalls \/ ReceiveCut
  <2>1. pc \in Streaming /\ UNCHANGED <<flow, ask, chain, i>> /\ pc' \in {"clean", "silent", "unwind"}
    BY <1>12 DEF ReceiveEnd, ReceiveStalls, ReceiveCut, StreamFails, Return, Goto, Streaming
  <2> QED  BY <2>1, StreamStays DEF AnswerIsSound, Streaming
<1>13. CASE StreamEnds
  <2>1. pc \in Streaming /\ UNCHANGED <<text, finish, usage>> /\ pc' \in {"store", "unwind"}
    BY <1>13 DEF StreamEnds, Return, Goto, Streaming
  <2> QED  BY <2>1, StreamText DEF AnswerIsSound, Streaming
<1>14. CASE Store \/ SettleBudget \/ SettleTokens \/ WriteRow \/ Recover \/ Panic
  <2>1. pc' \in Over
    BY <1>14 DEF Store, SettleBudget, SettleTokens, WriteRow, Recover, Panic, Return, Goto
  <2> QED  BY <1>2, <2>1
<1>15. CASE ClientLeaves \/ PostChaos \/ DeleteChaos \/ UNCHANGED vars
  <2>1. UNCHANGED <<pc, flow, ask, chain, i, actual>>
    BY <1>15 DEF ClientLeaves, PostChaos, DeleteChaos, vars
  <2> QED  BY <2>1, StreamStays DEF AnswerIsSound
<1> QED  BY <1>4, <1>5, <1>6, <1>7, <1>8, <1>9, <1>10, <1>11, <1>12, <1>13, <1>14, <1>15 DEF Next, Step
-----------------------------------------------------------------------------
(* What the request is charged.                                            *)

\* Before the way out nothing is settled: what is owed is what will be.
LEMMA Owed ==
  ASSUME "cost" \in DOMAIN m', actual' \in Nat, text' \in Nat, settled'.tpm = <<>>,
         calls' = 0 => m'.cost = 0 /\ actual' = 0,
         pc' \in Streaming \cup {"store"} => calls' > 0,
         pc' = "store" /\ ~ ask'.stream => NoChunks(wire'),
         pc' \in {"unwind", "end"} /\ ~ panicked' /\ "tpm" \in defers' => NoChunks(wire') \/ actual' >= leastCharge(text', usage')
  PROVE  ChargeIsSound'
BY DEF ChargeIsSound

LEMMA CostStays ==
  ASSUME NEW metrics, "cost" \in DOMAIN metrics, NEW mod, NEW count
  PROVE  "cost" \in DOMAIN recordCost(metrics, mod, count)
BY DEF recordCost

LEMMA WordIsNoChunk == ASSUME NEW what, what # "chunk", wire = <<>>, NEW w \in {wire, Append(wire, what)}  PROVE NoChunks(w)
BY DEF NoChunks

\* A request that has called nobody yet is refused, moves on, or is tried.
LEMMA FreshIsFree ==
  ASSUME RequestInv, ChargeIsSound, pc \in Fresh, pc' \in Fresh \cup {"unwind"},
         NEW what, what # "chunk", wire' \in {wire, Append(wire, what)},
         "cost" \in DOMAIN m', m'.cost = m.cost, UNCHANGED <<actual, text, usage, settled>>,
         calls' = calls \/ calls' = calls + 1
  PROVE  ChargeIsSound'
<1>1. wire = <<>> /\ settled.tpm = <<>> /\ calls \in Nat
  BY DEF RequestInv, WireIsSound, LedgerIsSound, VerdictsAreSound, Fresh, Before, Walking
<1>2. NoChunks(wire')
  BY <1>1, WordIsNoChunk
<1>3. pc' \notin Streaming \cup {"store"}
  BY DEF Fresh, Before, Walking, Streaming
<1>4. calls' = 0 => calls = 0
  BY <1>1
<1> QED  BY <1>1, <1>2, <1>3, <1>4, Owed DEF ChargeIsSound

LEMMA AnswerIsCharged ==
  ASSUME RequestInv, AnswerInv, Complete \/ Open
  PROVE  ChargeIsSound'
<1> USE DEF query, walk, flow, ledger, reply, outcome, heard, settings, chaos
<1>1. pc = "call" /\ settled' = settled /\ "cost" \in DOMAIN m /\ ask' = ask
  BY DEF Complete, Open, AnswerInv, ChargeIsSound
<1>2. wire = <<>> /\ settled.tpm = <<>> /\ calls \in Nat
  BY <1>1 DEF RequestInv, WireIsSound, LedgerIsSound, VerdictsAreSound, Walking
<1>3. CASE Complete
  <2>1. PICK body \in Bodies :
          /\ actual' = body.in + body.out /\ text' = body.text
          /\ \E mod, count : m' = recordCost(metricsServed(mod, count), mod, count)
    BY <1>3 DEF Complete, Answer
  <2>2. body.in \in Nat /\ body.out \in Nat /\ body.text \in Nat
    BY RequestAssumption
  <2>3. "cost" \in DOMAIN m'
    BY <1>1, <2>1, CostStays DEF metricsServed
  <2>4. calls' = calls + 1 /\ pc' = "store" /\ wire' \in {wire, Append(wire, "body")}
    BY <1>3 DEF Complete, Say, Goto
  <2>5. NoChunks(wire')
    BY <1>2, <2>4, WordIsNoChunk
  <2>6. calls' > 0
    BY <1>2, <2>4
  <2> QED  BY <1>1, <1>2, <2>1, <2>2, <2>3, <2>4, <2>5, <2>6, Owed
<1>4. CASE Open
  <2>1. calls' = calls + 1 /\ pc' = "recv" /\ "cost" \in DOMAIN m' /\ UNCHANGED <<actual, text>>
    BY <1>1, <1>4 DEF Open, Goto, metricsServed
  <2>2. calls' > 0 /\ pc' \notin {"store", "unwind", "end"}
    BY <1>2, <2>1
  <2> QED  BY <1>1, <1>2, <2>1, <2>2, Owed DEF AnswerInv, ChargeIsSound
<1> QED  BY <1>3, <1>4

LEMMA StreamIsCharged ==
  ASSUME RequestInv, AnswerInv, Receive \/ ReceiveEnd \/ ReceiveStalls \/ ReceiveCut \/ StreamEnds
  PROVE  ChargeIsSound'
<1> USE DEF query, walk, flow, ledger, reply, outcome, heard, settings, chaos
<1>1. pc \in Streaming /\ settled' = settled /\ calls' = calls /\ "cost" \in DOMAIN m /\ actual \in Nat
  BY DEF Receive, ReceiveEnd, ReceiveStalls, ReceiveCut, StreamEnds, Streaming, AnswerInv, ChargeIsSound
<1>2. settled.tpm = <<>> /\ calls \in Nat /\ calls > 0
  BY <1>1 DEF RequestInv, LedgerIsSound, VerdictsAreSound, AnswerInv, ChargeIsSound, Streaming
<1>3. text \in 0 .. WholeText /\ Covers(usage) /\ ask.stream
  BY <1>1, StreamText DEF AnswerInv, AnswerIsSound
<1>4. streamedTokens(text, usage) \in Nat /\ streamedTokens(text, usage) >= leastCharge(text, usage)
  BY <1>3, StreamedCovers
<1>5. CASE Receive
  <2>1. /\ pc' \in {"recv", "clean", "unwind"} /\ m' = m
        /\ text' \in 0 .. WholeText /\ (pc' # "unwind" => actual' = actual) /\ (pc' = "unwind" => actual' \in Nat /\ actual' >= leastCharge(text', usage'))
    BY <1>5, ReceiveBrings, ReceiveEffect DEF AnswerInv
  <2>2. text' \in Nat /\ actual' \in Nat
    BY <1>1, <2>1
  <2> QED  BY <1>1, <1>2, <2>1, <2>2, Owed
<1>6. CASE ReceiveEnd \/ ReceiveStalls \/ ReceiveCut \/ StreamEnds
  <2>1. /\ pc' \in {"clean", "silent", "store", "unwind"} /\ text' = text /\ usage' = usage /\ ask' = ask
        /\ (pc' # "unwind" => actual' = actual) /\ (pc' = "unwind" => actual' = streamedTokens(text, usage))
    BY <1>6 DEF ReceiveEnd, ReceiveStalls, ReceiveCut, StreamEnds, StreamFails, Return, Goto
  <2>2. "cost" \in DOMAIN m'
    <3>1. m' = m \/ \E count, mod : m' = recordCost([m EXCEPT !.tokens = count], mod, count)
      BY <1>6 DEF ReceiveEnd, ReceiveStalls, ReceiveCut, StreamEnds
    <3> QED  BY <1>1, <3>1, CostStays
  <2>3. text' \in Nat /\ actual' \in Nat
    BY <1>1, <1>3, <1>4, <2>1
  <2> QED  BY <1>1, <1>2, <1>3, <1>4, <2>1, <2>2, <2>3, Owed
<1> QED  BY <1>5, <1>6
\* The way out: the deferred call settles the bucket with what is owed.
LEMMA SettlementIsCharged ==
  ASSUME RequestInv, AnswerInv, Store \/ SettleBudget \/ SettleTokens \/ WriteRow \/ Recover
  PROVE  ChargeIsSound'
<1> USE DEF query, walk, flow, ledger, reply, outcome, heard, settings, chaos
<1>1. ChargeIsSound /\ LedgerIsSound /\ LedgerType /\ AnswerIsSound /\ IsFiniteSet(held.tpm)
  BY DEF AnswerInv, RequestInv, LedgerIsSound
<1>2. CASE Store
  <2>1. /\ pc = "store" /\ pc' = "unwind" /\ UNCHANGED <<m, text, usage, settled, calls, wire, ask>>
        /\ actual' = IF ask.stream THEN streamedTokens(text, usage) ELSE actual
    BY <1>2 DEF Store, Return, Goto
  <2>2. settled.tpm = <<>> /\ calls > 0
    BY <1>1, <2>1 DEF LedgerIsSound, ChargeIsSound
  <2>3. CASE ask.stream
    <3>1. actual' \in Nat /\ actual' >= leastCharge(text, usage)
      BY <1>1, <2>1, <2>3, StreamedCovers DEF AnswerIsSound
    <3>2. calls' # 0
      BY <2>1, <2>2
    <3>3. "cost" \in DOMAIN m' /\ text' \in Nat /\ settled'.tpm = <<>> /\ actual' >= leastCharge(text', usage')
      BY <1>1, <2>1, <2>2, <3>1 DEF ChargeIsSound
    <3> QED  BY <2>1, <3>1, <3>2, <3>3, Owed DEF Streaming
  <2>4. CASE ~ ask.stream
    <3>1. NoChunks(wire') /\ actual' = actual
      BY <1>1, <2>1, <2>4 DEF ChargeIsSound
    <3> QED  BY <1>1, <2>1, <2>2, <3>1, Owed DEF ChargeIsSound, Streaming
  <2> QED  BY <2>3, <2>4
<1>3. CASE SettleBudget
  <2>1. UNCHANGED <<pc, m, actual, text, usage, calls, wire, panicked>> /\ settled'.tpm = settled.tpm /\ defers' \subseteq defers /\ pc = "unwind"
    BY <1>1, <1>3 DEF SettleBudget, LedgerType
  <2> QED  BY <1>1, <2>1 DEF ChargeIsSound, Streaming
<1>4. CASE SettleTokens
  <2>1. /\ UNCHANGED <<pc, m, actual, text, usage, calls, wire, panicked>> /\ defers' = {} /\ pc = "unwind" /\ "tpm" \in defers
        /\ settled'.tpm = settled.tpm \o settleAll(held.tpm, actual)
    BY <1>1, <1>4 DEF SettleTokens, LedgerType
  <2>2. settled.tpm = <<>>
    BY <1>1, <2>1 DEF LedgerIsSound
  <2>3. \A k \in DOMAIN settled'.tpm : settled'.tpm[k] = actual
    BY <1>1, <2>1, <2>2, SettleAllEffect
  <2> QED  BY <1>1, <2>1, <2>3 DEF ChargeIsSound, Streaming
<1>5. CASE WriteRow
  <2>1. pc = "unwind" /\ pc' = "end" /\ UNCHANGED <<m, actual, text, usage, calls, wire, panicked, settled, defers>>
    BY <1>5 DEF WriteRow, Goto
  <2> QED  BY <1>1, <2>1 DEF ChargeIsSound, Streaming
<1>6. CASE Recover
  <2>1. pc = "unwind" /\ pc' = "end" /\ panicked' /\ UNCHANGED <<m, actual, text, usage, calls, settled, defers>>
    BY <1>6 DEF Recover, Goto
  <2> QED  BY <1>1, <2>1 DEF ChargeIsSound, Streaming
<1> QED  BY <1>2, <1>3, <1>4, <1>5, <1>6

LEMMA ChargeKept ==
  ASSUME RequestInv, AnswerInv, [Next]_vars
  PROVE  ChargeIsSound'
<1> USE DEF query, walk, flow, ledger, reply, outcome, heard, settings, chaos, Before, Walking, Fresh
<1>1. ChargeIsSound /\ pc \in Steps /\ "cost" \in DOMAIN m
  BY DEF AnswerInv, RequestInv, ChargeIsSound
<1> DEFINE Kept == UNCHANGED <<actual, text, usage, settled>> /\ "cost" \in DOMAIN m' /\ m'.cost = m.cost
<1>2. CASE Auth \/ RateLimit \/ Decode \/ AuthorizeModel
  <2>1. /\ pc \in Fresh /\ pc' \in Fresh \cup {"unwind"} /\ Kept /\ calls' = calls
        /\ \E status \in ErrorStatuses : wire' \in {wire, Append(wire, status)}
    BY <1>1, <1>2 DEF Auth, RateLimit, Decode, AuthorizeModel, Refuse, Say, Goto, ErrorStatuses
  <2> QED  BY <1>1, <2>1, FreshIsFree DEF ErrorStatuses
<1>3. CASE Route
  <2>1. /\ pc \in Fresh /\ pc' \in Fresh \cup {"unwind"} /\ UNCHANGED <<actual, text, usage, settled>> /\ calls' = calls
        /\ m' = m \/ m' = [m EXCEPT !.baseline = topTierModel]
        /\ \E status \in ErrorStatuses : wire' \in {wire, Append(wire, status)}
    BY <1>3 DEF Route, Routed, Refuse, Say, Goto, ErrorStatuses
  <2>2. Kept
    BY <1>1, <2>1
  <2> QED  BY <1>1, <2>1, <2>2, FreshIsFree DEF ErrorStatuses
<1>4. CASE Resolve \/ ReserveBudget
  <2>1. /\ pc \in Fresh /\ pc' \in Fresh \cup {"unwind"} /\ Kept /\ calls' = calls
        /\ \E status \in ErrorStatuses : wire' \in {wire, Append(wire, status)}
    BY <1>1, <1>4 DEF Resolve, ReserveBudget, Refuse, Say, Goto, ErrorStatuses
  <2> QED  BY <1>1, <2>1, FreshIsFree DEF ErrorStatuses
<1>5. CASE ConsultCache
  <2>1. /\ pc \in Fresh /\ pc' \in Fresh \cup {"replay", "unwind"} /\ UNCHANGED <<actual, settled, calls>>
        /\ m' = m \/ m' = [m EXCEPT !.tokens = 1 + Pieces, !.served = model]
        /\ text' = text \/ text' = WholeText
        /\ wire' \in {wire, Append(wire, "body")}
    BY <1>5 DEF ConsultCache, Say, Goto
  <2>2. WholeText \in Nat /\ wire = <<>> /\ settled.tpm = <<>>
    BY <1>1, <2>1 DEF WholeText, RequestInv, WireIsSound, LedgerIsSound
  <2>3. NoChunks(wire') /\ "cost" \in DOMAIN m' /\ m'.cost = m.cost /\ text' \in Nat /\ settled'.tpm = <<>>
    BY <1>1, <2>1, <2>2, WordIsNoChunk DEF ChargeIsSound
  <2>4. pc' \notin Streaming \cup {"store"}
    BY <2>1 DEF Streaming
  <2> QED  BY <1>1, <2>1, <2>3, <2>4, Owed DEF ChargeIsSound
<1>6. CASE Replay \/ ReplayCut
  <2>1. pc = "replay" /\ pc' \in {"replay", "unwind"} /\ UNCHANGED <<m, actual, text, usage, settled, calls, defers>>
    BY <1>6 DEF Replay, ReplayCut, Goto
  <2>2. defers' = {} /\ settled'.tpm = <<>>
    BY <2>1 DEF RequestInv, LedgerIsSound
  <2> QED  BY <1>1, <2>1, <2>2, Owed DEF ChargeIsSound, Streaming
<1>7. CASE ReserveTokens
  <2>1. pc = "tokens" /\ UNCHANGED <<m, actual, text, usage, calls>> /\ pc' \in {"budget", "unwind"} /\ wire' \in {wire, Append(wire, "429")}
    BY <1>7 DEF ReserveTokens, Refuse, Say, Goto
  <2>2. wire = <<>> /\ settled.tpm = <<>> /\ LedgerType
    BY <2>1 DEF RequestInv, WireIsSound, LedgerIsSound
  <2>3. NoChunks(wire')
    BY <2>1, <2>2, WordIsNoChunk
  <2>4. settled'.tpm = settled.tpm \/ settled'.tpm = Append(settled.tpm, 0)
    BY <1>7, <2>2, ReserveTokensEffect
  <2>5. \A k \in DOMAIN settled'.tpm : settled'.tpm[k] = 0
    BY <2>2, <2>4
  <2> QED  BY <1>1, <2>1, <2>3, <2>5 DEF ChargeIsSound, Streaming
<1>8. CASE NextCandidate \/ Skip \/ Admit \/ Retry \/ RetryCut \/ OpenStalls
  <2>1. /\ pc \in Fresh /\ pc' \in Fresh \cup {"unwind"} /\ Kept /\ calls' = calls /\ wire' = wire
    BY <1>1, <1>8 DEF NextCandidate, Skip, Admit, Retry, RetryCut, OpenStalls, MoveOn, Goto
  <2> QED  BY <1>1, <2>1, FreshIsFree
<1>9. CASE Exhausted
  <2>1. /\ pc \in Fresh /\ pc' \in Fresh \cup {"unwind"} /\ Kept /\ calls' = calls
        /\ wire' \in {wire, Append(wire, writeChainError)}
    BY <1>1, <1>9 DEF Exhausted, Refuse, Say, Goto
  <2>2. writeChainError # "chunk"
    BY Statuses DEF ErrorStatuses
  <2> QED  BY <1>1, <2>1, <2>2, FreshIsFree
<1>10. CASE ChaosFault \/ ChaosDelayCut \/ CallFails \/ OpenCut
  <2>1. /\ pc \in Fresh /\ pc' \in Fresh \cup {"unwind"} /\ Kept /\ calls' = calls + 1 /\ wire' = wire
    BY <1>1, <1>10 DEF ChaosFault, ChaosDelayCut, CallFails, OpenCut, AttemptFails, MoveOn, Goto
  <2> QED  BY <1>1, <2>1, FreshIsFree
<1>11. CASE Complete \/ Open
  BY <1>11, AnswerIsCharged
<1>12. CASE Receive \/ ReceiveEnd \/ ReceiveStalls \/ ReceiveCut \/ StreamEnds
  BY <1>12, StreamIsCharged
<1>13. CASE Store \/ SettleBudget \/ SettleTokens \/ WriteRow \/ Recover
  BY <1>13, SettlementIsCharged
<1>14. CASE Panic \/ ChaosPanic
  <2>1. pc' = "unwind" /\ panicked' /\ UNCHANGED <<m, actual, text, usage, calls, settled>>
    BY <1>14 DEF Panic, ChaosPanic, Goto
  <2> QED  BY <1>1, <2>1 DEF ChargeIsSound, Streaming
<1>15. CASE ClientLeaves \/ PostChaos \/ DeleteChaos \/ UNCHANGED vars
  <2>1. UNCHANGED <<pc, m, actual, text, usage, calls, settled, wire, panicked, defers, ask>>
    BY <1>15 DEF ClientLeaves, PostChaos, DeleteChaos, vars
  <2> QED  BY <1>1, <2>1 DEF ChargeIsSound, Streaming, NoChunks
<1> QED  BY <1>2, <1>3, <1>4, <1>5, <1>6, <1>7, <1>8, <1>9, <1>10, <1>11, <1>12, <1>13, <1>14, <1>15 DEF Next, Step
LEMMA AnswerInit == Init => AnswerInv
<1> SUFFICES ASSUME Init PROVE AnswerInv
  OBVIOUS
<1>1. pc = "auth" /\ pc \in Fresh /\ pc \notin Streaming \cup Trying \cup {"tokens", "budget", "store", "unwind", "end"} \cup Walking
  BY DEF Init, Before, Walking, Streaming, Trying, Fresh
<1>2. chain = <<>> /\ at = 0 /\ input = 0 /\ text = 0 /\ usage = {} /\ actual = 0 /\ wire = <<>>
  BY DEF Init
<1>3. settled = [tpm |-> <<>>, budget |-> <<>>, extra |-> 0] /\ m = NoMetrics /\ finish = ""
  BY DEF Init
<1>4. settled.tpm = <<>> /\ "cost" \in DOMAIN m /\ m.cost = 0
  BY <1>3 DEF NoMetrics
<1>5. ChainIsKnown
  BY <1>1, <1>2 DEF ChainIsKnown
<1>6. AnswerIsSound
  BY <1>1, <1>2, <1>3 DEF AnswerIsSound
<1>7. ChargeIsSound
  BY <1>1, <1>2, <1>4 DEF ChargeIsSound
<1> QED  BY <1>5, <1>6, <1>7 DEF AnswerInv

LEMMA AnswerStep == RequestInv /\ AnswerInv /\ [Next]_vars => AnswerInv'
BY ChainKept, AnswerKept, ChargeKept DEF AnswerInv

\* The inductive invariant of an answer: at every event the text, the finish reason and
\* the usage are what the adapter's script has brought, and what is owed covers them.
THEOREM AnswersCorrect == Spec => []AnswerInv
<1>1. RequestInv /\ RequestInv' /\ AnswerInv /\ [Next]_vars => AnswerInv'
  BY AnswerStep
<1> QED  BY <1>1, AnswerInit, RequestCorrect, PTL DEF Spec

LEMMA ChunksAreCounted ==
  ASSUME NEW S, NEW w \in Seq(S)
  PROVE  chunksIn(w) \in Nat /\ (NoChunks(w) => chunksIn(w) = 0)
<1> DEFINE C == {k \in DOMAIN w : w[k] = "chunk"}
<1>1. DOMAIN w = 1 .. Len(w) /\ Len(w) \in Nat
  OBVIOUS
<1>2. IsFiniteSet(1 .. Len(w))
  BY <1>1, FS_Interval
<1>3. IsFiniteSet(C)
  BY <1>1, <1>2, FS_Subset
<1>4. Cardinality(C) \in Nat
  BY <1>3, FS_CardinalityType
<1>5. NoChunks(w) => C = {}
  BY DEF NoChunks
<1>6. Cardinality({}) = 0
  BY FS_EmptySet
<1> HIDE DEF C
<1>7. chunksIn(w) = Cardinality(C)
  BY DEF chunksIn, C
<1> QED  BY <1>4, <1>5, <1>6, <1>7

\* However a stream ends (the terminator, an error event, a reset, a failed write, a
\* client that left), streamChatCompletions charges the TPM bucket for the prompt and
\* the bytes received, in every dialect, unless a count of the prompt alone took the
\* estimate's place; an answer that called nobody is free.
THEOREM GenerationIsCharged == Spec => []WorkIsCharged
<1>1. ASSUME RequestInv, AnswerInv  PROVE WorkIsCharged
  <2>1. ChargeIsSound /\ wire \in Seq(Replies)
    BY <1>1 DEF AnswerInv, RequestInv, WireIsSound
  <2>2. chunksIn(wire) > 0 => ~ NoChunks(wire)
    BY <2>1, ChunksAreCounted
  <2>3. ASSUME pc = "end", ~ panicked, chunksIn(wire) > 0, NEW k \in DOMAIN settled.tpm
        PROVE  settled.tpm[k] >= leastCharge(text, usage)
    BY <2>1, <2>2, <2>3 DEF ChargeIsSound
  <2>4. calls = 0 => m.cost = 0 /\ \A k \in DOMAIN settled.tpm : settled.tpm[k] = 0
    BY <2>1 DEF ChargeIsSound
  <2> QED  BY <2>3, <2>4 DEF WorkIsCharged
<1> QED  BY <1>1, RequestCorrect, AnswersCorrect, PTL

-----------------------------------------------------------------------------
(* The cache: only a whole answer is stored.                               *)

LEMMA CacheStep == RequestInv /\ AnswerInv /\ CacheInv /\ [Next]_vars => CacheInv'
<1> SUFFICES ASSUME RequestInv, AnswerInv, CacheInv, [Next]_vars  PROVE CacheInv'
  OBVIOUS
<1> USE DEF query, walk, flow, ledger, reply, outcome, heard, settings, chaos
<1> DEFINE Out == {"unwind", "end"}
<1>1. ASSUME UNCHANGED stored, pc \notin Out, pc' # "store"  PROVE CacheInv'
  BY <1>1 DEF CacheInv
<1>2. ASSUME UNCHANGED <<stored, text, finish>>, pc \in Out \/ pc' = pc, pc \in Out => pc' \in Out  PROVE CacheInv'
  BY <1>2 DEF CacheInv
<1>3. CASE Auth \/ RateLimit \/ Decode \/ AuthorizeModel \/ Route \/ Resolve
  BY <1>1, <1>3 DEF Auth, RateLimit, Decode, AuthorizeModel, Route, Routed, Resolve, Refuse, Goto
<1>4. CASE ConsultCache \/ Replay \/ ReplayCut \/ ReserveTokens \/ ReserveBudget
  BY <1>1, <1>4 DEF ConsultCache, Replay, ReplayCut, ReserveTokens, ReserveBudget, Refuse, Goto
<1>5. CASE NextCandidate \/ Skip \/ Admit \/ ChaosPanic \/ Retry \/ RetryCut \/ Exhausted \/ OpenStalls \/ Open
  BY <1>1, <1>5 DEF NextCandidate, Skip, Admit, ChaosPanic, Retry, RetryCut, Exhausted, OpenStalls, Open, MoveOn, Refuse, Goto
<1>6. CASE ChaosFault \/ ChaosDelayCut \/ CallFails \/ OpenCut
  BY <1>1, <1>6 DEF ChaosFault, ChaosDelayCut, CallFails, OpenCut, AttemptFails, MoveOn, Goto
<1>7. CASE Receive
  BY <1>1, <1>7, ReceiveEffect
<1>8. CASE ReceiveEnd \/ ReceiveStalls \/ ReceiveCut
  BY <1>1, <1>8 DEF ReceiveEnd, ReceiveStalls, ReceiveCut, StreamFails, Return, Goto
<1>9. CASE Complete
  <2>1. PICK body \in Bodies : text' = body.text /\ finish' = finishReason(dialect, body.stop)
    BY <1>9 DEF Complete, Answer
  <2>2. dialect \in Dialects
    BY <1>9, DialectIsKnown DEF Complete, AnswerInv, Trying
  <2>3. finish' = "stop" /\ text' > 0 => text' = WholeText
    BY <2>1, <2>2, BodiesAreWhole
  <2>4. pc = "call" /\ pc' = "store" /\ stored' = stored
    BY <1>9 DEF Complete, Goto
  <2> QED  BY <2>3, <2>4 DEF CacheInv
<1>10. CASE StreamEnds
  <2>1. pc = "clean" /\ UNCHANGED <<text, finish, stored>>
    BY <1>10 DEF StreamEnds
  <2>2. Honest(text, finish)
    BY <2>1, StreamText DEF AnswerInv, Streaming
  <2>3. finish' = "stop" => text' = WholeText
    BY <2>1, <2>2, Zenon DEF Honest
  <2> QED  BY <2>1, <2>3 DEF CacheInv
<1>11. CASE Store
  <2>1. pc = "store" /\ pc' = "unwind" /\ UNCHANGED <<text, finish>> /\ (stored' => Cacheable)
    BY <1>11 DEF Store, Return, Goto
  <2> QED  BY <2>1 DEF CacheInv, Cacheable
<1>12. CASE SettleBudget \/ SettleTokens \/ WriteRow \/ Recover
  BY <1>2, <1>12 DEF SettleBudget, SettleTokens, WriteRow, Recover, Goto
<1>13. CASE Panic
  BY <1>1, <1>13 DEF Panic, Goto
<1>14. CASE ClientLeaves \/ PostChaos \/ DeleteChaos \/ UNCHANGED vars
  BY <1>2, <1>14 DEF ClientLeaves, PostChaos, DeleteChaos, vars
<1> QED  BY <1>3, <1>4, <1>5, <1>6, <1>7, <1>8, <1>9, <1>10, <1>11, <1>12, <1>13, <1>14 DEF Next, Step

\* "A truncated response can never become a cache entry": whatever dialect the answer
\* comes in and wherever it is cut, Store keeps only one that is whole and that the
\* model ended itself.
THEOREM OnlyWholeAnswersAreCached == Spec => []CachedIsComplete
<1>1. Init => CacheInv
  BY DEF Init, CacheInv
<1>2. CacheInv => CachedIsComplete
  BY DEF CacheInv, CachedIsComplete
<1>3. RequestInv /\ AnswerInv /\ CacheInv /\ [Next]_vars => CacheInv'
  BY CacheStep
<1> QED  BY <1>1, <1>2, <1>3, RequestCorrect, AnswersCorrect, PTL DEF Spec

-----------------------------------------------------------------------------
(* What requests reserve from and settle with: TokenBucket, for every       *)
(* capacity, refill rate, amount, overrun and number of requests.  One     *)
(* inductive invariant, the range of the stored balance, carries all of    *)
(* it; what an expired key still owed is the only thing time may add       *)
(* beyond the refill.                                                      *)

\* idle * Refill is the one product of the model.
LEMMA OneMoreUnit ==
  ASSUME NEW k \in Nat
  PROVE  /\ k * Refill \in Nat
         /\ (k + 1) * Refill = k * Refill + Refill
         /\ 0 * Refill = 0
BY BucketAssumption

\* The range of the balance both scripts start from.
LEMMA RefilledRange ==
  ASSUME TypeOK
  PROVE  /\ refilled \in Int
         /\ refilled <= Capacity
<1>1. idle * Refill \in Nat BY OneMoreUnit, BucketAssumption DEF TypeOK
<1> QED BY <1>1, BucketAssumption DEF TypeOK, refilled, full

\* What a script leaves behind is what the next one starts from.
LEMMA RefilledAfterWrite ==
  ASSUME NEW x \in Int, x <= Capacity, tokens' = x, idle' = 0
  PROVE  refilled' = x
BY OneMoreUnit, BucketAssumption DEF refilled, full

\* The product of the two constants is a number the solver may treat as one.
LEMMA OwedRange ==
  ASSUME TypeOK
  PROVE  /\ owed \in Nat
         /\ tokens >= - Capacity => owed = 0
         /\ owed = 0 => Capacity <= tokens + TTL * Refill
         /\ owed > 0 => owed = Capacity - (tokens + TTL * Refill)
<1>1. TTL * Refill = 2 * Capacity /\ Capacity \in Nat /\ tokens \in Int
  BY TTLIsTwoWindows, BucketAssumption DEF TypeOK
<1> QED BY <1>1 DEF owed, full

\* A unit of time, the one that makes the key expire included, is one Refill
\* and what the key still owed when it expired.
LEMMA RefilledAfterTick ==
  ASSUME TypeOK, Tick
  PROVE  /\ refilled' \in Int
         /\ refilled' <= full(refilled + Refill) + (forgiven' - forgiven)
         /\ refilled' >= full(refilled + Refill)
         /\ forgiven' \in Nat
         /\ forgiven' = forgiven => refilled' = full(refilled + Refill)
         /\ forgiven' # forgiven => idle < TTL /\ tokens < - Capacity /\ idle' = TTL
<1>1. /\ tokens \in Int /\ forgiven \in Nat
      /\ idle \in 0 .. TTL /\ tokens' = tokens
      /\ idle' = IF idle < TTL THEN idle + 1 ELSE TTL
      /\ forgiven' = IF idle + 1 = TTL THEN forgiven + owed ELSE forgiven
  BY DEF TypeOK, Tick
<1>2. /\ Capacity \in Nat \ {0} /\ Refill \in Nat \ {0} /\ TTL \in Nat \ {0}
  BY BucketAssumption
<1>3. CASE idle = TTL
  <2>1. refilled = Capacity /\ refilled' = Capacity /\ forgiven' = forgiven
    BY <1>1, <1>2, <1>3 DEF refilled
  <2> QED BY <2>1, <1>1, <1>2 DEF full
<1>4. CASE idle < TTL /\ idle + 1 # TTL
  <2>1. /\ idle * Refill \in Nat /\ (idle + 1) * Refill = idle * Refill + Refill
    BY <1>1, <1>2, OneMoreUnit
  <2>2. refilled = full(tokens + idle * Refill)
    BY <1>1, <1>2, <1>4 DEF refilled
  <2>3. refilled' = full(tokens + (idle * Refill + Refill))
    BY <2>1, <1>1, <1>2, <1>4 DEF refilled, full
  <2>4. forgiven' = forgiven BY <1>1, <1>4
  <2> QED BY <2>1, <2>2, <2>3, <2>4, <1>1, <1>2 DEF full
<1>5. CASE idle < TTL /\ idle + 1 = TTL
  <2>1. /\ idle * Refill \in Nat /\ TTL * Refill = idle * Refill + Refill
    BY <1>1, <1>2, <1>5, OneMoreUnit
  <2>2. refilled = full(tokens + idle * Refill)
    BY <1>1, <1>2, <1>5 DEF refilled
  <2>3. refilled' = Capacity /\ idle' = TTL /\ forgiven' = forgiven + owed
    BY <1>1, <1>2, <1>5 DEF refilled
  <2>4. /\ owed \in Nat
        /\ tokens >= - Capacity => owed = 0
        /\ owed = 0 => Capacity <= tokens + (idle * Refill + Refill)
        /\ owed > 0 => owed = Capacity - (tokens + (idle * Refill + Refill))
    BY <2>1, OwedRange
  <2> QED BY <2>1, <2>2, <2>3, <2>4, <1>1, <1>2, <1>5 DEF full
<1> QED BY <1>1, <1>2, <1>3, <1>4, <1>5

-----------------------------------------------------------------------------
\* The range of the balance, and no settlement without a reservation.
LimiterInv == TypeOK /\ Reservations

LEMMA RequestFields ==
  ASSUME TypeOK, NEW r \in Requests
  PROVE  /\ req[r] \in RequestType
         /\ req[r].reserved \in Int /\ req[r].actual \in Int
         /\ req[r].actual \in 0 .. MaxUse
<1>1. req[r] \in RequestType BY DEF TypeOK
<1>2. /\ req[r].reserved \in Amounts \cup {0}
      /\ req[r].actual \in 0 .. MaxUse
  BY <1>1 DEF RequestType
<1>3. req[r].reserved \in Int
  <2>1. \A a \in Amounts : a \in Int BY BucketAssumption
  <2> QED BY <1>2, <2>1
<1>4. req[r].actual \in Int
  <2>1. MaxUse \in Nat BY BucketAssumption
  <2> QED BY <1>2, <2>1
<1> QED BY <1>1, <1>2, <1>3, <1>4

\* A script run keeps the stored balance in range.
LEMMA ScriptInRange ==
  ASSUME TypeOK, NEW out \in Outcomes, NEW x \in Int,
         x <= Capacity, RunScript(out, x)
  PROVE  /\ tokens' \in Int /\ tokens' <= Capacity
         /\ idle' \in 0 .. TTL
         /\ faults' \in 0 .. MaxFaults
BY BucketAssumption DEF TypeOK, RunScript, Outcomes

LEMMA ConsumedRange ==
  ASSUME TypeOK, NEW a \in Amounts
  PROVE  /\ a \in Nat \ {0}
         /\ consumed(a) \in Int
         /\ consumed(a) <= Capacity
BY RefilledRange, BucketAssumption DEF consumed, fits

LEMMA SettledRange ==
  ASSUME TypeOK, NEW d \in Int
  PROVE  /\ settledBalance(d) \in Int
         /\ settledBalance(d) <= Capacity
         /\ settledBalance(d) <= refilled + d
BY RefilledRange, BucketAssumption DEF settledBalance, full

LEMMA RetryAfterRange ==
  ASSUME TypeOK, NEW a \in Amounts, ~ fits(a)
  PROVE  /\ retryAfter(a) \in Nat
         /\ refilled + retryAfter(a) * Refill >= a
<1>1. /\ a \in Nat /\ refilled \in Int /\ refilled < a /\ Refill \in Nat \ {0}
  BY RefilledRange, BucketAssumption DEF fits
<1> DEFINE deficit == a - refilled + Refill - 1
<1>2. deficit \in Nat /\ retryAfter(a) = deficit \div Refill
  BY <1>1 DEF retryAfter
<1>3. deficit \div Refill \in Nat /\ deficit < (deficit \div Refill) * Refill + Refill
  BY <1>1, <1>2
<1> QED BY <1>1, <1>2, <1>3

-----------------------------------------------------------------------------
LEMMA LimiterInit == BucketInit => LimiterInv
BY BucketAssumption DEF BucketInit, LimiterInv, TypeOK, Reservations, Idle, RequestType, NoPromise

LEMMA LimiterStep == LimiterInv /\ [BucketNext]_bucketVars => LimiterInv'
<1> SUFFICES ASSUME LimiterInv, [BucketNext]_bucketVars PROVE LimiterInv'
  OBVIOUS
<1>0. TypeOK /\ Reservations BY DEF LimiterInv
<1>1. ASSUME NEW r \in Requests, NEW a \in Amounts, Reserve(r, a) PROVE LimiterInv'
  <2>1. PICK out \in Outcomes : RunScript(out, consumed(a))
    BY <1>1 DEF Reserve
  <2>2. /\ tokens' \in Int /\ tokens' <= Capacity
        /\ idle' \in 0 .. TTL /\ faults' \in 0 .. MaxFaults
    BY <2>1, <1>0, ConsumedRange, ScriptInRange
  <2>3. a \in Nat BY <1>0, ConsumedRange
  <2>4. /\ req' \in [Requests -> RequestType]
        /\ \A q \in Requests : req'[q].pc # "idle" => req'[q].reserved \in Amounts
    <3>1. \/ req' = req
          \/ req' = [req EXCEPT ![r] = [pc |-> "running", reserved |-> a, actual |-> 0]]
          \/ req' = [req EXCEPT ![r] = [pc |-> "settle", reserved |-> a, actual |-> 0]]
      BY <1>1 DEF Reserve, Idle
    <3>2. /\ [pc |-> "running", reserved |-> a, actual |-> 0] \in RequestType
          /\ [pc |-> "settle", reserved |-> a, actual |-> 0] \in RequestType
      BY BucketAssumption DEF RequestType
    <3> QED BY <3>1, <3>2, <1>0 DEF TypeOK, Reservations
  <2>5. used' \in Int /\ forgiven' \in Nat /\ ticks' \in 0 .. MaxTicks
    BY <1>1, <1>0, <2>3 DEF Reserve, TypeOK
  <2>6. promise' \in [amount : Nat, wait : Nat]
    BY <1>1, <1>0, <2>3, RetryAfterRange DEF Reserve, NoPromise
  <2> QED BY <2>2, <2>4, <2>5, <2>6 DEF LimiterInv, TypeOK, Reservations
<1>2. ASSUME NEW r \in Requests, Finish(r) PROVE LimiterInv'
  <2>1. PICK u \in 0 .. MaxUse :
          req' = [req EXCEPT ![r] = [req[r] EXCEPT !.pc = "settle", !.actual = u]]
    BY <1>2, Zenon DEF Finish
  <2>2. /\ req[r] \in RequestType /\ req[r].pc = "running" /\ req[r].reserved \in Amounts
    BY <1>0, <1>2 DEF TypeOK, Reservations, Finish
  <2>3. [req[r] EXCEPT !.pc = "settle", !.actual = u] \in RequestType
    BY <2>1, <2>2 DEF RequestType
  <2>4. /\ req' \in [Requests -> RequestType]
        /\ \A q \in Requests : req'[q].pc # "idle" => req'[q].reserved \in Amounts
    BY <2>1, <2>2, <2>3, <1>0 DEF TypeOK, Reservations, RequestType
  <2> QED BY <2>4, <1>0, <1>2 DEF LimiterInv, TypeOK, Reservations, Finish
<1>3. ASSUME NEW r \in Requests, Reconcile(r) PROVE LimiterInv'
  <2> DEFINE d == req[r].reserved - req[r].actual
  <2>1. d \in Int BY <1>0, RequestFields
  <2>2. req' = [req EXCEPT ![r] = Idle] /\ used' = used - d
        /\ promise' = NoPromise /\ ticks' = ticks /\ forgiven' = forgiven
    BY <1>3 DEF Reconcile
  <2>3. \/ UNCHANGED <<tokens, idle, faults>>
        \/ \E out \in Outcomes : RunScript(out, settledBalance(d))
    BY <1>3 DEF Reconcile
  <2> HIDE DEF d
  <2>4. /\ tokens' \in Int /\ tokens' <= Capacity
        /\ idle' \in 0 .. TTL /\ faults' \in 0 .. MaxFaults
    <3>1. CASE UNCHANGED <<tokens, idle, faults>>
      BY <3>1, <1>0 DEF TypeOK
    <3>2. CASE \E out \in Outcomes : RunScript(out, settledBalance(d))
      BY <3>2, <2>1, <1>0, SettledRange, ScriptInRange
    <3> QED BY <2>3, <3>1, <3>2
  <2>5. Idle \in RequestType /\ Idle.pc = "idle"
    BY BucketAssumption DEF Idle, RequestType
  <2>6. /\ req' \in [Requests -> RequestType]
        /\ \A q \in Requests : req'[q].pc # "idle" => req'[q].reserved \in Amounts
    BY <2>2, <2>5, <1>0 DEF TypeOK, Reservations
  <2> QED BY <2>1, <2>2, <2>4, <2>6, <1>0 DEF LimiterInv, TypeOK, Reservations, NoPromise
<1>4. ASSUME Tick PROVE LimiterInv'
  <2>1. promise' \in [amount : Nat, wait : Nat]
    <3>1. promise \in [amount : Nat, wait : Nat] BY <1>0 DEF TypeOK
    <3>2. promise.wait \in Nat /\ promise.amount \in Nat BY <3>1
    <3> QED BY <3>1, <3>2, <1>4 DEF Tick
  <2>2. ticks' \in 0 .. MaxTicks /\ idle' \in 0 .. TTL
    BY <1>0, <1>4, BucketAssumption DEF Tick, TypeOK
  <2>3. forgiven' \in Nat BY <1>0, <1>4, RefilledAfterTick
  <2> QED BY <2>1, <2>2, <2>3, <1>0, <1>4 DEF LimiterInv, TypeOK, Reservations, Tick
<1>5. CASE UNCHANGED bucketVars
  BY <1>0, <1>5 DEF LimiterInv, TypeOK, Reservations, bucketVars
<1> QED BY <1>1, <1>2, <1>3, <1>4, <1>5 DEF BucketNext

LEMMA LimiterInvariant == BucketSpec => []LimiterInv
<1>1. BucketInit => LimiterInv BY LimiterInit
<1>2. LimiterInv /\ [BucketNext]_bucketVars => LimiterInv' BY LimiterStep
<1> QED BY <1>1, <1>2, PTL DEF BucketSpec

\* However deep an overrun takes it, the stored balance stays a number of at
\* most Capacity, whatever is reserved and settled in whatever order, and a
\* Retry-After and what an expired key owed are never negative (consumeScript,
\* settleScript).
THEOREM BucketTypeCorrect == BucketSpec => []TypeOK
<1>1. LimiterInv => TypeOK BY DEF LimiterInv
<1> QED BY <1>1, LimiterInvariant, PTL

-----------------------------------------------------------------------------
\* What a step does to the balance the next script will find.
LEMMA RefilledUnchanged ==
  ASSUME UNCHANGED <<tokens, idle>>
  PROVE  refilled' = refilled
BY DEF refilled, full

\* A script either never ran, or left its balance behind.
LEMMA RefilledAfterScript ==
  ASSUME TypeOK, NEW out \in Outcomes, NEW x \in Int, x <= Capacity, RunScript(out, x)
  PROVE  /\ out = "lost" => refilled' = refilled
         /\ out # "lost" => refilled' = x
         /\ out # "ok" => faults' # MaxFaults
         /\ out = "ok" => faults' = faults
<1>1. CASE out = "lost"
  BY <1>1, RefilledUnchanged, BucketAssumption DEF RunScript, TypeOK
<1>2. CASE out # "lost"
  BY <1>2, RefilledAfterWrite, BucketAssumption DEF RunScript, TypeOK
<1> QED BY <1>1, <1>2

LEMMA SettlementRange ==
  ASSUME LimiterInv, NEW r \in Requests, req[r].pc # "idle"
  PROVE  /\ req[r].reserved - req[r].actual \in Settlements
         /\ req[r].reserved - req[r].actual \in Int
<1>1. req[r].reserved \in Amounts /\ req[r].actual \in 0 .. MaxUse
  BY RequestFields DEF LimiterInv, Reservations
<1>2. req[r].reserved \in Int /\ req[r].actual \in Int
  BY RequestFields DEF LimiterInv
<1>3. req[r].reserved - req[r].actual \in Settlements
  BY <1>1 DEF Settlements
<1>4. req[r].reserved - req[r].actual \in Int
  BY <1>2
<1> QED BY <1>3, <1>4

-----------------------------------------------------------------------------
LEMMA UsageStep == LimiterInv /\ UsageIsLimited /\ [BucketNext]_bucketVars => UsageIsLimited'
<1> SUFFICES ASSUME LimiterInv, UsageIsLimited, [BucketNext]_bucketVars, faults' = MaxFaults
             PROVE  refilled' + used' <= Capacity + ticks' * Refill + forgiven'
  BY DEF UsageIsLimited
<1>0. TypeOK BY DEF LimiterInv
<1>t. /\ refilled \in Int /\ refilled <= Capacity
      /\ used \in Int /\ forgiven \in Nat /\ ticks \in Nat /\ ticks * Refill \in Nat
      /\ (ticks + 1) * Refill = ticks * Refill + Refill
      /\ Capacity \in Nat /\ Refill \in Nat
  BY <1>0, RefilledRange, OneMoreUnit, BucketAssumption DEF TypeOK
<1>u. faults = MaxFaults => refilled + used <= Capacity + ticks * Refill + forgiven
  BY DEF UsageIsLimited
<1>1. ASSUME NEW r \in Requests, NEW a \in Amounts, Reserve(r, a)
      PROVE  refilled' + used' <= Capacity + ticks' * Refill + forgiven'
  <2>1. PICK out \in Outcomes :
          /\ RunScript(out, consumed(a))
          /\ out = "ok" => \/ fits(a) /\ used' = used + a
                           \/ ~ fits(a) /\ used' = used
    BY <1>1 DEF Reserve
  <2>2. /\ a \in Nat /\ consumed(a) \in Int /\ consumed(a) <= Capacity
    BY <1>0, ConsumedRange
  <2>3. out = "ok" /\ refilled' = consumed(a) /\ faults = MaxFaults
    BY <2>1, <2>2, <1>0, RefilledAfterScript
  <2>4. refilled' + used' = refilled + used
    BY <2>1, <2>2, <2>3, <1>t DEF consumed
  <2> QED BY <2>3, <2>4, <1>u, <1>1 DEF Reserve
<1>2. ASSUME NEW r \in Requests, Finish(r)
      PROVE  refilled' + used' <= Capacity + ticks' * Refill + forgiven'
  BY <1>2, <1>u, RefilledUnchanged DEF Finish
<1>3. ASSUME NEW r \in Requests, Reconcile(r)
      PROVE  refilled' + used' <= Capacity + ticks' * Refill + forgiven'
  <2> DEFINE d == req[r].reserved - req[r].actual
  <2>1. d \in Int BY <1>3, SettlementRange DEF Reconcile
  <2>2. /\ used' = used - d /\ ticks' = ticks /\ forgiven' = forgiven
        /\ \/ d = 0 /\ UNCHANGED <<tokens, idle, faults>>
           \/ \E out \in Outcomes : RunScript(out, settledBalance(d))
    BY <1>3 DEF Reconcile
  <2> HIDE DEF d
  <2>3. /\ settledBalance(d) \in Int /\ settledBalance(d) <= Capacity /\ settledBalance(d) <= refilled + d
    BY <2>1, <1>0, SettledRange
  <2>4. CASE d = 0 /\ UNCHANGED <<tokens, idle, faults>>
    BY <2>2, <2>4, <1>t, <1>u, RefilledUnchanged
  <2>5. ASSUME NEW out \in Outcomes, RunScript(out, settledBalance(d))
        PROVE  refilled' + used' <= Capacity + ticks' * Refill + forgiven'
    <3>1. refilled' = settledBalance(d) /\ faults = MaxFaults
      BY <2>3, <2>5, <1>0, RefilledAfterScript
    <3> QED BY <3>1, <2>1, <2>2, <2>3, <1>t, <1>u
  <2> QED BY <2>2, <2>4, <2>5
<1>4. ASSUME Tick PROVE refilled' + used' <= Capacity + ticks' * Refill + forgiven'
  <2>1. /\ refilled' \in Int /\ forgiven' \in Nat
        /\ refilled' <= full(refilled + Refill) + (forgiven' - forgiven)
    BY <1>0, <1>4, RefilledAfterTick
  <2>2. full(refilled + Refill) \in Int /\ full(refilled + Refill) <= refilled + Refill
    BY <1>t DEF full
  <2>3. used' = used /\ faults = MaxFaults /\ ticks' * Refill = ticks * Refill + Refill
    BY <1>4, <1>t DEF Tick
  <2> QED BY <2>1, <2>2, <2>3, <1>t, <1>u
<1>5. CASE UNCHANGED bucketVars
  BY <1>5, <1>u, RefilledUnchanged DEF bucketVars
<1> QED BY <1>1, <1>2, <1>3, <1>4, <1>5 DEF BucketNext

\* The rate limit holds for any number of requests, any sizes and any overruns:
\* as long as every script ran, held and used tokens never exceed one full
\* bucket, the refill of the elapsed time and what expired keys still owed,
\* although every script caps the balance on its own (consumeScript,
\* settleScript, Reconcile).
THEOREM LimitHolds == BucketSpec => []UsageIsLimited
<1>1. BucketInit => UsageIsLimited
  BY OneMoreUnit, BucketAssumption DEF BucketInit, UsageIsLimited, refilled, full
<1>2. LimiterInv /\ UsageIsLimited /\ [BucketNext]_bucketVars => UsageIsLimited' BY UsageStep
<1> QED BY <1>1, <1>2, LimiterInvariant, PTL DEF BucketSpec

-----------------------------------------------------------------------------
\* A script that ran leaves a fresh balance, which is deep or not; one that
\* never ran leaves everything alone.
LEMMA UseAfterScript ==
  ASSUME TypeOK, NEW out \in Outcomes, NEW x \in Int, x <= Capacity, RunScript(out, x)
  PROVE  UNCHANGED <<refilled, sunk>> \/ Continuous!Use(x)
<1>1. CASE out = "lost"
  BY <1>1, RefilledUnchanged DEF RunScript, sunk
<1>2. CASE out # "lost"
  <2>1. refilled' = x BY <1>2, RefilledAfterScript
  <2>2. tokens' = x /\ idle' = 0 BY <1>2 DEF RunScript
  <2>3. sunk' = (x < - Capacity) BY <2>2, BucketAssumption DEF sunk
  <2> QED BY <2>1, <2>3 DEF Continuous!Use
<1> QED BY <1>1, <1>2

LEMMA RefinementStep == LimiterInv /\ [BucketNext]_bucketVars => [Continuous!Next]_<<refilled, sunk>>
<1> SUFFICES ASSUME LimiterInv, [BucketNext]_bucketVars
             PROVE  Continuous!Next \/ UNCHANGED <<refilled, sunk>>
  OBVIOUS
<1>0. TypeOK BY DEF LimiterInv
<1>s. ASSUME UNCHANGED <<tokens, idle>> PROVE UNCHANGED <<refilled, sunk>>
  BY <1>s, RefilledUnchanged DEF sunk
<1>1. ASSUME NEW r \in Requests, NEW a \in Amounts, Reserve(r, a)
      PROVE  Continuous!Next \/ UNCHANGED <<refilled, sunk>>
  <2>1. PICK out \in Outcomes : RunScript(out, consumed(a))
    BY <1>1 DEF Reserve
  <2>2. a \in Nat /\ consumed(a) \in Int /\ consumed(a) <= Capacity /\ refilled \in Int
    BY <1>0, ConsumedRange, RefilledRange
  <2>3. UNCHANGED <<refilled, sunk>> \/ Continuous!Use(consumed(a))
    BY <2>1, <2>2, <1>0, UseAfterScript
  <2>4. CASE Continuous!Use(consumed(a)) /\ fits(a)
    <3>1. consumed(a) = refilled - a /\ refilled >= a BY <2>4 DEF consumed, fits
    <3>2. Continuous!Take(a) BY <2>4, <3>1 DEF Continuous!Take
    <3> QED BY <3>2 DEF Continuous!Next
  <2>5. CASE Continuous!Use(consumed(a)) /\ ~ fits(a)
    <3>1. consumed(a) = refilled /\ refilled < a BY <2>5, <2>2 DEF consumed, fits
    <3>2. Continuous!Refuse(a) BY <2>5, <3>1 DEF Continuous!Refuse
    <3> QED BY <3>2 DEF Continuous!Next
  <2> QED BY <2>3, <2>4, <2>5
<1>2. ASSUME NEW r \in Requests, Finish(r) PROVE UNCHANGED <<refilled, sunk>>
  BY <1>2, <1>s DEF Finish
<1>3. ASSUME NEW r \in Requests, Reconcile(r)
      PROVE  Continuous!Next \/ UNCHANGED <<refilled, sunk>>
  <2> DEFINE d == req[r].reserved - req[r].actual
  <2>1. d \in Settlements /\ d \in Int BY <1>3, SettlementRange DEF Reconcile
  <2>2. \/ UNCHANGED <<tokens, idle, faults>>
        \/ \E out \in Outcomes : RunScript(out, settledBalance(d))
    BY <1>3 DEF Reconcile
  <2> HIDE DEF d
  <2>3. settledBalance(d) \in Int /\ settledBalance(d) <= Capacity BY <2>1, <1>0, SettledRange
  <2>4. ASSUME NEW out \in Outcomes, RunScript(out, settledBalance(d))
        PROVE  Continuous!Next \/ UNCHANGED <<refilled, sunk>>
    <3>1. UNCHANGED <<refilled, sunk>> \/ Continuous!Use(settledBalance(d))
      BY <2>3, <2>4, <1>0, UseAfterScript
    <3>2. CASE Continuous!Use(settledBalance(d))
      <4>1. settledBalance(d) = Continuous!Full(refilled + d)
        BY DEF Continuous!Full, settledBalance, full
      <4>2. Continuous!Settle(d) BY <3>2, <4>1 DEF Continuous!Settle
      <4> QED BY <4>2, <2>1 DEF Continuous!Next
    <3> QED BY <3>1, <3>2
  <2>5. CASE UNCHANGED <<tokens, idle, faults>>
    BY <2>5, <1>s
  <2> QED BY <2>2, <2>4, <2>5
<1>4. ASSUME Tick PROVE Continuous!Next \/ UNCHANGED <<refilled, sunk>>
  <2>t. /\ idle \in 0 .. TTL /\ TTL \in Nat /\ tokens' = tokens
        /\ idle' = IF idle < TTL THEN idle + 1 ELSE TTL
    BY <1>0, <1>4, BucketAssumption DEF TypeOK, Tick
  <2>1. CASE idle' = TTL /\ sunk
    <3>1. refilled' = Capacity BY <2>1 DEF refilled
    <3>2. sunk /\ sunk' = FALSE BY <2>1, <2>t DEF sunk
    <3>3. Continuous!Forget BY <3>1, <3>2 DEF Continuous!Forget
    <3> QED BY <3>3 DEF Continuous!Next
  <2>2. CASE ~ (idle' = TTL /\ sunk)
    <3>1. forgiven' = forgiven BY <2>2, <1>0, <1>4, RefilledAfterTick DEF sunk
    <3>2. refilled' = full(refilled + Refill) BY <3>1, <1>0, <1>4, RefilledAfterTick
    <3>3. sunk' = sunk BY <2>2, <2>t DEF sunk
    <3>4. Continuous!Accrue BY <3>2, <3>3 DEF Continuous!Accrue, Continuous!Full, full
    <3> QED BY <3>4 DEF Continuous!Next
  <2> QED BY <2>1, <2>2
<1>5. CASE UNCHANGED bucketVars
  BY <1>5, <1>s DEF bucketVars
<1> QED BY <1>1, <1>2, <1>3, <1>4, <1>5 DEF BucketNext

\* The lazily refilled Redis key, with its expiry and with scripts that fail
\* or take effect unseen, is a bucket that refills all the time: every script
\* is a Take, a Refuse, a Settle or nothing, and the expiry of a key is
\* invisible unless its last writer left more than a bucket of debt
\* (consumeScript, settleScript, bucketTTL).
THEOREM BucketRefines == BucketSpec => ImplementsContinuousBucket
<1>1. BucketInit => Continuous!Init
  BY BucketAssumption DEF BucketInit, Continuous!Init, refilled, full, sunk
<1>2. LimiterInv /\ [BucketNext]_bucketVars => [Continuous!Next]_<<refilled, sunk>> BY RefinementStep
<1> QED BY <1>1, <1>2, LimiterInvariant, PTL DEF BucketSpec, ImplementsContinuousBucket, Continuous!Spec

-----------------------------------------------------------------------------
\* The part of a Retry-After that has not passed yet is still enough.
PromiseKept ==
  promise.amount > 0 => refilled + promise.wait * Refill >= full(promise.amount)

LEMMA PromiseStep == LimiterInv /\ PromiseKept /\ [BucketNext]_bucketVars => PromiseKept'
<1> SUFFICES ASSUME LimiterInv, PromiseKept, [BucketNext]_bucketVars PROVE PromiseKept'
  OBVIOUS
<1>0. TypeOK BY DEF LimiterInv
<1>n. ASSUME promise' = NoPromise PROVE PromiseKept'
  BY <1>n DEF PromiseKept, NoPromise
<1>1. ASSUME NEW r \in Requests, NEW a \in Amounts, Reserve(r, a) PROVE PromiseKept'
  <2>1. \/ promise' = NoPromise
        \/ /\ RunScript("ok", consumed(a)) /\ ~ fits(a)
           /\ promise' = [amount |-> a, wait |-> retryAfter(a)]
    BY <1>1 DEF Reserve
  <2>2. CASE /\ RunScript("ok", consumed(a)) /\ ~ fits(a)
             /\ promise' = [amount |-> a, wait |-> retryAfter(a)]
    <3>1. a \in Nat /\ consumed(a) \in Int /\ consumed(a) <= Capacity BY <1>0, ConsumedRange
    <3>2. "ok" \in Outcomes BY DEF Outcomes
    <3>3. refilled' = consumed(a) BY <3>1, <3>2, <2>2, <1>0, RefilledAfterScript
    <3>4. consumed(a) = refilled BY <2>2 DEF consumed
    <3>5. /\ refilled' + retryAfter(a) * Refill >= a
          /\ refilled' \in Int /\ retryAfter(a) * Refill \in Nat
      BY <3>3, <3>4, <2>2, <1>0, RetryAfterRange, RefilledRange, OneMoreUnit
    <3>6. full(a) \in Int /\ full(a) <= a BY <3>1, BucketAssumption DEF full
    <3>7. refilled' + retryAfter(a) * Refill >= full(a) BY <3>5, <3>6, <3>1
    <3> QED BY <3>7, <2>2 DEF PromiseKept, full
  <2> QED BY <2>1, <2>2, <1>n
<1>2. ASSUME NEW r \in Requests, Finish(r) PROVE PromiseKept'
  BY <1>2, RefilledUnchanged DEF Finish, PromiseKept, full
<1>3. ASSUME NEW r \in Requests, Reconcile(r) PROVE PromiseKept'
  BY <1>3, <1>n DEF Reconcile
<1>4. ASSUME Tick PROVE PromiseKept'
  <2>1. refilled' \in Int /\ refilled' >= full(refilled + Refill) BY <1>0, <1>4, RefilledAfterTick
  <2>2. /\ promise \in [amount : Nat, wait : Nat]
        /\ promise.amount \in Nat /\ promise.wait \in Nat
    BY <1>0 DEF TypeOK
  <2>3. /\ refilled \in Int /\ refilled <= Capacity /\ Capacity \in Nat /\ Refill \in Nat
    BY <1>0, RefilledRange, BucketAssumption
  <2>4. CASE promise.wait = 0
    <3>1. promise' = promise BY <1>4, <2>4, <2>2 DEF Tick
    <3>2. refilled' >= refilled BY <2>1, <2>3 DEF full
    <3>3. 0 * Refill = 0 BY OneMoreUnit
    <3> QED BY <3>1, <3>2, <3>3, <2>1, <2>2, <2>3, <2>4 DEF PromiseKept, full
  <2>5. CASE promise.wait > 0
    <3>1. PICK w \in Nat : promise.wait = w + 1
      <4>1. promise.wait - 1 \in Nat /\ promise.wait = (promise.wait - 1) + 1 BY <2>2, <2>5
      <4> QED BY <4>1
    <3>2. promise'.amount = promise.amount /\ promise'.wait = w
      BY <1>4, <2>2, <2>5, <3>1 DEF Tick
    <3>3. w * Refill \in Nat /\ (w + 1) * Refill = w * Refill + Refill BY OneMoreUnit
    <3>4. promise.amount > 0 => refilled + (w * Refill + Refill) >= full(promise.amount)
      BY <3>1, <3>3 DEF PromiseKept
    <3>5. promise.amount > 0 => refilled' + w * Refill >= full(promise.amount)
      BY <3>3, <3>4, <2>1, <2>2, <2>3 DEF full
    <3> QED BY <3>2, <3>5 DEF PromiseKept, full
  <2> QED BY <2>2, <2>4, <2>5
<1>5. CASE UNCHANGED bucketVars
  BY <1>5, RefilledUnchanged DEF bucketVars, PromiseKept, full
<1> QED BY <1>1, <1>2, <1>3, <1>4, <1>5 DEF BucketNext

\* A caller that waits for its Retry-After finds enough tokens, or a full
\* bucket if it asks for more than that, unless another request came first,
\* whatever the amounts and the debts are (consumeScript's
\* deficit / refill_per_sec, writeRateLimitHeaders).
THEOREM RetryAfterSuffices == BucketSpec => []RetryAfterIsEnough
<1>1. BucketInit => PromiseKept BY DEF BucketInit, PromiseKept, NoPromise
<1>2. LimiterInv /\ PromiseKept /\ [BucketNext]_bucketVars => PromiseKept' BY PromiseStep
<1>3. LimiterInv /\ PromiseKept => RetryAfterIsEnough
  <2> SUFFICES ASSUME LimiterInv, PromiseKept, promise.amount > 0, promise.wait = 0
               PROVE  refilled >= full(promise.amount)
    BY DEF RetryAfterIsEnough
  <2>1. refilled \in Int BY RefilledRange DEF LimiterInv
  <2>2. 0 * Refill = 0 BY OneMoreUnit
  <2> QED BY <2>1, <2>2 DEF PromiseKept
<1> QED BY <1>1, <1>2, <1>3, LimiterInvariant, PTL DEF BucketSpec
=============================================================================
