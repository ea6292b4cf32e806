--------------------------- MODULE SessionsProofs ---------------------------
(***************************************************************************)
(* Sessions for every number of tabs, sessions, faults and units of time:  *)
(* the five invariants its run checks on two tabs follow from one          *)
(* inductive invariant, SessionsInv.                                       *)
(***************************************************************************)
EXTENDS Sessions, WellFoundedInduction, NaturalsInduction, TLAPS

Holding == {"rotate", "revokeAll", "revoking"}   \* steps that hold a row lock
OnRow == Holding \cup {"select", "revoke"}       \* steps of a refresh or a logout
SigningIn == {"google", "lookup", "create", "bootstrap", "issue"}

\* A refresh or logout is about a session that exists, a sign-in about none; an answer
\* about a session gives the successor of that session or clears the jar.
RequestIsSound(t) ==
  /\ req[t].sid \in 0 .. made /\ req[t].seen \in 0 .. made
  /\ req[t].targets \cup req[t].locked \subseteq 1 .. req[t].seen
  /\ req[t].pc # "revoking" => req[t].targets = {} /\ req[t].locked = {} /\ req[t].seen = 0
  /\ req[t].pc \in OnRow => req[t].sid # 0
  /\ req[t].pc \in SigningIn \cup {"idle"} => req[t].sid = 0
  /\ req[t].pc = "reply" /\ req[t].sid # 0 => req[t].reply # "none"
  /\ req[t].reply = "session" => /\ req[t].pc = "reply"
                                 /\ req[t].token.sid \in 1 .. made \ {req[t].sid}
  /\ req[t].reply # "session" => req[t].token = NoToken

RequestsAreSound == \A t \in Tabs : RequestIsSound(t)

\* Row locks are exclusive, and the holder of one knows the row's state: it lives while
\* it is being rotated, and has ended when a replay of it is being answered.
LocksAreExclusive ==
  \A t \in Tabs :
    /\ \A u \in Tabs : t # u /\ req[t].pc \in Holding /\ req[u].pc \in Holding => req[t].sid # req[u].sid
    /\ req[t].pc = "rotate" => rows[req[t].sid].revoked = Never /\ ~ rows[req[t].sid].rotated
    /\ req[t].pc \in {"revokeAll", "revoking"} => rows[req[t].sid].revoked # Never

\* What was rotated has ended, and what a replay is ending it will have ended.
EndsAreKept ==
  /\ \A i \in 1 .. made : rows[i].parent \in 0 .. made /\ (rows[i].rotated => rows[i].revoked # Never)
  /\ condemned \subseteq 1 .. made
  /\ \A i \in condemned : rows[i].revoked # Never
  /\ \A t \in Tabs : req[t].pc = "revoking" =>
       \A i \in 1 .. req[t].seen : i \in req[t].targets \cup req[t].locked \/ rows[i].revoked # Never

\* A token, in the jar or on its way, outlives its session by AccessTTL at most.
Bounded(token) ==
  /\ token.sid \in 0 .. made
  /\ token.exp <= now + AccessTTL
  /\ token.sid # 0 /\ rows[token.sid].revoked # Never => token.exp <= rows[token.sid].revoked + AccessTTL
  /\ token.sa => acct.superadmin

TokensAreBounded == Bounded(jar.access) /\ \A t \in Tabs : Bounded(req[t].token)

\* A successor on its way to the browser is known to nobody else.
SuccessorsAreSecret ==
  \A t \in Tabs : req[t].reply = "session" =>
    LET i == req[t].token.sid
    IN  /\ jar.refresh # i
        /\ \A u \in Tabs : req[u].sid # i /\ (u # t => req[u].token.sid # i)
        /\ rows[i].revoked = Never \/ i \in condemned

\* A session that two requests are about is disturbed.
SharedIsDisturbed ==
  \A t, u \in Tabs : t # u /\ req[t].sid = req[u].sid /\ req[t].sid # 0 => req[t].sid \in disturbed

\* A session that has ended without being disturbed or condemned is presented by
\* nobody, and is out of the jar or about to be taken out of it.
EndedIsRetired ==
  \A i \in 1 .. made : i \notin disturbed \cup condemned /\ rows[i].revoked # Never =>
    /\ \A t \in Tabs : req[t].pc = "select" => req[t].sid # i
    /\ jar.refresh = i => \E t \in Tabs : req[t].pc = "reply" /\ req[t].sid = i

TokensAreKnown == jar.refresh \in 0 .. made /\ SuccessorsAreSecret /\ SharedIsDisturbed /\ EndedIsRetired

\* The rows an UPDATE has reached are locked by nobody else, and lie before those it has
\* yet to reach.
ScansAreOrdered ==
  \A t \in Tabs :
    /\ \A u \in Tabs : t # u => Held(t) \cap req[u].locked = {}
    /\ \A i \in req[t].locked, j \in req[t].targets : HeapPlace[i] < HeapPlace[j]

SessionsInv ==
  /\ TypeOK /\ GrantsAudited /\ ChainsAreLinear /\ RequestsAreSound /\ LocksAreExclusive
  /\ EndsAreKept /\ TokensAreBounded /\ TokensAreKnown /\ ScansAreOrdered /\ ~ falseAlarm

-----------------------------------------------------------------------------
USE DEF Ids, Times, Never

\* The assumption on the constants, one by one.
LEMMA Constants ==
  /\ NoTab \notin Tabs /\ Superadmin \in BOOLEAN
  /\ MaxSessions \in Nat \ {0} /\ AccessTTL \in Nat \ {0} /\ RefreshTTL \in Nat \ {0}
  /\ MaxTime \in Nat /\ MaxFaults \in Nat
BY SessionsAssumption

\* No two rows lie in one place.
LEMMA Places == HeapPlace \in [Ids -> Ids] /\ \A i, j \in Ids : HeapPlace[i] = HeapPlace[j] => i = j
BY SessionsAssumption

\* The fields of a request that is over.
LEMMA IdleFields ==
  /\ Idle \in Request
  /\ Idle.pc = "idle" /\ Idle.sid = 0 /\ Idle.targets = {} /\ Idle.locked = {} /\ Idle.seen = 0
  /\ Idle.reply = "none" /\ Idle.token = NoToken /\ Idle.login = FALSE
  /\ NoToken \in Token /\ NoToken.sid = 0 /\ NoToken.exp = 0 /\ NoToken.sa = FALSE
BY Constants DEF Request, Idle, Steps, Token, NoToken

\* What TypeOK says of the fields the other invariants speak of.
LEMMA Fields ==
  ASSUME TypeOK
  PROVE  /\ \A t \in Tabs : /\ req[t] \in Request
                            /\ req[t].pc \in Steps /\ req[t].sid \in Nat /\ req[t].seen \in Nat
                            /\ req[t].targets \subseteq Ids /\ req[t].locked \subseteq Ids
                            /\ req[t].reply \in {"none", "session", "clear"}
                            /\ req[t].token \in Token /\ req[t].login \in BOOLEAN
                            /\ req[t].token.sid \in Nat /\ req[t].token.exp \in Nat
                            /\ req[t].token.sa \in BOOLEAN
         /\ \A i \in Ids : /\ rows[i] \in Row /\ rows[i].parent \in Nat /\ rows[i].expires \in Nat
                           /\ rows[i].revoked \in Nat /\ rows[i].rotated \in BOOLEAN
         /\ jar.access \in Token /\ jar.access.sid \in Nat /\ jar.access.exp \in Nat
         /\ jar.access.sa \in BOOLEAN /\ jar.refresh \in Nat
         /\ made \in 0 .. MaxSessions /\ now \in 0 .. MaxTime
         /\ condemned \subseteq Ids /\ disturbed \subseteq Ids
<1>1. \A t \in Tabs : req[t] \in Request
  BY DEF TypeOK
<1>2. \A q \in Request : /\ q.pc \in Steps /\ q.sid \in Nat /\ q.seen \in Nat /\ q.targets \subseteq Ids /\ q.locked \subseteq Ids
                         /\ q.reply \in {"none", "session", "clear"} /\ q.token \in Token /\ q.login \in BOOLEAN
  BY Constants DEF Request
<1>3. \A k \in Token : k.sid \in Nat /\ k.exp \in Nat /\ k.sa \in BOOLEAN
  BY Constants DEF Token
<1>4. \A i \in Ids : /\ rows[i] \in Row /\ rows[i].parent \in Nat /\ rows[i].expires \in Nat
                     /\ rows[i].revoked \in Nat /\ rows[i].rotated \in BOOLEAN
  BY Constants DEF TypeOK, Row
<1>5. jar.access \in Token /\ jar.refresh \in Nat
  BY Constants DEF TypeOK
<1> QED BY <1>1, <1>2, <1>3, <1>4, <1>5 DEF TypeOK

-----------------------------------------------------------------------------
(* What the helpers of Sessions do to the requests, field by field.        *)

Others(t) == \A u \in Tabs : u # t => req'[u] = req[u]

LEMMA GotoEffect ==
  ASSUME TypeOK, NEW t \in Tabs, NEW pc \in Steps, goto(t, pc)
  PROVE  /\ req' \in [Tabs -> Request] /\ Others(t)
         /\ req'[t].pc = pc /\ req'[t].sid = req[t].sid /\ req'[t].targets = req[t].targets /\ req'[t].locked = req[t].locked
         /\ req'[t].seen = req[t].seen /\ req'[t].reply = req[t].reply /\ req'[t].token = req[t].token
<1>1. req[t] \in Request BY DEF TypeOK
<1>2. [req[t] EXCEPT !.pc = pc] \in Request BY <1>1 DEF Request
<1>3. req' = [req EXCEPT ![t] = [req[t] EXCEPT !.pc = pc]] BY DEF goto
<1>4. req'[t] = [req[t] EXCEPT !.pc = pc] BY <1>3 DEF TypeOK
<1> QED BY <1>1, <1>2, <1>3, <1>4 DEF TypeOK, Others, Request

LEMMA AnswerEffect ==
  ASSUME TypeOK, NEW t \in Tabs, NEW reply \in {"none", "session", "clear"}, answer(t, reply)
  PROVE  /\ req' \in [Tabs -> Request] /\ Others(t)
         /\ req'[t].pc = "reply" /\ req'[t].sid = req[t].sid /\ req'[t].targets = {} /\ req'[t].locked = {}
         /\ req'[t].seen = 0 /\ req'[t].reply = reply /\ req'[t].token = NoToken
<1> DEFINE q == [Idle EXCEPT !.pc = "reply", !.sid = req[t].sid, !.login = req[t].login, !.reply = reply]
<1>1. req[t] \in Request BY DEF TypeOK
<1>2. q \in Request BY <1>1, IdleFields DEF Request, Steps
<1>3. req' = [req EXCEPT ![t] = q] BY DEF answer
<1>4. req'[t] = q BY <1>3 DEF TypeOK
<1>5. /\ q.pc = "reply" /\ q.sid = req[t].sid /\ q.targets = {} /\ q.locked = {}
      /\ q.seen = 0 /\ q.reply = reply /\ q.token = NoToken
  BY IdleFields DEF Request
<1> HIDE DEF q
<1> QED BY <1>2, <1>3, <1>4, <1>5 DEF TypeOK, Others

LEMMA PutEffect ==
  ASSUME TypeOK, NEW t \in Tabs, NEW q \in Request, req' = [req EXCEPT ![t] = q]
  PROVE  req' \in [Tabs -> Request] /\ Others(t) /\ req'[t] = q
BY DEF TypeOK, Others

LEMMA GivenEffect ==
  ASSUME TypeOK, NEW t \in Tabs, NEW i \in Ids, given(t, i)
  PROVE  /\ req' \in [Tabs -> Request] /\ Others(t)
         /\ req'[t].pc = "reply" /\ req'[t].sid = req[t].sid /\ req'[t].targets = req[t].targets /\ req'[t].locked = req[t].locked
         /\ req'[t].seen = req[t].seen /\ req'[t].reply = "session" /\ req'[t].token = mint(i)
<1> DEFINE q == [req[t] EXCEPT !.pc = "reply", !.reply = "session", !.token = mint(i)]
<1>1. req[t] \in Request BY DEF TypeOK
<1>2. mint(i) \in Token BY Constants DEF TypeOK, mint, Token
<1>3. q \in Request BY <1>1, <1>2 DEF Request, Steps
<1>4. req' = [req EXCEPT ![t] = q] BY DEF given
<1>5. /\ q.pc = "reply" /\ q.sid = req[t].sid /\ q.targets = req[t].targets /\ q.locked = req[t].locked
      /\ q.seen = req[t].seen /\ q.reply = "session" /\ q.token = mint(i)
  BY <1>1 DEF Request
<1> HIDE DEF q
<1> QED BY <1>3, <1>4, <1>5, PutEffect

-----------------------------------------------------------------------------
(* Steps that touch no session.                                            *)

\* Only a scan that goes on can disturb the order of scans; a step of another kind takes at
\* most the lock of the row it is about.
LEMMA ScansKept ==
  ASSUME ScansAreOrdered, NEW t \in Tabs, Others(t), req'[t].locked = {},
         req'[t].pc \in Holding => \A u \in Tabs : u # t => req'[t].sid \notin req[u].locked
  PROVE  ScansAreOrdered'
<1>1. ASSUME NEW u \in Tabs, u # t
      PROVE  Held(u)' = Held(u) /\ req'[u].locked = req[u].locked /\ req'[u].targets = req[u].targets
  BY <1>1 DEF Others, Held
<1>2. ASSUME NEW u \in Tabs, u # t
      PROVE  Held(t)' \cap req'[u].locked = {} /\ Held(u)' \cap req'[t].locked = {}
  BY <1>1, <1>2 DEF Held, Holding
<1> QED BY <1>1, <1>2 DEF ScansAreOrdered

\* A step of a sign-in, and of a request that reads no row: nothing is known of a
\* session that was not known before.
LEMMA QuietStep ==
  ASSUME SessionsInv, NEW t \in Tabs, Others(t), TypeOK', GrantsAudited',
         req[t].pc \in SigningIn \cup {"idle"},
         req'[t].pc \in SigningIn \cup {"reply"}, req'[t].sid = 0,
         req'[t].targets = {} /\ req'[t].locked = {}, req'[t].seen = 0, req'[t].reply \in {"none", "clear"},
         req'[t].token = NoToken,
         jar'.access = jar.access, jar'.refresh = jar.refresh,
         acct.superadmin => acct'.superadmin,
         UNCHANGED <<rows, made, now, falseAlarm, condemned, disturbed>>
  PROVE  SessionsInv'
<1> USE DEF Others
<1>1. ChainsAreLinear'
  BY DEF SessionsInv, ChainsAreLinear
<1>2. RequestsAreSound'
  BY Fields, IdleFields DEF SessionsInv, RequestsAreSound, RequestIsSound, OnRow, Holding, SigningIn
<1>3. LocksAreExclusive'
  BY DEF SessionsInv, LocksAreExclusive, Holding, SigningIn
<1>4. EndsAreKept'
  BY DEF SessionsInv, EndsAreKept, SigningIn
<1>5. TokensAreBounded'
  BY Constants, Fields, IdleFields DEF SessionsInv, TokensAreBounded, Bounded
<1>6. TokensAreKnown'
  BY Fields, IdleFields DEF SessionsInv, TokensAreKnown, RequestsAreSound, RequestIsSound, SuccessorsAreSecret, SharedIsDisturbed, EndedIsRetired, SigningIn
<1>7. ScansAreOrdered'
  BY ScansKept DEF SessionsInv, SigningIn, Holding
<1> QED BY <1>1, <1>2, <1>3, <1>4, <1>5, <1>6, <1>7 DEF SessionsInv

LEMMA StartKeeps ==
  ASSUME SessionsInv, NEW t \in Tabs, start(t)
  PROVE  SessionsInv'
<1> DEFINE q == [Idle EXCEPT !.pc = "google", !.login = TRUE]
<1>1. /\ q \in Request /\ q.pc = "google" /\ q.sid = 0 /\ q.targets = {} /\ q.locked = {} /\ q.seen = 0
      /\ q.reply = "none" /\ q.token = NoToken
  BY IdleFields DEF Request, Steps
<1> HIDE DEF q
<1>2. /\ req' \in [Tabs -> Request] /\ Others(t) /\ req'[t] = q
  BY <1>1, PutEffect DEF start, SessionsInv, q
<1>3. /\ jar' \in [state : Tabs \cup {NoTab}, access : Token, refresh : Ids \cup {0}, until : Nat, csrf : Nat]
      /\ jar'.access = jar.access /\ jar'.refresh = jar.refresh
  BY DEF start, SessionsInv, TypeOK
<1>4. TypeOK' /\ GrantsAudited'
  BY <1>2, <1>3 DEF start, SessionsInv, TypeOK, history, GrantsAudited
<1>5. UNCHANGED <<rows, made, now, falseAlarm, condemned, disturbed, acct>> /\ req[t].pc = "idle"
  BY DEF start, history
<1> QED BY <1>1, <1>2, <1>3, <1>4, <1>5, QuietStep DEF SigningIn

\* callback, signInExisting and create move the request on, or answer it.
LEMMA SignInKeeps ==
  ASSUME SessionsInv, NEW t \in Tabs,
         signInExisting(t) \/ create(t) \/ \E a \in Answers : callback(t, a)
  PROVE  SessionsInv'
<1>1. \/ \E pc \in {"lookup", "bootstrap", "create"} : goto(t, pc)
      \/ answer(t, "none")
  BY DEF signInExisting, create, callback
<1>2. UNCHANGED <<acct, rows, made, jar, now, faults, falseAlarm, condemned, disturbed>>
  BY DEF signInExisting, create, callback, history
<1>3. req[t].pc \in SigningIn
  BY DEF signInExisting, create, callback, SigningIn
<1>4. /\ req[t].sid = 0 /\ req[t].targets = {} /\ req[t].locked = {} /\ req[t].seen = 0
      /\ req[t].reply # "session" /\ req[t].token = NoToken
  BY <1>3 DEF SessionsInv, RequestsAreSound, RequestIsSound, SigningIn
<1>5. /\ req' \in [Tabs -> Request] /\ Others(t) /\ req'[t].pc \in SigningIn \cup {"reply"}
      /\ req'[t].sid = 0 /\ req'[t].targets = {} /\ req'[t].locked = {} /\ req'[t].seen = 0
      /\ req'[t].reply \in {"none", "clear"} /\ req'[t].token = NoToken
  <2>1. CASE answer(t, "none")
    BY <2>1, <1>4, AnswerEffect DEF SessionsInv
  <2>2. CASE \E pc \in {"lookup", "bootstrap", "create"} : goto(t, pc)
    BY <2>2, <1>4, GotoEffect, Fields DEF SessionsInv, SigningIn, Steps
  <2> QED BY <1>1, <2>1, <2>2
<1>6. TypeOK' /\ GrantsAudited'
  BY <1>2, <1>5 DEF SessionsInv, TypeOK, GrantsAudited
<1> QED BY <1>2, <1>3, <1>5, <1>6, QuietStep

\* The two bootstrap changes and their audit entries are one transaction.
LEMMA BootstrapKeeps ==
  ASSUME SessionsInv, NEW t \in Tabs, NEW out \in Outcomes, applyBootstrap(t, out)
  PROVE  SessionsInv'
<1>1. goto(t, "issue") \/ answer(t, "none")
  BY DEF applyBootstrap
<1>2. UNCHANGED <<rows, made, jar, now, falseAlarm, condemned, disturbed>> /\ req[t].pc = "bootstrap"
  BY DEF applyBootstrap, history
<1>3. faults' \in 0 .. MaxFaults
  BY Constants DEF applyBootstrap, spend, Outcomes, SessionsInv, TypeOK
<1>4. /\ acct' \in [exists : BOOLEAN, superadmin : BOOLEAN, owned : BOOLEAN, grants : Nat, claims : Nat]
      /\ acct.superadmin => acct'.superadmin
      /\ GrantsAudited'
  <2> USE DEF SessionsInv, TypeOK, GrantsAudited
  <2>1. CASE acct' = acct
    BY <2>1
  <2>2. CASE acct' = bootstrapped(acct) /\ ~ Superadmin
    BY <2>2 DEF bootstrapped
  <2>3. CASE acct' = bootstrapped(acct) /\ Superadmin
    <3> DEFINE g == IF acct.superadmin THEN acct.grants ELSE acct.grants + 1
               c == IF acct.owned THEN acct.claims ELSE acct.claims + 1
    <3>1. g \in Nat /\ c \in Nat
      OBVIOUS
    <3>2. acct' = [acct EXCEPT !.exists = TRUE, !.superadmin = TRUE, !.owned = TRUE, !.grants = g, !.claims = c]
      BY <2>3 DEF bootstrapped
    <3> HIDE DEF g, c
    <3>3. /\ acct' \in [exists : BOOLEAN, superadmin : BOOLEAN, owned : BOOLEAN, grants : Nat, claims : Nat]
          /\ acct'.superadmin /\ acct'.owned /\ acct'.grants = g /\ acct'.claims = c
      BY <3>1, <3>2
    <3> QED BY <3>3 DEF g, c
  <2> QED BY <2>1, <2>2, <2>3 DEF applyBootstrap
<1>5. /\ req[t].sid = 0 /\ req[t].targets = {} /\ req[t].locked = {} /\ req[t].seen = 0
      /\ req[t].reply # "session" /\ req[t].token = NoToken
  BY <1>2 DEF SessionsInv, RequestsAreSound, RequestIsSound, SigningIn
<1>6. /\ req' \in [Tabs -> Request] /\ Others(t) /\ req'[t].pc \in SigningIn \cup {"reply"}
      /\ req'[t].sid = 0 /\ req'[t].targets = {} /\ req'[t].locked = {} /\ req'[t].seen = 0
      /\ req'[t].reply \in {"none", "clear"} /\ req'[t].token = NoToken
  <2>1. CASE answer(t, "none")
    BY <2>1, <1>5, AnswerEffect DEF SessionsInv
  <2>2. CASE goto(t, "issue")
    BY <2>2, <1>5, GotoEffect, Fields DEF SessionsInv, SigningIn, Steps
  <2> QED BY <1>1, <2>1, <2>2
<1>7. TypeOK'
  BY <1>2, <1>3, <1>4, <1>6 DEF SessionsInv, TypeOK
<1> QED BY <1>2, <1>4, <1>6, <1>7, QuietStep DEF SigningIn

LEMMA MeKeeps ==
  ASSUME SessionsInv, NEW t \in Tabs, me(t)
  PROVE  SessionsInv'
<1>1. UNCHANGED <<acct, rows, made, jar, now, falseAlarm, condemned, disturbed>> /\ req[t].pc = "idle"
  BY DEF me, history
<1>2. /\ req' \in [Tabs -> Request] /\ Others(t) /\ req'[t].pc = "reply"
      /\ req'[t].sid = req[t].sid /\ req'[t].targets = {} /\ req'[t].locked = {} /\ req'[t].seen = 0
      /\ req'[t].reply = "clear" /\ req'[t].token = NoToken
  BY AnswerEffect DEF me, SessionsInv
<1>3. req[t].sid = 0
  BY <1>1 DEF SessionsInv, RequestsAreSound, RequestIsSound
<1>4. TypeOK' /\ GrantsAudited'
  BY <1>1, <1>2, Constants DEF me, SessionsInv, TypeOK, GrantsAudited
<1> QED BY <1>1, <1>2, <1>3, <1>4, QuietStep

-----------------------------------------------------------------------------
(* A refresh or a logout, up to its first statement.                       *)

\* A session that is presented while it is in use is disturbed from then on.
LEMMA SendKeeps ==
  ASSUME SessionsInv, NEW t \in Tabs, NEW pc \in {"select", "revoke"}, send(t, pc)
  PROVE  SessionsInv'
<1> DEFINE q == IF jar.refresh = 0 THEN [Idle EXCEPT !.pc = "reply", !.reply = "clear"]
                                   ELSE [Idle EXCEPT !.pc = pc, !.sid = jar.refresh]
<1>1. TypeOK
  BY DEF SessionsInv
<1>2. /\ q \in Request /\ q.targets = {} /\ q.locked = {} /\ q.seen = 0 /\ q.token = NoToken /\ q.sid = jar.refresh
      /\ q.reply \in {"none", "clear"}
      /\ IF jar.refresh = 0 THEN q.pc = "reply" /\ q.reply = "clear" ELSE q.pc = pc
  BY <1>1, IdleFields DEF Request, Steps, TypeOK
<1> HIDE DEF q
<1>3. /\ req' \in [Tabs -> Request] /\ Others(t) /\ req'[t] = q
  BY <1>1, <1>2, PutEffect DEF send, q
<1>4. UNCHANGED <<acct, rows, made, jar, now, faults, falseAlarm, condemned>> /\ req[t].pc = "idle"
  BY DEF send
<1>5. /\ disturbed' = IF Using(jar.refresh) # {} THEN disturbed \cup {jar.refresh} ELSE disturbed
      /\ disturbed' \subseteq Ids
  BY <1>1 DEF send, Using, TypeOK
<1>6. TypeOK' /\ GrantsAudited'
  BY <1>3, <1>4, <1>5 DEF SessionsInv, TypeOK, GrantsAudited
<1> USE DEF Others
<1>7. ChainsAreLinear'
  BY <1>4 DEF SessionsInv, ChainsAreLinear
<1>8. RequestsAreSound'
  BY <1>2, <1>3, <1>4, Fields DEF SessionsInv, RequestsAreSound, RequestIsSound, TokensAreKnown, OnRow, Holding, SigningIn
<1>9. LocksAreExclusive'
  BY <1>2, <1>3, <1>4 DEF SessionsInv, LocksAreExclusive, Holding
<1>10. EndsAreKept'
  BY <1>2, <1>3, <1>4 DEF SessionsInv, EndsAreKept
<1>11. TokensAreBounded'
  BY <1>2, <1>3, <1>4, Constants, Fields, IdleFields DEF SessionsInv, TokensAreBounded, Bounded
<1>12. TokensAreKnown'
  <2>1. \A u \in Tabs : req[u].sid = jar.refresh /\ jar.refresh # 0 => jar.refresh \in disturbed'
    BY <1>5 DEF Using
  <2>2. \A u \in Tabs : req'[u].reply = "session" => u # t /\ req[u].reply = "session"
    BY <1>2, <1>3
  <2> QED BY <2>1, <2>2, <1>2, <1>3, <1>4, <1>5, IdleFields, Fields
          DEF SessionsInv, TokensAreKnown, RequestsAreSound, RequestIsSound, SuccessorsAreSecret, SharedIsDisturbed, EndedIsRetired
<1>13. ScansAreOrdered'
  BY <1>2, <1>3, ScansKept DEF SessionsInv, Holding
<1> QED BY <1>4, <1>6, <1>7, <1>8, <1>9, <1>10, <1>11, <1>12, <1>13 DEF SessionsInv

\* The lookup takes the row's lock and reads the row under it.  It raises no false
\* alarm: a session that nothing disturbed and that has ended is presented by nobody.
LEMMA SelectKeeps ==
  ASSUME SessionsInv, NEW t \in Tabs, selectForUpdate(t)
  PROVE  SessionsInv'
<1> DEFINE i == req[t].sid
<1>1. /\ TypeOK /\ req[t].pc = "select" /\ i \in 1 .. made /\ ~ Locked(i)
      /\ req[t].targets = {} /\ req[t].locked = {} /\ req[t].seen = 0 /\ req[t].reply # "session" /\ req[t].token = NoToken
  BY Fields DEF SessionsInv, selectForUpdate, RequestsAreSound, RequestIsSound, OnRow
<1>2. UNCHANGED <<acct, rows, made, jar, now, faults, condemned, disturbed>>
  BY DEF selectForUpdate
<1>3. rows[i].rotated => rows[i].revoked # Never
  BY <1>1 DEF SessionsInv, EndsAreKept
<1>4. /\ req' \in [Tabs -> Request] /\ Others(t) /\ req'[t].sid = i
      /\ req'[t].targets = {} /\ req'[t].locked = {} /\ req'[t].seen = 0 /\ req'[t].reply # "session" /\ req'[t].token = NoToken
      /\ IF rows[i].revoked # Never THEN req'[t].pc = "revokeAll"
         ELSE \/ req'[t].pc = "reply" /\ req'[t].reply = "clear"
              \/ req'[t].pc = "rotate" /\ ~ rows[i].rotated
  <2>1. CASE rows[i].revoked # Never
    BY <2>1, <1>1, GotoEffect DEF selectForUpdate, Steps
  <2>2. CASE rows[i].revoked = Never /\ rows[i].expires < now
    <3>1. answer(t, "clear") BY <2>2, <1>3 DEF selectForUpdate
    <3> QED BY <3>1, <2>2, <1>1, AnswerEffect
  <2>3. CASE rows[i].revoked = Never /\ ~ (rows[i].expires < now)
    <3>1. goto(t, "rotate") BY <2>3, <1>3 DEF selectForUpdate
    <3> QED BY <3>1, <2>3, <1>1, <1>3, GotoEffect DEF Steps
  <2> QED BY <2>1, <2>2, <2>3
<1>5. ~ falseAlarm'
  <2>1. rows[i].revoked # Never => i \in disturbed \cup condemned
    BY <1>1 DEF SessionsInv, TokensAreKnown, SuccessorsAreSecret, SharedIsDisturbed, EndedIsRetired
  <2> QED BY <2>1, <1>3 DEF SessionsInv, selectForUpdate
<1>6. TypeOK' /\ GrantsAudited'
  <2>1. falseAlarm' \in BOOLEAN BY DEF SessionsInv, TypeOK, selectForUpdate
  <2> QED BY <2>1, <1>2, <1>4 DEF SessionsInv, TypeOK, GrantsAudited
<1>7. \A u \in Tabs : u # t /\ req[u].pc \in Holding => req[u].sid # i
  BY <1>1 DEF Locked, Held, Holding
<1> HIDE DEF i
<1> USE DEF Others
<1>8. ChainsAreLinear'
  BY <1>2 DEF SessionsInv, ChainsAreLinear
<1>9. RequestsAreSound'
  BY <1>1, <1>2, <1>4, Fields DEF SessionsInv, RequestsAreSound, RequestIsSound, OnRow, Holding, SigningIn
<1>10. LocksAreExclusive'
  BY <1>1, <1>2, <1>4, <1>7 DEF SessionsInv, LocksAreExclusive, Holding
<1>11. EndsAreKept'
  BY <1>2, <1>4 DEF SessionsInv, EndsAreKept
<1>12. TokensAreBounded'
  BY <1>2, <1>4, Constants, Fields, IdleFields DEF SessionsInv, TokensAreBounded, Bounded
<1>13. TokensAreKnown'
  BY <1>1, <1>2, <1>4, IdleFields, Fields DEF SessionsInv, TokensAreKnown, RequestsAreSound, RequestIsSound, SuccessorsAreSecret, SharedIsDisturbed, EndedIsRetired, i
<1>14. ScansAreOrdered'
  <2>1. \A u \in Tabs : i \notin req[u].locked
    BY <1>1 DEF SessionsInv, RequestsAreSound, RequestIsSound, Locked, Held
  <2> QED BY <2>1, <1>4, ScansKept DEF SessionsInv
<1> QED BY <1>5, <1>6, <1>8, <1>9, <1>10, <1>11, <1>12, <1>13, <1>14 DEF SessionsInv

\* A replay's UPDATE begins with no row locked but the one that was presented.
LEMMA RevokeAllKeeps ==
  ASSUME SessionsInv, NEW t \in Tabs, revokeAll(t)
  PROVE  SessionsInv'
<1> DEFINE live == {i \in 1 .. made : rows[i].revoked = Never}
           q == [req[t] EXCEPT !.pc = "revoking", !.seen = made, !.targets = live]
<1>1. /\ TypeOK /\ req[t].pc = "revokeAll" /\ req[t] \in Request
      /\ req[t].sid \in 1 .. made /\ req[t].reply # "session" /\ req[t].token = NoToken
      /\ req[t].locked = {}
  BY Fields DEF SessionsInv, revokeAll, RequestsAreSound, RequestIsSound, OnRow, Holding
<1>2. UNCHANGED <<acct, rows, made, jar, now, faults, falseAlarm, condemned, disturbed>>
  BY DEF revokeAll, history
<1>3. /\ q \in Request /\ q.pc = "revoking" /\ q.seen = made /\ q.targets = live /\ q.locked = {}
      /\ q.sid = req[t].sid /\ q.reply = req[t].reply /\ q.token = req[t].token
  <2>1. live \subseteq Ids /\ made \in 0 .. MaxSessions BY <1>1, Constants, Fields
  <2> HIDE DEF live
  <2> QED BY <2>1, <1>1 DEF Request, Steps
<1>4. /\ req' \in [Tabs -> Request] /\ Others(t) /\ req'[t] = q
  <2>1. req' = [req EXCEPT ![t] = q] BY DEF revokeAll
  <2> HIDE DEF q
  <2> QED BY <2>1, <1>1, <1>3, PutEffect
<1> HIDE DEF q
<1>5. TypeOK' /\ GrantsAudited'
  BY <1>2, <1>4 DEF SessionsInv, TypeOK, GrantsAudited
<1> USE DEF Others
<1>6. ChainsAreLinear'
  BY <1>2 DEF SessionsInv, ChainsAreLinear
<1>7. RequestsAreSound'
  BY <1>1, <1>2, <1>3, <1>4, Fields DEF SessionsInv, RequestsAreSound, RequestIsSound, OnRow, Holding, SigningIn
<1>8. LocksAreExclusive'
  BY <1>1, <1>2, <1>3, <1>4 DEF SessionsInv, LocksAreExclusive, Holding
<1>9. EndsAreKept'
  BY <1>2, <1>3, <1>4 DEF SessionsInv, EndsAreKept
<1>10. TokensAreBounded'
  BY <1>1, <1>2, <1>3, <1>4, Constants, Fields, IdleFields DEF SessionsInv, TokensAreBounded, Bounded
<1>11. TokensAreKnown'
  BY <1>1, <1>2, <1>3, <1>4, IdleFields, Fields, SMTT(40) DEF SessionsInv, TokensAreKnown, RequestsAreSound, RequestIsSound, SuccessorsAreSecret, SharedIsDisturbed, EndedIsRetired
<1>12. ScansAreOrdered'
  <2>1. \A u \in Tabs : u # t => req[t].sid \notin req[u].locked
    BY <1>1 DEF SessionsInv, ScansAreOrdered, Held
  <2> QED BY <2>1, <1>3, <1>4, ScansKept DEF SessionsInv
<1> QED BY <1>2, <1>5, <1>6, <1>7, <1>8, <1>9, <1>10, <1>11, <1>12 DEF SessionsInv

\* The UPDATE goes on to the first of its rows, which nobody else has locked.
LEMMA LockRowKeeps ==
  ASSUME SessionsInv, NEW t \in Tabs, lockRow(t)
  PROVE  SessionsInv'
<1>1. PICK i \in reached(t) :
        /\ \A u \in Tabs : u # t => i \notin Held(u)
        /\ req' = [req EXCEPT ![t].targets = @ \ {i}, ![t].locked = @ \cup {i}]
  BY DEF lockRow
<1> DEFINE q == [req[t] EXCEPT !.targets = req[t].targets \ {i}, !.locked = req[t].locked \cup {i}]
<1>2. /\ TypeOK /\ req[t].pc = "revoking" /\ req[t] \in Request
      /\ i \in req[t].targets /\ \A j \in req[t].targets : HeapPlace[i] <= HeapPlace[j]
      /\ req[t].targets \subseteq Ids /\ req[t].locked \subseteq Ids
  BY Fields DEF SessionsInv, lockRow, reached
<1>3. UNCHANGED <<acct, rows, made, jar, now, faults, falseAlarm, condemned, disturbed>>
  BY DEF lockRow, history
<1>4. /\ q \in Request /\ q.pc = "revoking" /\ q.seen = req[t].seen /\ q.sid = req[t].sid
      /\ q.targets = req[t].targets \ {i} /\ q.locked = req[t].locked \cup {i}
      /\ q.reply = req[t].reply /\ q.token = req[t].token
  BY <1>2 DEF Request
<1>5. /\ req' \in [Tabs -> Request] /\ Others(t) /\ req'[t] = q
  <2>1. req' = [req EXCEPT ![t] = q] BY <1>1
  <2> HIDE DEF q
  <2> QED BY <2>1, <1>2, <1>4, PutEffect
<1> HIDE DEF q
<1>6. TypeOK' /\ GrantsAudited' /\ ChainsAreLinear'
  BY <1>3, <1>5 DEF SessionsInv, TypeOK, GrantsAudited, ChainsAreLinear
<1> USE DEF Others
<1>7. RequestsAreSound'
  BY <1>2, <1>3, <1>4, <1>5 DEF SessionsInv, RequestsAreSound, RequestIsSound, OnRow, Holding, SigningIn
<1>8. LocksAreExclusive'
  BY <1>2, <1>3, <1>4, <1>5 DEF SessionsInv, LocksAreExclusive, Holding
<1>9. EndsAreKept'
  BY <1>2, <1>3, <1>4, <1>5 DEF SessionsInv, EndsAreKept
<1>10. TokensAreBounded'
  BY <1>3, <1>4, <1>5 DEF SessionsInv, TokensAreBounded, Bounded
<1>11. TokensAreKnown'
  BY <1>2, <1>3, <1>4, <1>5 DEF SessionsInv, TokensAreKnown, SuccessorsAreSecret, SharedIsDisturbed, EndedIsRetired
<1>12. ScansAreOrdered'
  <2>1. ASSUME NEW u \in Tabs, u # t
        PROVE  Held(u)' = Held(u) /\ req'[u].locked = req[u].locked /\ req'[u].targets = req[u].targets
    BY <2>1, <1>5 DEF Held
  <2>2. Held(t)' = Held(t) \cup {i}
    BY <1>2, <1>4, <1>5 DEF Held
  <2>3. \A u \in Tabs : req[u].locked \subseteq Held(u)
    BY DEF SessionsInv, RequestsAreSound, RequestIsSound, Held
  <2>4. ASSUME NEW u \in Tabs, NEW v \in Tabs, u # v PROVE Held(u)' \cap req'[v].locked = {}
    <3>1. Held(u) \cap req[v].locked = {} BY <2>4 DEF SessionsInv, ScansAreOrdered
    <3>2. CASE u = t BY <3>1, <3>2, <2>1, <2>2, <2>3, <2>4, <1>1
    <3>3. CASE v = t BY <3>1, <3>3, <2>1, <2>4, <1>1, <1>4, <1>5
    <3>4. CASE u # t /\ v # t BY <3>1, <3>4, <2>1
    <3> QED BY <3>2, <3>3, <3>4
  <2>5. \A j \in req[t].targets \ {i} : HeapPlace[i] < HeapPlace[j]
    BY <1>2, Places
  <2>6. \A j \in req[t].locked, k \in req[t].targets : HeapPlace[j] < HeapPlace[k]
    BY DEF SessionsInv, ScansAreOrdered
  <2>7. ASSUME NEW u \in Tabs
        PROVE  \A j \in req'[u].locked, k \in req'[u].targets : HeapPlace[j] < HeapPlace[k]
    <3>1. CASE u = t BY <3>1, <2>5, <2>6, <1>4, <1>5
    <3>2. CASE u # t BY <3>2, <2>1 DEF SessionsInv, ScansAreOrdered
    <3> QED BY <3>1, <3>2
  <2> QED BY <2>4, <2>7 DEF ScansAreOrdered
<1> QED BY <1>3, <1>6, <1>7, <1>8, <1>9, <1>10, <1>11, <1>12 DEF SessionsInv

-----------------------------------------------------------------------------
(* Steps that write the sessions table.                                    *)

\* The fields of a new row.
LEMMA NewRow ==
  ASSUME TypeOK, NEW p \in Ids \cup {0}
  PROVE  /\ insertSession(p) \in Row /\ insertSession(p).parent = p
         /\ insertSession(p).revoked = Never /\ ~ insertSession(p).rotated
<1>1. now + RefreshTTL \in Nat
  BY Constants, Fields
<1>2. NoRow \in Row /\ NoRow.revoked = Never /\ ~ NoRow.rotated
  BY Constants DEF NoRow, Row
<1> QED BY <1>1, <1>2 DEF insertSession, Row

LEMMA Minted ==
  ASSUME TypeOK, NEW i \in Ids
  PROVE  mint(i) \in Token /\ mint(i).sid = i /\ mint(i).exp = now + AccessTTL /\ mint(i).sa = acct.superadmin
<1>1. now + AccessTTL \in Nat /\ acct.superadmin \in BOOLEAN
  BY Constants, Fields DEF TypeOK
<1> QED BY <1>1 DEF mint, Token

\* A sign-in's session is the next one, has no parent, and its token is known to the
\* reply only.
LEMMA CreateSessionKeeps ==
  ASSUME SessionsInv, NEW t \in Tabs, NEW out \in Outcomes, CreateSession(t, out)
  PROVE  SessionsInv'
<1>1. /\ TypeOK /\ req[t].pc = "issue" /\ made + 1 \in Ids /\ req[t].sid = 0
      /\ req[t].targets = {} /\ req[t].locked = {} /\ req[t].seen = 0 /\ req[t].reply # "session" /\ req[t].token = NoToken
  <2>1. TypeOK /\ req[t].pc = "issue" /\ made \in 0 .. MaxSessions /\ made < MaxSessions
    BY DEF SessionsInv, CreateSession, room, TypeOK
  <2>2. made + 1 \in Ids
    BY <2>1, Constants
  <2> QED BY <2>1, <2>2 DEF SessionsInv, RequestsAreSound, RequestIsSound, SigningIn
<1>2. UNCHANGED <<acct, jar, now, falseAlarm, condemned, disturbed>>
  BY DEF CreateSession
<1>3. faults' \in 0 .. MaxFaults
  BY Constants DEF CreateSession, spend, Outcomes, SessionsInv, TypeOK
<1>4. CASE out = "lost"
  <2>1. UNCHANGED <<rows, made>> /\ answer(t, "none")
    BY <1>4 DEF CreateSession
  <2>2. /\ req' \in [Tabs -> Request] /\ Others(t) /\ req'[t].pc = "reply"
        /\ req'[t].sid = 0 /\ req'[t].targets = {} /\ req'[t].locked = {} /\ req'[t].seen = 0
        /\ req'[t].reply = "none" /\ req'[t].token = NoToken
    BY <1>1, <2>1, AnswerEffect
  <2>3. TypeOK' /\ GrantsAudited'
    BY <1>2, <1>3, <2>1, <2>2 DEF SessionsInv, TypeOK, GrantsAudited
  <2> QED BY <1>1, <1>2, <2>1, <2>2, <2>3, QuietStep DEF SigningIn
<1>5. CASE out # "lost"
  <2>1. rows' = [rows EXCEPT ![made + 1] = insertSession(0)] /\ made' = made + 1
    BY <1>5 DEF CreateSession
  <2>2. /\ rows' \in [Ids -> Row] /\ \A j \in 1 .. made : rows'[j] = rows[j]
        /\ rows'[made'].parent = 0 /\ rows'[made'].revoked = Never /\ ~ rows'[made'].rotated
        /\ made' \in 0 .. MaxSessions /\ made' = made + 1
    <3>1. insertSession(0) \in Row BY <1>1, NewRow
    <3>2. rows \in [Ids -> Row] /\ made \in 0 .. MaxSessions BY <1>1 DEF TypeOK
    <3>3. rows'[made'] = insertSession(0) BY <1>1, <2>1, <3>2
    <3>4. \A j \in 1 .. made : rows'[j] = rows[j] BY <2>1, <3>2
    <3>5. rows' \in [Ids -> Row] BY <2>1, <3>1, <3>2
    <3> QED BY <1>1, <2>1, <3>3, <3>4, <3>5, NewRow, Constants
  <2>3. /\ req' \in [Tabs -> Request] /\ Others(t) /\ req'[t].pc = "reply"
        /\ req'[t].sid = 0 /\ req'[t].targets = {} /\ req'[t].locked = {} /\ req'[t].seen = 0
        /\ \/ req'[t].reply = "session" /\ req'[t].token = mint(made')
           \/ req'[t].reply = "none" /\ req'[t].token = NoToken
    <3>1. CASE out = "ok"
      BY <1>1, <2>1, <3>1, GivenEffect DEF CreateSession
    <3>2. CASE out # "ok"
      BY <1>1, <3>2, AnswerEffect DEF CreateSession
    <3> QED BY <3>1, <3>2
  <2>4. /\ mint(made') \in Token /\ mint(made').sid = made' /\ mint(made').exp = now + AccessTTL
        /\ mint(made').sa = acct.superadmin
    BY <1>1, <2>1, Minted
  <2>5. TypeOK' /\ GrantsAudited'
    BY <1>2, <1>3, <2>2, <2>3 DEF SessionsInv, TypeOK, GrantsAudited
  <2> USE DEF Others
  <2>6. /\ \A j \in 1 .. made' : j \in 1 .. made \/ j = made'
        /\ \A j \in 0 .. made : j \in 0 .. made' /\ j # made'
        /\ \A j \in 1 .. made : j \in 1 .. made' /\ j # 0
    BY <2>1, <1>1, Fields
  <2>7. ChainsAreLinear'
    <3>1. \A j \in 1 .. made : rows[j].parent # 0 => rows[j].parent \in 1 .. made
      BY <1>1, Fields DEF SessionsInv, EndsAreKept
    <3> QED BY <3>1, <2>2, <2>6 DEF SessionsInv, ChainsAreLinear
  <2>8. RequestsAreSound'
    <3>1. RequestIsSound(t)'
      <4>1. /\ 0 \in 0 .. made' /\ made' \in 1 .. made' \ {0}
        BY <1>1, <2>1, <2>2
      <4> QED BY <4>1, <2>3, <2>4 DEF RequestIsSound, OnRow, Holding, SigningIn
    <3>2. ASSUME NEW u \in Tabs, u # t PROVE RequestIsSound(u)'
      BY <3>2, <2>3, <2>6 DEF SessionsInv, RequestsAreSound, RequestIsSound
    <3> QED BY <3>1, <3>2 DEF RequestsAreSound
  <2>9. LocksAreExclusive'
    <3>1. \A u \in Tabs : req[u].pc \in Holding => req[u].sid \in 1 .. made
      BY <1>1, Fields DEF SessionsInv, RequestsAreSound, RequestIsSound, OnRow
    <3> QED BY <3>1, <1>1, <2>2, <2>3 DEF SessionsInv, LocksAreExclusive, Holding
  <2>10. EndsAreKept'
    <3>1. \A u \in Tabs : \A j \in 1 .. req[u].seen : j \in 1 .. made
      BY <1>1, Fields DEF SessionsInv, RequestsAreSound, RequestIsSound
    <3> QED BY <3>1, <1>1, <1>2, <2>2, <2>3, <2>6 DEF SessionsInv, EndsAreKept
  <2>11. TokensAreBounded'
    <3>1. ASSUME NEW k, k \in Token, Bounded(k) PROVE Bounded(k)'
      <4>1. k.sid # 0 => k.sid \in 1 .. made BY <3>1, <1>1, Fields DEF Bounded
      <4> QED BY <4>1, <3>1, <1>2, <2>2, <2>6 DEF Bounded
    <3>2. ASSUME NEW k, k = NoToken \/ k = mint(made') PROVE Bounded(k)'
      BY <3>2, <1>1, <1>2, <2>2, <2>4, IdleFields, Constants, Fields DEF Bounded
    <3> QED BY <3>1, <3>2, <1>1, <1>2, <2>3, Fields DEF SessionsInv, TokensAreBounded
  <2>12. TokensAreKnown'
    <3>1. \A u \in Tabs : req[u].reply = "session" => req[u].token.sid \in 1 .. made
      BY DEF SessionsInv, RequestsAreSound, RequestIsSound
    <3>2. \A u \in Tabs : req[u].sid # made' /\ req[u].token.sid # made' /\ req[u].sid \in 0 .. made
      BY <2>6, <1>1 DEF SessionsInv, RequestsAreSound, RequestIsSound, TokensAreBounded, Bounded
    <3>3. jar.refresh # made'
      BY <2>6 DEF SessionsInv, TokensAreKnown
    <3>4. jar'.refresh \in 0 .. made'
      BY <1>2, <2>6 DEF SessionsInv, TokensAreKnown
    <3>5. SuccessorsAreSecret'
      <4> SUFFICES ASSUME NEW u \in Tabs, req'[u].reply = "session", NEW i, i = req'[u].token.sid
                   PROVE  /\ jar'.refresh # i /\ (rows'[i].revoked = Never \/ i \in condemned')
                          /\ \A v \in Tabs : req'[v].sid # i /\ (v # u => req'[v].token.sid # i)
        BY DEF SuccessorsAreSecret
      <4>1. CASE u = t
        BY <4>1, <3>2, <3>3, <1>1, <1>2, <2>2, <2>3, <2>4, IdleFields
      <4>2. CASE u # t
        BY <4>2, <3>1, <3>2, <1>1, <1>2, <2>2, <2>3, <2>4, <2>6, IdleFields
        DEF SessionsInv, TokensAreKnown, SuccessorsAreSecret
      <4> QED BY <4>1, <4>2
    <3>6. SharedIsDisturbed'
      BY <1>1, <1>2, <2>3 DEF SessionsInv, TokensAreKnown, SharedIsDisturbed
    <3>7. EndedIsRetired'
      BY <1>1, <1>2, <2>2, <2>3, <2>6 DEF SessionsInv, TokensAreKnown, EndedIsRetired
    <3> QED BY <3>4, <3>5, <3>6, <3>7 DEF TokensAreKnown
  <2>13. ScansAreOrdered'
    BY <2>3, ScansKept DEF SessionsInv, Holding
  <2> QED BY <1>2, <2>5, <2>7, <2>8, <2>9, <2>10, <2>11, <2>12, <2>13 DEF SessionsInv
<1> QED BY <1>4, <1>5

\* The end of a replay or of a logout: the sessions in E end, those of them that are
\* not condemned being the one that t was about, and t's answer clears the jar.
LEMMA EndingStep ==
  ASSUME SessionsInv, NEW t \in Tabs, Others(t), TypeOK',
         req[t].pc \in {"revoking", "revoke"},
         req'[t].pc = "reply", req'[t].sid = req[t].sid, req'[t].targets = {} /\ req'[t].locked = {}, req'[t].seen = 0,
         req'[t].reply = "clear", req'[t].token = NoToken,
         UNCHANGED <<acct, made, jar, now, falseAlarm, disturbed>>,
         NEW E \in SUBSET (1 .. made),
         \A j \in 1 .. made :
           /\ rows'[j].parent = rows[j].parent /\ (rows'[j].rotated <=> rows[j].rotated)
           /\ rows'[j].revoked = IF j \in E /\ rows[j].revoked = Never THEN now ELSE rows[j].revoked,
         \A u \in Tabs : req[u].pc = "rotate" => req[u].sid \notin E,
         condemned \subseteq condemned', condemned' \subseteq 1 .. made,
         \A j \in E : j \in condemned' \/ j = req[t].sid,
         \A j \in condemned' : rows'[j].revoked # Never
  PROVE  SessionsInv'
<1> USE DEF Others
<1>1. /\ TypeOK /\ now # Never /\ req[t].sid \in 1 .. made /\ req[t].reply # "session"
  <2>1. TypeOK BY DEF SessionsInv
  <2>2. now # Never BY <2>1, Fields, Constants
  <2>3. req[t].sid # 0 /\ req[t].sid \in 0 .. made /\ req[t].reply # "session"
    BY DEF SessionsInv, RequestsAreSound, RequestIsSound, OnRow, Holding
  <2> QED BY <2>1, <2>2, <2>3, Fields
<1>2. \A j \in 1 .. made : rows[j].revoked # Never => rows'[j].revoked = rows[j].revoked
  OBVIOUS
<1>3. /\ \A u \in Tabs : req[u].sid # 0 => req[u].sid \in 1 .. made
      /\ \A u \in Tabs : req[u].token.sid # 0 => req[u].token.sid \in 1 .. made
      /\ \A u \in Tabs : req[u].pc \in Holding => req[u].sid \in 1 .. made
      /\ jar.access.sid # 0 => jar.access.sid \in 1 .. made
  BY <1>1, Fields DEF SessionsInv, RequestsAreSound, RequestIsSound, TokensAreBounded, Bounded, OnRow
<1>4. GrantsAudited'
  BY DEF SessionsInv, GrantsAudited
<1>5. ChainsAreLinear'
  <2>1. \A j \in 1 .. made : rows[j].parent # 0 => rows[j].parent \in 1 .. made
    BY <1>1, Fields DEF SessionsInv, EndsAreKept
  <2> QED BY <2>1 DEF SessionsInv, ChainsAreLinear
<1>6. RequestsAreSound'
  <2>1. RequestIsSound(t)'
    BY <1>1, Fields DEF RequestIsSound, OnRow, Holding, SigningIn
  <2>2. ASSUME NEW u \in Tabs, u # t PROVE RequestIsSound(u)'
    <3>1. RequestIsSound(u) /\ req'[u] = req[u] /\ made' = made BY <2>2 DEF SessionsInv, RequestsAreSound
    <3> QED BY <3>1 DEF RequestIsSound
  <2> QED BY <2>1, <2>2 DEF RequestsAreSound
<1>7. LocksAreExclusive'
  BY <1>2, <1>3 DEF SessionsInv, LocksAreExclusive, Holding
<1>8. EndsAreKept'
  <2>1. \A u \in Tabs : \A j \in 1 .. req[u].seen : j \in 1 .. made
    BY <1>1, Fields DEF SessionsInv, RequestsAreSound, RequestIsSound
  <2> QED BY <1>1, <1>2, <2>1 DEF SessionsInv, EndsAreKept
<1>9. TokensAreBounded'
  <2>1. ASSUME NEW k \in Token, Bounded(k) PROVE Bounded(k)'
    <3>1. k.sid # 0 => k.sid \in 1 .. made BY <2>1, <1>1, Fields DEF Bounded, Token
    <3> QED BY <2>1, <3>1 DEF Bounded
  <2>2. Bounded(NoToken)'
    BY <1>1, IdleFields, Constants, Fields DEF Bounded
  <2> QED BY <2>1, <2>2, <1>1, Fields DEF SessionsInv, TokensAreBounded
<1>10. TokensAreKnown'
  <2>1. SuccessorsAreSecret'
    BY <1>1, <1>3, IdleFields DEF SessionsInv, TokensAreKnown, SuccessorsAreSecret, RequestsAreSound, RequestIsSound
  <2>2. SharedIsDisturbed'
    BY DEF SessionsInv, TokensAreKnown, SharedIsDisturbed
  <2>3. EndedIsRetired'
    <3> SUFFICES ASSUME NEW j \in 1 .. made, j \notin disturbed \cup condemned', rows'[j].revoked # Never
                 PROVE  /\ \A u \in Tabs : req'[u].pc = "select" => req'[u].sid # j
                        /\ jar.refresh = j => \E u \in Tabs : req'[u].pc = "reply" /\ req'[u].sid = j
      BY DEF EndedIsRetired
    <3>1. CASE rows[j].revoked # Never
      BY <3>1 DEF SessionsInv, TokensAreKnown, EndedIsRetired
    <3>2. CASE rows[j].revoked = Never
      <4>1. j = req[t].sid BY <3>2
      <4> QED BY <4>1, <1>1 DEF SessionsInv, TokensAreKnown, SharedIsDisturbed
    <3> QED BY <3>1, <3>2
  <2> QED BY <2>1, <2>2, <2>3 DEF SessionsInv, TokensAreKnown
<1>11. ScansAreOrdered'
  BY ScansKept DEF SessionsInv, Holding
<1> QED BY <1>4, <1>5, <1>6, <1>7, <1>8, <1>9, <1>10, <1>11 DEF SessionsInv

\* A replay ends all it saw alive, and by then condemns nothing that still lives.
LEMMA CommitRevokeAllKeeps ==
  ASSUME SessionsInv, NEW t \in Tabs, NEW out \in Outcomes, commitRevokeAll(t, out)
  PROVE  SessionsInv'
<1>1. /\ TypeOK /\ req[t].pc = "revoking" /\ req[t].sid \in 1 .. made
      /\ req[t].seen \in 0 .. made /\ req[t].locked \subseteq 1 .. req[t].seen
  BY Fields DEF SessionsInv, RequestsAreSound, RequestIsSound, OnRow, Holding, commitRevokeAll
<1>2. UNCHANGED <<acct, made, jar, now, falseAlarm, disturbed>> /\ answer(t, "clear")
  BY DEF commitRevokeAll
<1>3. faults' \in 0 .. MaxFaults
  BY Constants DEF commitRevokeAll, spend, Outcomes, SessionsInv, TypeOK
<1>4. /\ req' \in [Tabs -> Request] /\ Others(t) /\ req'[t].pc = "reply"
      /\ req'[t].sid = req[t].sid /\ req'[t].targets = {} /\ req'[t].locked = {} /\ req'[t].seen = 0
      /\ req'[t].reply = "clear" /\ req'[t].token = NoToken
  BY <1>1, <1>2, AnswerEffect
<1>5. rows \in [Ids -> Row] /\ now \in Times /\ condemned \subseteq Ids /\ 1 .. made \subseteq Ids
  <2>1. rows \in [Ids -> Row] /\ now \in Times
    BY <1>1 DEF TypeOK
  <2>2. made \in 0 .. MaxSessions /\ condemned \subseteq Ids
    BY <1>1, Fields
  <2> QED BY <2>1, <2>2, Constants
<1>6. CASE out = "lost"
  <2>1. UNCHANGED <<rows, condemned>>
    BY <1>6 DEF commitRevokeAll
  <2>2. TypeOK'
    BY <1>2, <1>3, <1>4, <2>1 DEF SessionsInv, TypeOK
  <2>3. /\ condemned \subseteq 1 .. made /\ \A j \in condemned : rows[j].revoked # Never
    BY DEF SessionsInv, EndsAreKept
  <2>4. {} \in SUBSET (1 .. made)
    OBVIOUS
  <2> QED BY <1>1, <1>2, <1>4, <2>1, <2>2, <2>3, <2>4, EndingStep
<1>7. CASE out # "lost"
  <2>1. /\ rows' = ended(t) /\ condemned' = condemned \cup 1 .. req[t].seen
        /\ req[t].targets = {}
    BY <1>7 DEF commitRevokeAll
  <2>2. \A j \in Ids : /\ rows'[j].parent = rows[j].parent /\ (rows'[j].rotated <=> rows[j].rotated)
                       /\ rows'[j].revoked = IF j \in req[t].locked /\ rows[j].revoked = Never
                                             THEN now ELSE rows[j].revoked
    BY <1>5, <2>1 DEF ended, Row
  <2>3. rows' \in [Ids -> Row]
    BY <1>5, <2>1 DEF ended, Row
  <2>4. \A j \in 1 .. req[t].seen : j \in 1 .. made
    BY <1>1, Fields
  <2>5. condemned' \subseteq 1 .. made /\ condemned \subseteq condemned'
    BY <2>1, <2>4 DEF SessionsInv, EndsAreKept
  <2>6. \A j \in condemned' : rows'[j].revoked # Never
    <3>1. now # Never BY <1>1, Constants, Fields
    <3>2. \A j \in 1 .. req[t].seen : j \in req[t].locked \/ rows[j].revoked # Never
      BY <1>1, <2>1 DEF SessionsInv, EndsAreKept
    <3>3. \A j \in condemned : rows[j].revoked # Never
      BY DEF SessionsInv, EndsAreKept
    <3> QED BY <3>1, <3>2, <3>3, <2>1, <2>2, <2>4, <2>5, <1>5
  <2>7. \A u \in Tabs : req[u].pc = "rotate" => req[u].sid \notin req[t].locked
    BY <1>1 DEF SessionsInv, ScansAreOrdered, Held
  <2>8. TypeOK'
    <3>1. condemned' \subseteq Ids BY <2>5, <1>5
    <3> QED BY <3>1, <1>2, <1>3, <1>4, <2>3 DEF SessionsInv, TypeOK
  <2>9. /\ req[t].locked \in SUBSET (1 .. made)
        /\ \A j \in req[t].locked : j \in condemned' \/ j = req[t].sid
    BY <1>1, <2>1, <2>4
  <2>10. \A j \in 1 .. made :
           /\ rows'[j].parent = rows[j].parent /\ (rows'[j].rotated <=> rows[j].rotated)
           /\ rows'[j].revoked = IF j \in req[t].locked /\ rows[j].revoked = Never THEN now ELSE rows[j].revoked
    BY <1>5, <2>2
  <2>11. /\ req[t].pc \in {"revoking", "revoke"}
         /\ UNCHANGED <<acct, made, jar, now, falseAlarm, disturbed>>
    BY <1>1, <1>2
  <2> QED BY <1>4, <2>5, <2>6, <2>7, <2>8, <2>9, <2>10, <2>11, EndingStep
<1> QED BY <1>6, <1>7

\* Postgres rolls back a request that waits while another waits for it: a replay at its
\* UPDATE, which has then ended nothing.
LEMMA BreakDeadlockKeeps ==
  ASSUME SessionsInv, NEW t \in Tabs, breakDeadlock(t)
  PROVE  SessionsInv'
<1>1. PICK S \in SUBSET Tabs : t \in S /\ Circle(S) /\ \A R \in SUBSET S : Circle(R) => R = S
  BY DEF breakDeadlock
<1>2. Held(t) # {}
  <2> SUFFICES ASSUME Held(t) = {} PROVE FALSE
    OBVIOUS
  <2>1. \A s \in S : \E u \in S \ {t} : WaitsFor(s, u)
    BY <1>1 DEF Circle, WaitsFor
  <2>2. Circle(S \ {t})
    BY <2>1, <1>1 DEF Circle
  <2> QED BY <2>2, <1>1
<1>3. wanted(t) # {}
  BY <1>1 DEF Circle, WaitsFor
<1>4. req[t].pc = "revoking"
  BY <1>2, <1>3 DEF Held, wanted
<1>5. TypeOK /\ UNCHANGED <<acct, rows, made, jar, now, faults, falseAlarm, condemned, disturbed>> /\ answer(t, "clear")
  BY DEF breakDeadlock, history, SessionsInv
<1>6. /\ req' \in [Tabs -> Request] /\ Others(t) /\ req'[t].pc = "reply"
      /\ req'[t].sid = req[t].sid /\ req'[t].targets = {} /\ req'[t].locked = {} /\ req'[t].seen = 0
      /\ req'[t].reply = "clear" /\ req'[t].token = NoToken
  BY <1>5, AnswerEffect
<1>7. TypeOK'
  BY <1>5, <1>6 DEF TypeOK
<1>8. /\ condemned \subseteq 1 .. made /\ \A j \in condemned : rows[j].revoked # Never
  BY DEF SessionsInv, EndsAreKept
<1>9. {} \in SUBSET (1 .. made)
  OBVIOUS
<1> QED BY <1>4, <1>5, <1>6, <1>7, <1>8, <1>9, EndingStep

LEMMA RevokeSessionKeeps ==
  ASSUME SessionsInv, NEW t \in Tabs, NEW out \in Outcomes, RevokeSession(t, out)
  PROVE  SessionsInv'
<1> DEFINE i == req[t].sid
           E == IF out = "lost" THEN {} ELSE {i}
<1>1. /\ TypeOK /\ req[t].pc = "revoke" /\ i \in 1 .. made
  BY Fields DEF SessionsInv, RequestsAreSound, RequestIsSound, OnRow, RevokeSession
<1>2. UNCHANGED <<acct, made, jar, now, falseAlarm, condemned, disturbed>> /\ answer(t, "clear")
  BY DEF RevokeSession, history
<1>3. faults' \in 0 .. MaxFaults
  BY Constants DEF RevokeSession, spend, Outcomes, SessionsInv, TypeOK
<1>4. /\ req' \in [Tabs -> Request] /\ Others(t) /\ req'[t].pc = "reply"
      /\ req'[t].sid = req[t].sid /\ req'[t].targets = {} /\ req'[t].locked = {} /\ req'[t].seen = 0
      /\ req'[t].reply = "clear" /\ req'[t].token = NoToken
  BY <1>1, <1>2, AnswerEffect
<1>5. rows \in [Ids -> Row] /\ now \in Times /\ 1 .. made \subseteq Ids
  <2>1. rows \in [Ids -> Row] /\ now \in Times
    BY <1>1 DEF TypeOK
  <2>2. made \in 0 .. MaxSessions
    BY <1>1, Fields
  <2> QED BY <2>1, <2>2, Constants
<1>6. rows' = IF i \in E /\ rows[i].revoked = Never THEN [rows EXCEPT ![i].revoked = now] ELSE rows
  BY DEF RevokeSession
<1>7. /\ rows' \in [Ids -> Row]
      /\ \A j \in Ids : /\ rows'[j].parent = rows[j].parent /\ (rows'[j].rotated <=> rows[j].rotated)
                        /\ rows'[j].revoked = IF j \in E /\ rows[j].revoked = Never THEN now ELSE rows[j].revoked
  BY <1>1, <1>5, <1>6 DEF Row
<1>8. TypeOK'
  BY <1>2, <1>3, <1>4, <1>7 DEF SessionsInv, TypeOK
<1>9. /\ condemned \subseteq 1 .. made
      /\ \A j \in condemned : rows'[j].revoked # Never
  <2>1. condemned \subseteq 1 .. made /\ \A j \in condemned : rows[j].revoked # Never
    BY DEF SessionsInv, EndsAreKept
  <2> QED BY <2>1, <1>5, <1>7
<1>10. \A u \in Tabs : req[u].pc = "rotate" => req[u].sid \notin E
  BY DEF RevokeSession, Locked, Held
<1>11. E \in SUBSET (1 .. made) /\ \A j \in E : j = req[t].sid
  BY <1>1
<1> HIDE DEF E
<1>12. \A j \in 1 .. made :
         /\ rows'[j].parent = rows[j].parent /\ (rows'[j].rotated <=> rows[j].rotated)
         /\ rows'[j].revoked = IF j \in E /\ rows[j].revoked = Never THEN now ELSE rows[j].revoked
  BY <1>5, <1>7
<1>13. /\ req[t].pc \in {"revoking", "revoke"}
       /\ UNCHANGED <<acct, made, jar, now, falseAlarm, disturbed>>
       /\ condemned \subseteq condemned' /\ condemned' \subseteq 1 .. made
       /\ \A j \in condemned' : rows'[j].revoked # Never
  BY <1>1, <1>2, <1>9
<1>14. E \in SUBSET (1 .. made) /\ \A j \in E : j \in condemned' \/ j = req[t].sid
  BY <1>11
<1> HIDE DEF i
<1> QED BY <1>4, <1>8, <1>10, <1>12, <1>13, <1>14, EndingStep

\* A rotation: the old row ends, marked as rotated, and the new one is its only child,
\* since a row that lives has none.
LEMMA RotateKeeps ==
  ASSUME SessionsInv, NEW t \in Tabs, NEW out \in Outcomes, rotate(t, out)
  PROVE  SessionsInv'
<1> DEFINE old == req[t].sid
<1>1. /\ TypeOK /\ req[t].pc = "rotate" /\ made + 1 \in Ids /\ old \in 1 .. made
      /\ req[t].targets = {} /\ req[t].locked = {} /\ req[t].seen = 0 /\ req[t].reply # "session" /\ req[t].token = NoToken
      /\ made \in 0 .. MaxSessions /\ now \in 0 .. MaxTime /\ now # Never
      /\ rows[old].revoked = Never /\ ~ rows[old].rotated
  <2>1. TypeOK /\ req[t].pc = "rotate" /\ made \in 0 .. MaxSessions /\ made < MaxSessions
    BY DEF SessionsInv, rotate, room, TypeOK
  <2>2. made + 1 \in Ids /\ now \in 0 .. MaxTime /\ now # Never
    BY <2>1, Constants, Fields
  <2>3. old # 0 /\ old \in 0 .. made /\ req[t].reply # "session" /\ req[t].targets = {} /\ req[t].locked = {} /\ req[t].seen = 0
    BY <2>1 DEF SessionsInv, RequestsAreSound, RequestIsSound, OnRow, Holding
  <2>4. req[t].token = NoToken
    BY <2>1 DEF SessionsInv, RequestsAreSound, RequestIsSound
  <2>5. rows[old].revoked = Never /\ ~ rows[old].rotated
    BY <2>1 DEF SessionsInv, LocksAreExclusive
  <2> QED BY <2>1, <2>2, <2>3, <2>4, <2>5, Fields
<1>2. UNCHANGED <<acct, jar, now, falseAlarm, condemned>>
  BY DEF rotate
<1>3. faults' \in 0 .. MaxFaults
  BY Constants DEF rotate, spend, Outcomes, SessionsInv, TypeOK
<1>4. disturbed' \subseteq Ids /\ disturbed \subseteq disturbed' /\ (out = "late" => old \in disturbed')
  BY <1>1, Fields, Constants DEF rotate
<1> USE DEF Others
<1>5. CASE out = "lost"
  <2>1. UNCHANGED <<rows, made, disturbed>> /\ answer(t, "clear")
    BY <1>5 DEF rotate
  <2>2. /\ req' \in [Tabs -> Request] /\ Others(t) /\ req'[t].pc = "reply"
        /\ req'[t].sid = old /\ req'[t].targets = {} /\ req'[t].locked = {} /\ req'[t].seen = 0
        /\ req'[t].reply = "clear" /\ req'[t].token = NoToken
    BY <1>1, <2>1, AnswerEffect
  <2>3. TypeOK' /\ GrantsAudited' /\ ChainsAreLinear'
    BY <1>2, <1>3, <2>1, <2>2 DEF SessionsInv, TypeOK, GrantsAudited, ChainsAreLinear
  <2>4. RequestsAreSound'
    BY <1>1, <2>1, <2>2 DEF SessionsInv, RequestsAreSound, RequestIsSound, OnRow, Holding, SigningIn
  <2>5. LocksAreExclusive'
    BY <2>1, <2>2 DEF SessionsInv, LocksAreExclusive, Holding
  <2>6. EndsAreKept'
    BY <1>2, <2>1, <2>2 DEF SessionsInv, EndsAreKept
  <2>7. TokensAreBounded'
    BY <1>1, <1>2, <2>1, <2>2, Fields DEF SessionsInv, TokensAreBounded, Bounded
  <2>8. TokensAreKnown'
    BY <1>1, <1>2, <2>1, <2>2, IdleFields
    DEF SessionsInv, TokensAreKnown, RequestsAreSound, RequestIsSound, SuccessorsAreSecret, SharedIsDisturbed, EndedIsRetired
  <2>9. ScansAreOrdered'
    BY <2>2, ScansKept DEF SessionsInv, Holding
  <2> QED BY <1>2, <2>3, <2>4, <2>5, <2>6, <2>7, <2>8, <2>9 DEF SessionsInv
<1>6. CASE out # "lost"
  <2>1. /\ rows' = [rows EXCEPT ![made + 1] = insertSession(old), ![old].rotated = TRUE, ![old].revoked = now]
        /\ made' = made + 1
    BY <1>6 DEF rotate
  <2>2. rows \in [Ids -> Row] /\ insertSession(old) \in Row /\ old \in Ids /\ old # made + 1
    BY <1>1, Constants, NewRow DEF TypeOK
  <2>3. /\ rows' \in [Ids -> Row] /\ rows'[made'] = insertSession(old)
        /\ \A j \in 1 .. made : j # old => rows'[j] = rows[j]
        /\ rows'[old] = [rows[old] EXCEPT !.rotated = TRUE, !.revoked = now]
    <3> DEFINE r1 == [rows EXCEPT ![made + 1] = insertSession(old)]
               r2 == [r1[old] EXCEPT !.rotated = TRUE]
               r3 == [r1 EXCEPT ![old] = r2]
               r4 == [r3[old] EXCEPT !.revoked = now]
    <3>1. r1 \in [Ids -> Row] /\ r1[old] = rows[old] /\ r1[made + 1] = insertSession(old)
          /\ \A j \in 1 .. made : r1[j] = rows[j]
      BY <1>1, <2>2, Constants
    <3>2. r2 \in Row BY <3>1, <2>2, ZenonT(40) DEF Row
    <3> HIDE DEF r1, r2
    <3>3. r3 \in [Ids -> Row] /\ r3[old] = r2 /\ \A j \in Ids : j # old => r3[j] = r1[j]
      BY <3>1, <3>2, <2>2
    <3> HIDE DEF r3
    <3>4. r4 \in Row BY <3>2, <3>3, <1>1 DEF Row
    <3> HIDE DEF r4
    <3>5. rows' = [r3 EXCEPT ![old] = r4]
      BY <2>1 DEF r1, r2, r3, r4
    <3>6. r4 = [rows[old] EXCEPT !.rotated = TRUE, !.revoked = now]
      BY <3>1, <3>3 DEF r2, r4
    <3> QED BY <3>1, <3>3, <3>4, <3>5, <3>6, <1>1, <2>1, <2>2, Constants
  <2>4. /\ rows'[old].rotated /\ rows'[old].revoked = now /\ rows'[old].parent = rows[old].parent
        /\ rows'[made'].parent = old /\ rows'[made'].revoked = Never /\ ~ rows'[made'].rotated
    <3>1. rows[old] \in Row BY <2>2
    <3> QED BY <3>1, <1>1, <2>2, <2>3, NewRow DEF Row
  <2>5. /\ req' \in [Tabs -> Request] /\ Others(t) /\ req'[t].pc = "reply"
        /\ req'[t].sid = old /\ req'[t].targets = {} /\ req'[t].locked = {} /\ req'[t].seen = 0
        /\ \/ req'[t].reply = "session" /\ req'[t].token = mint(made')
           \/ req'[t].reply = "clear" /\ req'[t].token = NoToken
    <3>1. CASE out = "ok"
      BY <1>1, <2>1, <3>1, GivenEffect DEF rotate
    <3>2. CASE out # "ok"
      BY <1>1, <3>2, AnswerEffect DEF rotate
    <3> QED BY <3>1, <3>2
  <2>6. /\ mint(made') \in Token /\ mint(made').sid = made' /\ mint(made').exp = now + AccessTTL
        /\ mint(made').sa = acct.superadmin
    BY <1>1, <2>1, Minted
  <2>7. /\ \A j \in 1 .. made' : j \in 1 .. made \/ j = made'
        /\ \A j \in 0 .. made : j \in 0 .. made' /\ j # made'
        /\ \A j \in 1 .. made : j \in 1 .. made' /\ j # 0
        /\ made' \in 0 .. MaxSessions
    BY <2>1, <1>1
  <2>8. TypeOK' /\ GrantsAudited'
    BY <1>2, <1>3, <1>4, <2>3, <2>5, <2>7 DEF SessionsInv, TypeOK, GrantsAudited
  <2>9. ChainsAreLinear'
    <3>1. \A j \in 1 .. made : /\ rows[j].parent # 0 => rows[j].parent \in 1 .. made /\ rows[rows[j].parent].rotated
                               /\ rows[j].parent # old
      BY <1>1, Fields DEF SessionsInv, EndsAreKept, ChainsAreLinear
    <3>2. \A j \in 1 .. made : rows'[j].parent = rows[j].parent
      BY <2>3, <2>4
    <3>3. \A j \in 1 .. made : rows[j].rotated => rows'[j].rotated
      BY <2>3, <2>4
    <3>4. \A j \in 1 .. made' : rows'[j].parent # 0 => rows'[rows'[j].parent].rotated
      BY <3>1, <3>2, <3>3, <2>4, <2>7
    <3>5. \A j, k \in 1 .. made' : j # k /\ rows'[j].parent = rows'[k].parent => rows'[j].parent = 0
      BY <3>1, <3>2, <2>4, <2>7 DEF SessionsInv, ChainsAreLinear
    <3> QED BY <3>4, <3>5 DEF ChainsAreLinear
  <2>10. RequestsAreSound'
    <3>1. RequestIsSound(t)'
      <4>1. /\ old \in 0 .. made' /\ made' \in 1 .. made' \ {old} /\ 0 \in 0 .. made' /\ old # 0
        BY <1>1, <2>1, <2>7
      <4> QED BY <4>1, <2>5, <2>6 DEF RequestIsSound, OnRow, Holding, SigningIn
    <3>2. ASSUME NEW u \in Tabs, u # t PROVE RequestIsSound(u)'
      BY <3>2, <2>5, <2>7 DEF SessionsInv, RequestsAreSound, RequestIsSound
    <3> QED BY <3>1, <3>2 DEF RequestsAreSound
  <2>11. LocksAreExclusive'
    <3>1. \A u \in Tabs : u # t /\ req[u].pc \in Holding => req[u].sid \in 1 .. made /\ req[u].sid # old
      BY <1>1, Fields DEF SessionsInv, RequestsAreSound, RequestIsSound, LocksAreExclusive, OnRow, Holding
    <3> QED BY <3>1, <2>3, <2>5 DEF SessionsInv, LocksAreExclusive, Holding
  <2>12. EndsAreKept'
    <3>1. \A u \in Tabs : \A j \in 1 .. req[u].seen : j \in 1 .. made
      BY <1>1, Fields DEF SessionsInv, RequestsAreSound, RequestIsSound
    <3>2. \A j \in 1 .. made : rows[j].revoked # Never => rows'[j].revoked # Never
      BY <1>1, <2>3, <2>4
    <3>3. \A j \in 1 .. made' : rows'[j].parent \in 0 .. made' /\ (rows'[j].rotated => rows'[j].revoked # Never)
      <4>1. ASSUME NEW j \in 1 .. made, j # old
            PROVE  rows'[j].parent \in 0 .. made' /\ (rows'[j].rotated => rows'[j].revoked # Never)
        BY <4>1, <2>3, <2>7 DEF SessionsInv, EndsAreKept
      <4>2. rows'[old].parent \in 0 .. made' /\ rows'[old].revoked # Never
        BY <1>1, <2>4, <2>7 DEF SessionsInv, EndsAreKept
      <4>3. rows'[made'].parent \in 0 .. made' /\ ~ rows'[made'].rotated
        BY <1>1, <2>4, <2>7
      <4> QED BY <4>1, <4>2, <4>3, <2>7
    <3>4. /\ condemned' \subseteq 1 .. made'
          /\ \A j \in condemned' : rows'[j].revoked # Never
      BY <3>2, <1>2, <2>7 DEF SessionsInv, EndsAreKept
    <3>5. \A u \in Tabs : req'[u].pc = "revoking" =>
            \A j \in 1 .. req'[u].seen : j \in req'[u].targets \cup req'[u].locked \/ rows'[j].revoked # Never
      BY <3>1, <3>2, <2>5 DEF SessionsInv, EndsAreKept
    <3> QED BY <3>3, <3>4, <3>5 DEF EndsAreKept
  <2>13. TokensAreBounded'
    <3>1. ASSUME NEW k \in Token, Bounded(k) PROVE Bounded(k)'
      <4>1. k.sid # 0 => k.sid \in 1 .. made BY <3>1, <1>1, Fields DEF Bounded
      <4> QED BY <4>1, <3>1, <1>2, <2>3, <2>4, <2>7 DEF Bounded
    <3>2. ASSUME NEW k, k = NoToken \/ k = mint(made') PROVE Bounded(k)'
      BY <3>2, <1>1, <1>2, <2>4, <2>6, <2>7, IdleFields, Constants, Fields DEF Bounded
    <3> QED BY <3>1, <3>2, <1>1, <1>2, <2>5, Fields DEF SessionsInv, TokensAreBounded
  <2>14. TokensAreKnown'
    <3>1. \A u \in Tabs : req[u].reply = "session" =>
            req[u].token.sid \in 1 .. made /\ req[u].token.sid # old
      BY DEF SessionsInv, RequestsAreSound, RequestIsSound, TokensAreKnown, SuccessorsAreSecret
    <3>2. \A u \in Tabs : req[u].sid # made' /\ req[u].token.sid # made'
      BY <2>7 DEF SessionsInv, RequestsAreSound, RequestIsSound, TokensAreBounded, Bounded
    <3>3. jar.refresh # made' /\ jar'.refresh \in 0 .. made'
      BY <1>2, <2>7 DEF SessionsInv, TokensAreKnown
    <3>5. SuccessorsAreSecret'
      <4> SUFFICES ASSUME NEW u \in Tabs, req'[u].reply = "session", NEW i, i = req'[u].token.sid
                   PROVE  /\ jar'.refresh # i /\ (rows'[i].revoked = Never \/ i \in condemned')
                          /\ \A v \in Tabs : req'[v].sid # i /\ (v # u => req'[v].token.sid # i)
        BY DEF SuccessorsAreSecret
      <4>1. CASE u = t
        BY <4>1, <3>2, <3>3, <1>1, <1>2, <2>4, <2>5, <2>6, IdleFields
      <4>2. CASE u # t
        BY <4>2, <3>1, <3>2, <1>1, <1>2, <2>3, <2>5, <2>6, <2>7, IdleFields
        DEF SessionsInv, TokensAreKnown, SuccessorsAreSecret
      <4> QED BY <4>1, <4>2
    <3>6. SharedIsDisturbed'
      <4>1. \A u \in Tabs : req'[u].sid = req[u].sid BY <2>5
      <4> QED BY <4>1, <1>4 DEF SessionsInv, TokensAreKnown, SharedIsDisturbed
    <3>7. EndedIsRetired'
      <4> SUFFICES ASSUME NEW j \in 1 .. made', j \notin disturbed' \cup condemned', rows'[j].revoked # Never
                   PROVE  /\ \A u \in Tabs : req'[u].pc = "select" => req'[u].sid # j
                          /\ jar'.refresh = j => \E u \in Tabs : req'[u].pc = "reply" /\ req'[u].sid = j
        BY DEF EndedIsRetired
      <4>1. j # made' /\ j \in 1 .. made
        BY <2>4, <2>7
      <4>2. CASE j # old
        BY <4>1, <4>2, <1>1, <1>2, <1>4, <2>3, <2>5 DEF SessionsInv, TokensAreKnown, EndedIsRetired
      <4>3. CASE j = old
        BY <4>3, <1>1, <1>4, <2>5 DEF SessionsInv, TokensAreKnown, SharedIsDisturbed
      <4> QED BY <4>2, <4>3
    <3> QED BY <3>3, <3>5, <3>6, <3>7 DEF TokensAreKnown
  <2>15. ScansAreOrdered'
    BY <2>5, ScansKept DEF SessionsInv, Holding
  <2> QED BY <1>2, <2>8, <2>9, <2>10, <2>11, <2>12, <2>13, <2>14, <2>15 DEF SessionsInv
<1> QED BY <1>5, <1>6

-----------------------------------------------------------------------------
(* The browser and the clock.                                              *)

\* What a reply leaves in the jar.
LEMMA DeliveredJar ==
  ASSUME SessionsInv, NEW t \in Tabs, Deliver(t)
  PROVE  /\ jar' \in [state : Tabs \cup {NoTab}, access : Token, refresh : Ids \cup {0}, until : Nat, csrf : Nat]
         /\ CASE req[t].reply = "session" -> jar'.access = req[t].token /\ jar'.refresh = req[t].token.sid
              [] req[t].reply = "clear"   -> jar'.access = NoToken /\ jar'.refresh = 0
              [] req[t].reply = "none"    -> jar'.access = jar.access /\ jar'.refresh = jar.refresh
<1> DEFINE Jar == [state : Tabs \cup {NoTab}, access : Token, refresh : Ids \cup {0}, until : Nat, csrf : Nat]
           cookies == CASE req[t].reply = "session" -> setSessionCookies(req[t])
                        [] req[t].reply = "clear"   -> clearSession
                        [] req[t].reply = "none"    -> jar
<1>1. /\ TypeOK /\ jar \in Jar /\ req[t].reply \in {"none", "session", "clear"} /\ req[t].token \in Token
      /\ req[t].token.sid \in Ids \cup {0} /\ now + RefreshTTL \in Nat
  <2>1. TypeOK BY DEF SessionsInv
  <2>2. \A k \in Token : k.sid \in Ids \cup {0} BY DEF Token
  <2>3. jar \in Jar BY <2>1 DEF TypeOK
  <2> HIDE DEF Jar
  <2> QED BY <2>1, <2>2, <2>3, Fields, Constants
<1>2. setSessionCookies(req[t]) \in Jar /\ clearSession \in Jar
  BY <1>1, IdleFields DEF setSessionCookies, clearSession
<1>3. /\ setSessionCookies(req[t]).access = req[t].token /\ setSessionCookies(req[t]).refresh = req[t].token.sid
      /\ clearSession.access = NoToken /\ clearSession.refresh = 0
  BY <1>1 DEF setSessionCookies, clearSession
<1>4. jar' = IF req[t].login THEN [cookies EXCEPT !.state = NoTab] ELSE cookies
  BY DEF Deliver
<1>5. ASSUME NEW c \in Jar
      PROVE  /\ [c EXCEPT !.state = NoTab] \in Jar
             /\ [c EXCEPT !.state = NoTab].access = c.access /\ [c EXCEPT !.state = NoTab].refresh = c.refresh
  OBVIOUS
<1> HIDE DEF Jar
<1>6. CASE req[t].reply = "session"
  <2>1. cookies = setSessionCookies(req[t]) BY <1>6
  <2> HIDE DEF cookies
  <2> QED BY <2>1, <1>2, <1>3, <1>4, <1>5, <1>6 DEF Jar
<1>7. CASE req[t].reply = "clear"
  <2>1. cookies = clearSession BY <1>7
  <2> HIDE DEF cookies
  <2> QED BY <2>1, <1>2, <1>3, <1>4, <1>5, <1>7 DEF Jar
<1>8. CASE req[t].reply = "none"
  <2>1. cookies = jar BY <1>8
  <2> HIDE DEF cookies
  <2> QED BY <2>1, <1>1, <1>4, <1>5, <1>8 DEF Jar
<1> QED BY <1>1, <1>6, <1>7, <1>8

\* A request is over.  Its answer, if it comes, replaces the session it was about by a
\* successor nobody has used, or takes it out of the jar; if it does not, that session
\* is disturbed.
LEMMA OverKeeps ==
  ASSUME SessionsInv, NEW t \in Tabs, Deliver(t) \/ LoseReply(t)
  PROVE  SessionsInv'
<1>1. /\ TypeOK /\ req[t].pc = "reply" /\ req' = [req EXCEPT ![t] = Idle]
      /\ UNCHANGED <<acct, rows, made, now, falseAlarm, condemned>>
  BY DEF SessionsInv, Deliver, LoseReply, history
<1>2. /\ req' \in [Tabs -> Request] /\ Others(t) /\ req'[t] = Idle
  BY <1>1, IdleFields, PutEffect
<1>3. /\ disturbed \subseteq disturbed' /\ disturbed' \subseteq Ids
      /\ LoseReply(t) => req[t].sid \in disturbed' \cup {0}
  BY <1>1, Fields DEF Deliver, LoseReply, history, TypeOK, Request
<1>4. \/ LoseReply(t) /\ jar' = jar
      \/ req[t].reply = "session" /\ jar'.access = req[t].token /\ jar'.refresh = req[t].token.sid
      \/ req[t].reply = "clear" /\ jar'.access = NoToken /\ jar'.refresh = 0
      \/ req[t].reply = "none" /\ jar'.access = jar.access /\ jar'.refresh = jar.refresh
  <2>1. CASE LoseReply(t) BY <2>1 DEF LoseReply
  <2>2. CASE Deliver(t) BY <2>2, <1>1, Fields, DeliveredJar
  <2> QED BY <2>1, <2>2
<1>5. TypeOK' /\ GrantsAudited'
  <2>1. jar' \in [state : Tabs \cup {NoTab}, access : Token, refresh : Ids \cup {0}, until : Nat, csrf : Nat]
    <3>1. CASE LoseReply(t) BY <3>1, <1>1 DEF LoseReply, TypeOK
    <3>2. CASE Deliver(t) BY <3>2, DeliveredJar
    <3> QED BY <3>1, <3>2
  <2>2. faults' \in 0 .. MaxFaults
    BY Constants, <1>1 DEF Deliver, LoseReply, TypeOK
  <2> QED BY <2>1, <2>2, <1>1, <1>2, <1>3 DEF SessionsInv, TypeOK, GrantsAudited
<1> USE DEF Others
<1>6. ChainsAreLinear'
  BY <1>1 DEF SessionsInv, ChainsAreLinear
<1>7. RequestsAreSound'
  BY <1>1, <1>2, IdleFields, Fields DEF SessionsInv, RequestsAreSound, RequestIsSound, OnRow, Holding, SigningIn
<1>8. LocksAreExclusive'
  BY <1>1, <1>2, IdleFields DEF SessionsInv, LocksAreExclusive, Holding
<1>9. EndsAreKept'
  BY <1>1, <1>2, IdleFields DEF SessionsInv, EndsAreKept
<1>10. TokensAreBounded'
  <2>1. Bounded(NoToken)
    BY <1>1, IdleFields, Constants, Fields DEF Bounded
  <2>2. \A k : Bounded(k) => Bounded(k)'
    BY <1>1 DEF Bounded
  <2> QED BY <2>1, <2>2, <1>2, <1>4, IdleFields DEF SessionsInv, TokensAreBounded
<1>11. TokensAreKnown'
  <2>1. jar'.refresh \in 0 .. made'
    BY <1>1, <1>4, Fields DEF SessionsInv, TokensAreKnown, RequestsAreSound, RequestIsSound
  <2>2. SuccessorsAreSecret'
    BY <1>1, <1>2, <1>4, IdleFields
    DEF SessionsInv, TokensAreKnown, SuccessorsAreSecret, RequestsAreSound, RequestIsSound
  <2>3. SharedIsDisturbed'
    BY <1>2, <1>3, IdleFields, ZenonT(40) DEF SessionsInv, TokensAreKnown, SharedIsDisturbed
  <2>4. EndedIsRetired'
    <3> SUFFICES ASSUME NEW j \in 1 .. made, j \notin disturbed' \cup condemned, rows[j].revoked # Never
                 PROVE  /\ \A u \in Tabs : req'[u].pc = "select" => req'[u].sid # j
                        /\ jar'.refresh = j => \E u \in Tabs : req'[u].pc = "reply" /\ req'[u].sid = j
      BY <1>1 DEF EndedIsRetired
    <3>1. /\ \A u \in Tabs : req[u].pc = "select" => req[u].sid # j
          /\ jar.refresh = j => \E u \in Tabs : req[u].pc = "reply" /\ req[u].sid = j
      BY <1>3 DEF SessionsInv, TokensAreKnown, EndedIsRetired
    <3>2. \A u \in Tabs : req'[u].pc = "select" => req'[u].sid # j
      BY <3>1, <1>2, IdleFields
    <3>3. ASSUME jar'.refresh = j PROVE jar.refresh = j /\ req[t].sid # j
      <4>1. req[t].reply = "session" => req[t].token.sid # j
        BY <1>3 DEF SessionsInv, TokensAreKnown, SuccessorsAreSecret
      <4>2. req[t].reply = "none" => req[t].sid = 0
        BY <1>1 DEF SessionsInv, RequestsAreSound, RequestIsSound
      <4> QED BY <3>3, <4>1, <4>2, <1>1, <1>3, <1>4, Fields
    <3>4. ASSUME jar'.refresh = j PROVE \E u \in Tabs : req'[u].pc = "reply" /\ req'[u].sid = j
      <4>1. PICK u \in Tabs : req[u].pc = "reply" /\ req[u].sid = j BY <3>1, <3>3, <3>4
      <4>2. u # t BY <4>1, <3>3, <3>4
      <4> QED BY <4>1, <4>2, <1>2
    <3> QED BY <3>2, <3>4
  <2> QED BY <2>1, <2>2, <2>3, <2>4 DEF TokensAreKnown
<1>12. ScansAreOrdered'
  BY <1>2, IdleFields, ScansKept DEF SessionsInv, Holding
<1> QED BY <1>1, <1>5, <1>6, <1>7, <1>8, <1>9, <1>10, <1>11, <1>12 DEF SessionsInv

\* Time passes between statements: no request is at one.
LEMMA TickKeeps ==
  ASSUME SessionsInv, Tick
  PROVE  SessionsInv'
<1>1. /\ TypeOK /\ now' = now + 1 /\ now + 1 \in 0 .. MaxTime
      /\ UNCHANGED <<acct, rows, made, faults, falseAlarm, condemned, disturbed>>
      /\ \A u \in Tabs : req[u].pc \in {"idle", "google", "reply"}
      /\ \A u \in Tabs : req'[u] = IF req[u].pc = "google" THEN Idle ELSE req[u]
  <2>1. TypeOK /\ now \in 0 .. MaxTime /\ now < MaxTime /\ now' = now + 1
    BY Fields DEF SessionsInv, Tick
  <2> QED BY <2>1, Constants DEF Tick, history
<1>2. /\ jar' \in [state : Tabs \cup {NoTab}, access : Token, refresh : Ids \cup {0}, until : Nat, csrf : Nat]
      /\ jar'.refresh \in {0, jar.refresh} /\ jar'.access \in {NoToken, jar.access}
  BY <1>1, IdleFields DEF Tick, TypeOK
<1>3. req' \in [Tabs -> Request]
  BY <1>1, IdleFields DEF Tick, TypeOK
<1>4. TypeOK' /\ GrantsAudited'
  BY <1>1, <1>2, <1>3 DEF SessionsInv, TypeOK, GrantsAudited
<1>5. ChainsAreLinear' /\ EndsAreKept' /\ LocksAreExclusive'
  BY <1>1, IdleFields DEF SessionsInv, ChainsAreLinear, EndsAreKept, LocksAreExclusive, Holding
<1>6. RequestsAreSound'
  BY <1>1, IdleFields, Fields DEF SessionsInv, RequestsAreSound, RequestIsSound, OnRow, Holding, SigningIn
<1>7. TokensAreBounded'
  <2>1. Bounded(NoToken)'
    BY <1>1, IdleFields, Constants, Fields DEF Bounded
  <2>2. \A k \in Token : Bounded(k) => Bounded(k)'
    BY <1>1, Constants, Fields DEF Bounded, Token
  <2> QED BY <2>1, <2>2, <1>1, <1>2, IdleFields, Fields DEF SessionsInv, TokensAreBounded
<1>8. TokensAreKnown'
  <2>1. \A u \in Tabs : req[u].pc = "google" => req[u].sid = 0 /\ req[u].reply # "session"
    BY DEF SessionsInv, RequestsAreSound, RequestIsSound, SigningIn
  <2>2. /\ \A u \in Tabs : req'[u].sid = req[u].sid /\ (req'[u].pc = "reply" <=> req[u].pc = "reply")
        /\ \A u \in Tabs : req'[u].pc # "select"
        /\ \A u \in Tabs : /\ req'[u].reply = "session" <=> req[u].reply = "session"
                           /\ req'[u].token.sid \in {0, req[u].token.sid}
                           /\ req'[u].reply = "session" => req'[u].token = req[u].token
    BY <2>1, <1>1, IdleFields
  <2>3. \A u \in Tabs : req[u].reply = "session" => req[u].token.sid # 0
    BY <1>1, Fields DEF SessionsInv, RequestsAreSound, RequestIsSound
  <2>4. SuccessorsAreSecret'
    BY <2>2, <2>3, <1>1, <1>2 DEF SessionsInv, TokensAreKnown, SuccessorsAreSecret
  <2>5. SharedIsDisturbed'
    BY <2>2, <1>1 DEF SessionsInv, TokensAreKnown, SharedIsDisturbed
  <2>6. EndedIsRetired'
    BY <2>2, <1>1, <1>2, Fields DEF SessionsInv, TokensAreKnown, EndedIsRetired
  <2>7. jar'.refresh \in 0 .. made'
    BY <1>1, <1>2, Fields DEF SessionsInv, TokensAreKnown
  <2> QED BY <2>4, <2>5, <2>6, <2>7 DEF TokensAreKnown
<1>9. ScansAreOrdered'
  <2>1. \A u \in Tabs : req[u].locked = {} /\ req'[u].locked = {}
    BY <1>1, IdleFields DEF SessionsInv, RequestsAreSound, RequestIsSound
  <2> QED BY <2>1 DEF ScansAreOrdered
<1> QED BY <1>1, <1>4, <1>5, <1>6, <1>7, <1>8, <1>9 DEF SessionsInv

-----------------------------------------------------------------------------
(* The inductive invariant, and what follows from it.                      *)

LEMMA SessionsInit == Init => SessionsInv
<1> SUFFICES ASSUME Init PROVE SessionsInv
  OBVIOUS
<1>1. TypeOK
  <2>1. \A t \in Tabs : req[t] = Idle BY DEF Init
  <2>2. req \in [Tabs -> Request] BY IdleFields DEF Init
  <2>3. NoRow \in Row BY Constants DEF NoRow, Row
  <2>4. rows \in [Ids -> Row] BY <2>3 DEF Init
  <2>5. jar \in [state : Tabs \cup {NoTab}, access : Token, refresh : Ids \cup {0}, until : Nat, csrf : Nat]
    BY IdleFields DEF Init
  <2>6. acct \in [exists : BOOLEAN, superadmin : BOOLEAN, owned : BOOLEAN, grants : Nat, claims : Nat]
    BY DEF Init
  <2>7. made \in 0 .. MaxSessions /\ now \in Times /\ faults \in 0 .. MaxFaults
    BY Constants DEF Init
  <2> QED BY <2>2, <2>4, <2>5, <2>6, <2>7 DEF Init, TypeOK
<1>2. /\ \A t \in Tabs : req[t] = Idle
      /\ made = 0 /\ condemned = {} /\ jar.refresh = 0 /\ jar.access = NoToken /\ now = 0
  BY DEF Init
<1>3. GrantsAudited /\ ~ falseAlarm
  BY DEF Init, GrantsAudited
<1>4. ChainsAreLinear /\ EndsAreKept /\ LocksAreExclusive /\ ScansAreOrdered
  BY <1>2, IdleFields DEF ChainsAreLinear, EndsAreKept, LocksAreExclusive, Holding, ScansAreOrdered
<1>5. RequestsAreSound
  BY <1>2, IdleFields DEF RequestsAreSound, RequestIsSound, OnRow, Holding, SigningIn
<1>6. TokensAreBounded
  BY <1>2, IdleFields, Constants DEF TokensAreBounded, Bounded
<1>7. TokensAreKnown
  BY <1>2, IdleFields DEF TokensAreKnown, SuccessorsAreSecret, SharedIsDisturbed, EndedIsRetired
<1> QED BY <1>1, <1>3, <1>4, <1>5, <1>6, <1>7 DEF SessionsInv

LEMMA SessionsStep == SessionsInv /\ [Next]_vars => SessionsInv'
<1> SUFFICES ASSUME SessionsInv, [Next]_vars PROVE SessionsInv'
  OBVIOUS
<1>1. CASE UNCHANGED vars
  <2>1. TypeOK' /\ GrantsAudited' /\ ChainsAreLinear' /\ falseAlarm' = falseAlarm
    BY <1>1 DEF vars, SessionsInv, TypeOK, GrantsAudited, ChainsAreLinear
  <2>2. RequestsAreSound' /\ LocksAreExclusive' /\ EndsAreKept'
    BY <1>1 DEF vars, SessionsInv, RequestsAreSound, RequestIsSound, LocksAreExclusive, EndsAreKept
  <2>3. TokensAreBounded'
    BY <1>1 DEF vars, SessionsInv, TokensAreBounded, Bounded
  <2>4. TokensAreKnown'
    BY <1>1 DEF vars, SessionsInv, TokensAreKnown, SuccessorsAreSecret, SharedIsDisturbed, EndedIsRetired
  <2>5. ScansAreOrdered'
    BY <1>1 DEF vars, SessionsInv, ScansAreOrdered, Held
  <2> QED BY <2>1, <2>2, <2>3, <2>4, <2>5 DEF SessionsInv
<1>2. CASE Next
  BY <1>2, StartKeeps, SignInKeeps, BootstrapKeeps, MeKeeps, SendKeeps, SelectKeeps, RevokeAllKeeps, LockRowKeeps, BreakDeadlockKeeps,
     CreateSessionKeeps, RotateKeeps, CommitRevokeAllKeeps, RevokeSessionKeeps, OverKeeps, TickKeeps
  DEF Next, Serve, refresh, logout
<1> QED BY <1>1, <1>2

\* The inductive invariant holds in every state of every behaviour.
THEOREM SessionsCorrect == Spec => []SessionsInv
<1> QED BY SessionsInit, SessionsStep, PTL DEF Spec

\* Sign-in is consistent, for any number of tabs: the types hold, every grant and claim
\* has one audit entry, and no chain of sessions forks (RotateSession, applyBootstrap).
THEOREM SignInIsConsistent == Spec => []SignInConsistent
<1>1. SessionsInv => SignInConsistent
  BY DEF SessionsInv, SignInConsistent
<1> QED BY <1>1, SessionsCorrect, PTL

\* After a replay every session its UPDATE could see is dead (RotateSession,
\* RevokeAllForUser).
THEOREM ReplaysEndSessions == Spec => []ReplayEndsSessions
<1>1. SessionsInv => ReplayEndsSessions
  BY DEF SessionsInv, EndsAreKept, ReplayEndsSessions, Usable
<1> QED BY <1>1, SessionsCorrect, PTL

\* Tabs that take turns and get their replies are never signed out as replayers.
THEOREM AlarmsAreTrue == Spec => []NoFalseAlarm
<1>1. SessionsInv => NoFalseAlarm
  BY DEF SessionsInv, NoFalseAlarm
<1> QED BY <1>1, SessionsCorrect, PTL

\* RequireSession accepts an access token for at most AccessTTL after its session ended.
THEOREM AccessOutlivesSessionBriefly == Spec => []AccessIsBounded
<1>1. SessionsInv => AccessIsBounded
  <2> SUFFICES ASSUME SessionsInv, RequireSession
               PROVE  /\ rows[jar.access.sid].revoked # Never => now - rows[jar.access.sid].revoked <= AccessTTL
                      /\ jar.access.sa => acct.superadmin
    BY DEF AccessIsBounded
  <2>1. TypeOK /\ Bounded(jar.access) /\ jar.access.sid # 0 /\ now <= jar.access.exp
    BY DEF SessionsInv, TokensAreBounded, RequireSession, verify
  <2>2. jar.access.sid \in Ids
    <3>1. jar.access.sid \in 0 .. made /\ jar.access.sid \in Nat /\ made \in 0 .. MaxSessions
      BY <2>1, Fields DEF Bounded
    <3> QED BY <2>1, <3>1, Constants
  <2> QED BY <2>1, <2>2, Fields, Constants DEF Bounded
<1> QED BY <1>1, SessionsCorrect, PTL

\* A nonempty set of places has a last one.
LEMMA HasLast ==
  ASSUME NEW P \in SUBSET Ids, P # {}
  PROVE  \E m \in P : \A n \in P : n <= m
<1> DEFINE R == {MaxSessions - n : n \in P}
<1>1. R \in SUBSET Nat /\ R # {}
  <2>1. \A n \in Ids : MaxSessions - n \in Nat BY Constants
  <2> QED BY <2>1
<1>2. IsWellFoundedOn(OpToRel(<, Nat), Nat)
  BY NatLessThanWellFounded
<1>3. PICK x \in R : \A y \in R : ~ (<<y, x>> \in OpToRel(<, Nat))
  BY <1>1, <1>2, WFMin
<1>4. \A y \in R : ~ (y < x)
  BY <1>1, <1>3 DEF OpToRel
<1>5. PICK m \in P : x = MaxSessions - m
  OBVIOUS
<1>6. ASSUME NEW n \in P PROVE n <= m
  <2>1. MaxSessions - n \in R OBVIOUS
  <2>2. ~ (MaxSessions - n < MaxSessions - m) BY <2>1, <1>4, <1>5
  <2> QED BY <2>2, Constants
<1> QED BY <1>6

\* However many tabs are at it, requests wait for each other's row locks in a circle only
\* if a replay was presented with a row that another's UPDATE is still to reach: the UPDATEs
\* of two replays come to the rows in one order (RotateSession).
THEOREM LocksNeverCycle == Spec => []NoLockCycle
<1>1. SessionsInv => NoLockCycle
  <2> SUFFICES ASSUME SessionsInv, NEW S \in SUBSET Tabs, Circle(S),
                      \A t, u \in S : ~ (req[t].pc = "revoking" /\ req[t].sid \in req[u].targets)
               PROVE  FALSE
    BY DEF NoLockCycle
  <2> DEFINE W == {t \in S : req[t].pc = "revoking"}
             P == {n \in Ids : \E t \in W : \E i \in reached(t) : n = HeapPlace[i]}
  <2>1. \A t \in Tabs : reached(t) \subseteq Ids /\ req[t].targets \subseteq Ids /\ req[t].locked \subseteq Ids
    BY Fields DEF SessionsInv, reached
  <2>2. \A t \in S : \E u \in W : WaitsFor(t, u)
    <3>1. ASSUME NEW t \in S, NEW u \in S, WaitsFor(t, u) PROVE u \in W
      <4>1. wanted(u) # {} BY DEF Circle, WaitsFor
      <4>2. Held(u) # {} BY <3>1 DEF WaitsFor
      <4> QED BY <4>1, <4>2 DEF wanted, Held
    <3> QED BY <3>1 DEF Circle
  <2>3. ASSUME NEW t \in W PROVE \E u \in W : \E i \in reached(t) : i \in req[u].locked
    <3>1. PICK u \in W : WaitsFor(t, u) BY <2>2
    <3>2. PICK i \in reached(t) : i \in Held(u) BY <3>1 DEF WaitsFor, wanted
    <3>3. i \in req[t].targets BY <3>2 DEF reached
    <3>4. i # req[u].sid BY <3>3
    <3> QED BY <3>2, <3>4 DEF Held
  <2>4. P \in SUBSET Ids /\ P # {}
    <3>1. PICK t \in W : TRUE BY <2>2 DEF Circle
    <3>2. PICK i \in reached(t) : TRUE BY <2>3
    <3>3. HeapPlace[i] \in P BY <2>1, Places
    <3> QED BY <3>3
  <2>5. PICK m \in P : \A n \in P : n <= m
    BY <2>4, HasLast
  <2>6. PICK t \in W : \E i \in reached(t) : m = HeapPlace[i]
    OBVIOUS
  <2>7. PICK i \in reached(t) : m = HeapPlace[i]
    BY <2>6
  <2>8. PICK u \in W : \E j \in reached(t) : j \in req[u].locked
    BY <2>3
  <2>9. PICK j \in reached(t) : j \in req[u].locked
    BY <2>8
  <2>10. PICK k \in reached(u) : TRUE
    BY <2>3
  <2>11. /\ k \in req[u].targets /\ HeapPlace[j] < HeapPlace[k]
    BY <2>9, <2>10 DEF SessionsInv, ScansAreOrdered, reached
  <2>12. HeapPlace[i] <= HeapPlace[j]
    BY <2>7, <2>9 DEF reached
  <2>13. HeapPlace[k] \in P /\ HeapPlace[k] <= m
    BY <2>1, <2>5, <2>10, Places
  <2>14. HeapPlace[i] \in Nat /\ HeapPlace[j] \in Nat /\ HeapPlace[k] \in Nat
    BY <2>1, <2>7, <2>9, <2>10, Places
  <2> QED BY <2>7, <2>11, <2>12, <2>13, <2>14
<1> QED BY <1>1, SessionsCorrect, PTL
=============================================================================
