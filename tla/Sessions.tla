------------------------------ MODULE Sessions ------------------------------
(***************************************************************************)
(* Dashboard sign-in: internal/identity and internal/oauth.  One person    *)
(* with one browser (a cookie jar) and several tabs.  A tab signs in       *)
(* through Google, refreshes, logs out and asks who it is; each request is *)
(* its SQL statements, which interleave with those of the other tabs, and  *)
(* a reply that sets or clears cookies when it arrives, if it does.        *)
(*                                                                         *)
(* Postgres is read committed: a statement sees what was committed when it *)
(* began and waits for row locks.  A statement or commit may be "lost" (no *)
(* effect, an error) or "late" (effect, an error).  A raw refresh token is *)
(* known to nobody but its session's row, so a session ID stands for it;   *)
(* 0 is none.  A time unit is longer than a request and than the sign-in   *)
(* state cookie lives, so the clock waits for the server and ends a        *)
(* sign-in that has not come back.                                         *)
(***************************************************************************)
EXTENDS Integers, FiniteSets

CONSTANTS
  Tabs, NoTab,
  Superadmin,      \* whether the person's address is SWITCHYARD_SUPERADMIN_EMAIL
  MaxSessions,     \* sessions created in a behaviour
  MaxAging,        \* those of them created in one in which time passes
  AccessTTL, RefreshTTL,
  MaxTime,
  MaxFaults,       \* statements that fail and replies that are lost
  HeapPlace        \* HeapPlace[i]: where session i's row lies, the order an UPDATE scans

ASSUME SessionsAssumption ==
  /\ NoTab \notin Tabs
  /\ Superadmin \in BOOLEAN
  /\ {MaxSessions, AccessTTL, RefreshTTL} \subseteq Nat \ {0}
  /\ {MaxTime, MaxFaults, MaxAging} \subseteq Nat
  /\ HeapPlace \in [1 .. MaxSessions -> 1 .. MaxSessions]
  /\ \A i, j \in 1 .. MaxSessions : HeapPlace[i] = HeapPlace[j] => i = j

Ids == 1 .. MaxSessions
Times == 0 .. MaxTime
Never == MaxTime + 1     \* revoked_at IS NULL

VARIABLES
  acct,       \* the user's row, the default organisation's owner, the audit log
  rows,       \* rows[i]: the session created i-th
  made,       \* sessions created
  jar,        \* the browser's cookies
  req,        \* req[t]: the request of tab t
  now, faults,
  falseAlarm, \* history: a session of well-behaved tabs was taken for replayed
  condemned,  \* history: sessions that a replay had to end
  disturbed   \* history: sessions whose tabs did not take turns or missed a reply

vars == <<acct, rows, made, jar, req, now, faults, falseAlarm, condemned, disturbed>>

Token == [sid : Ids \cup {0}, exp : Nat, sa : BOOLEAN]
NoToken == [sid |-> 0, exp |-> 0, sa |-> FALSE]

\* parent is the row whose rotated_to is this one.
Row == [parent : Ids \cup {0}, expires : Nat, revoked : Times \cup {Never}, rotated : BOOLEAN]
NoRow == [parent |-> 0, expires |-> 0, revoked |-> Never, rotated |-> FALSE]

Steps == {"idle", "google", "lookup", "create", "bootstrap", "issue",
          "select", "rotate", "revokeAll", "revoking", "revoke", "reply"}

\* targets and locked: the rows a replay's UPDATE has yet to reach, and those it has.
\* reply: what the response does to the jar.
Request == [pc : Steps, sid : Ids \cup {0}, targets : SUBSET Ids, locked : SUBSET Ids, seen : 0 .. MaxSessions,
            reply : {"none", "session", "clear"}, token : Token, login : BOOLEAN]
Idle == [pc |-> "idle", sid |-> 0, targets |-> {}, locked |-> {}, seen |-> 0, reply |-> "none",
         token |-> NoToken, login |-> FALSE]

TypeOK ==
  /\ acct \in [exists : BOOLEAN, superadmin : BOOLEAN, owned : BOOLEAN, grants : Nat, claims : Nat]
  /\ rows \in [Ids -> Row] /\ made \in 0 .. MaxSessions
  /\ jar \in [state : Tabs \cup {NoTab}, access : Token, refresh : Ids \cup {0}, until : Nat, csrf : Nat]
  /\ req \in [Tabs -> Request]
  /\ now \in Times /\ faults \in 0 .. MaxFaults
  /\ {condemned, disturbed} \subseteq SUBSET Ids /\ falseAlarm \in BOOLEAN

Init ==
  /\ acct = [exists |-> FALSE, superadmin |-> FALSE, owned |-> FALSE, grants |-> 0, claims |-> 0]
  /\ rows = [i \in Ids |-> NoRow] /\ made = 0
  /\ jar = [state |-> NoTab, access |-> NoToken, refresh |-> 0, until |-> 0, csrf |-> 0]
  /\ req = [t \in Tabs |-> Idle]
  /\ now = 0 /\ faults = MaxFaults
  /\ falseAlarm = FALSE /\ condemned = {} /\ disturbed = {}

-----------------------------------------------------------------------------
Outcomes == {"ok"} \cup (IF faults > 0 THEN {"lost", "late"} ELSE {})
spend(out) == faults' = IF out = "ok" THEN faults ELSE faults - 1

goto(t, pc) == req' = [req EXCEPT ![t].pc = pc]
answer(t, reply) ==
  req' = [req EXCEPT ![t] = [Idle EXCEPT !.pc = "reply", !.sid = req[t].sid, !.login = req[t].login, !.reply = reply]]

\* The rows whose locks a transaction holds: that of SELECT ... FOR UPDATE, and those its
\* UPDATE has reached; the user's row, or its unique index entry.
Held(t) == IF req[t].pc \in {"rotate", "revokeAll", "revoking"} THEN {req[t].sid} \cup req[t].locked ELSE {}
Locked(i) == \E t \in Tabs : i \in Held(t)
UserLocked == \E t \in Tabs : req[t].pc = "bootstrap"

history == <<falseAlarm, condemned, disturbed>>

-----------------------------------------------------------------------------
(* Signing in.                                                             *)

start(t) ==
  /\ req[t].pc = "idle"
  /\ jar' = [jar EXCEPT !.state = t]
  /\ req' = [req EXCEPT ![t] = [Idle EXCEPT !.pc = "google", !.login = TRUE]]
  /\ UNCHANGED <<acct, rows, made, now, faults, history>>

\* What comes back from Google: no consent, no ID token, a token for someone else
\* or too old, an address Google has not verified, or a profile.
Answers == {"declined", "error", "foreign", "expired", "unverified", "profile"}

\* Exchange and profileFromIDToken refuse all but the last.
Exchange(a) == a \notin {"error", "foreign", "expired", "unverified"}

\* The state cookie is one per browser: the tab that started last owns it.
callback(t, a) ==
  /\ req[t].pc = "google"
  /\ IF jar.state = t /\ a # "declined" /\ Exchange(a) THEN goto(t, "lookup") ELSE answer(t, "none")
  /\ UNCHANGED <<acct, rows, made, jar, now, faults, history>>

\* signInExisting: UPDATE ... WHERE google_sub locks the row if there is one.
signInExisting(t) ==
  /\ req[t].pc = "lookup"
  /\ acct.exists => ~ UserLocked
  /\ goto(t, IF acct.exists THEN "bootstrap" ELSE "create")
  /\ UNCHANGED <<acct, rows, made, jar, now, faults, history>>

\* The insert waits for another insert of the same address, and fails on its row.
create(t) ==
  /\ req[t].pc = "create"
  /\ ~ UserLocked
  /\ IF acct.exists THEN answer(t, "none") ELSE goto(t, "bootstrap")
  /\ UNCHANGED <<acct, rows, made, jar, now, faults, history>>

bootstrapped(a) ==
  IF ~ Superadmin THEN [a EXCEPT !.exists = TRUE]
  ELSE [a EXCEPT !.exists = TRUE, !.superadmin = TRUE, !.owned = TRUE,
                 !.grants = IF a.superadmin THEN @ ELSE @ + 1,
                 !.claims = IF a.owned THEN @ ELSE @ + 1]

\* The rest of the sign-in transaction and its commit.
applyBootstrap(t, out) ==
  /\ req[t].pc = "bootstrap"
  /\ spend(out)
  /\ acct' = IF out = "lost" THEN acct ELSE bootstrapped(acct)
  /\ IF out = "ok" THEN goto(t, "issue") ELSE answer(t, "none")
  /\ UNCHANGED <<rows, made, jar, now, history>>

-----------------------------------------------------------------------------
(* The sessions table.                                                     *)

room == made < MaxSessions /\ (now > 0 => made < MaxAging)

\* insertSession: the row of the next session.
insertSession(parent) == [NoRow EXCEPT !.parent = parent, !.expires = now + RefreshTTL]

\* Mutant of mint: an access token lives as long as a session.
mintLong(i) == [sid |-> i, exp |-> now + RefreshTTL + AccessTTL, sa |-> acct.superadmin]

mint(i) == [sid |-> i, exp |-> now + AccessTTL, sa |-> acct.superadmin]

given(t, i) == req' = [req EXCEPT ![t].pc = "reply", ![t].reply = "session", ![t].token = mint(i)]

CreateSession(t, out) ==
  /\ req[t].pc = "issue" /\ room
  /\ spend(out)
  /\ IF out = "lost" THEN UNCHANGED <<rows, made>>
     ELSE /\ rows' = [rows EXCEPT ![made + 1] = insertSession(0)]
          /\ made' = made + 1
  /\ IF out = "ok" THEN given(t, made + 1) ELSE answer(t, "none")
  /\ UNCHANGED <<acct, jar, now, falseAlarm, condemned, disturbed>>

\* Mutant of selectForUpdate: the row is read without FOR UPDATE.
selectPlain(t) ==
  LET r == rows[req[t].sid]
  IN  /\ req[t].pc = "select"
      /\ IF r.revoked # Never \/ r.rotated
         THEN goto(t, "revokeAll") /\ falseAlarm' = (falseAlarm \/ req[t].sid \notin disturbed \cup condemned)
         ELSE /\ IF r.expires < now THEN answer(t, "clear") ELSE goto(t, "rotate")
              /\ UNCHANGED falseAlarm
      /\ UNCHANGED <<acct, rows, made, jar, now, faults, condemned, disturbed>>

\* RotateSession: the lookup, and which of its three ways it goes.
selectForUpdate(t) ==
  LET r == rows[req[t].sid]
  IN  /\ req[t].pc = "select"
      /\ ~ Locked(req[t].sid)
      /\ IF r.revoked # Never \/ r.rotated
         THEN goto(t, "revokeAll") /\ falseAlarm' = (falseAlarm \/ req[t].sid \notin disturbed \cup condemned)
         ELSE /\ IF r.expires < now THEN answer(t, "clear") ELSE goto(t, "rotate")
              /\ UNCHANGED falseAlarm
      /\ UNCHANGED <<acct, rows, made, jar, now, faults, condemned, disturbed>>

\* The successor, the mark on the old row, and the commit of both.
rotate(t, out) ==
  LET old == req[t].sid
      new == made + 1
  IN  /\ req[t].pc = "rotate" /\ room
      /\ spend(out)
      /\ IF out = "lost" THEN UNCHANGED <<rows, made>>
         ELSE /\ rows' = [rows EXCEPT ![new] = insertSession(old),
                                      ![old].rotated = TRUE, ![old].revoked = now]
              /\ made' = new
      /\ IF out = "ok" THEN given(t, new) ELSE answer(t, "clear")
      /\ disturbed' = IF out = "late" THEN disturbed \cup {old} ELSE disturbed
      /\ UNCHANGED <<acct, jar, now, falseAlarm, condemned>>

\* UPDATE ... WHERE user_id AND revoked_at IS NULL begins: the rows it can see.
revokeAll(t) ==
  /\ req[t].pc = "revokeAll"
  /\ req' = [req EXCEPT ![t].pc = "revoking", ![t].seen = made,
                         ![t].targets = {i \in 1 .. made : rows[i].revoked = Never}]
  /\ UNCHANGED <<acct, rows, made, jar, now, faults, history>>

\* Mutant of reached: the rows come in no particular order.
reachedAnyhow(t) == req[t].targets

\* The row the UPDATE comes to next: live rows have not moved since they were inserted,
\* and every plan for the statement visits them in the order in which they lie.
reached(t) == {i \in req[t].targets : \A j \in req[t].targets : HeapPlace[i] <= HeapPlace[j]}

\* It waits for that row, keeping those it has locked.
lockRow(t) ==
  /\ req[t].pc = "revoking"
  /\ \E i \in reached(t) :
       /\ \A u \in Tabs : u # t => i \notin Held(u)
       /\ req' = [req EXCEPT ![t].targets = @ \ {i}, ![t].locked = @ \cup {i}]
  /\ UNCHANGED <<acct, rows, made, jar, now, faults, history>>

\* Mutant of ended: a replay ends only the session that was presented.
endedOne(t) == [rows EXCEPT ![req[t].sid].revoked = now]

\* A row is looked at again once it is locked.
ended(t) == [i \in Ids |-> IF i \in req[t].locked /\ rows[i].revoked = Never
                           THEN [rows[i] EXCEPT !.revoked = now] ELSE rows[i]]

\* The end of the statement and the commit; the statement may fail on its way.
commitRevokeAll(t, out) ==
  /\ req[t].pc = "revoking"
  /\ req[t].targets = {} \/ out = "lost"
  /\ spend(out)
  /\ IF out = "lost" THEN UNCHANGED <<rows, condemned>>
     ELSE /\ rows' = ended(t)
          /\ condemned' = condemned \cup 1 .. req[t].seen
  /\ answer(t, "clear")
  /\ UNCHANGED <<acct, made, jar, now, falseAlarm, disturbed>>

\* The locks request t waits for, and who has them.
wanted(t) ==
  CASE req[t].pc \in {"select", "revoke"} -> {req[t].sid}
    [] req[t].pc = "revoking" -> reached(t)
    [] OTHER -> {}
WaitsFor(t, u) == t # u /\ wanted(t) \cap Held(u) # {}
Circle(S) == S # {} /\ \A t \in S : \E u \in S : WaitsFor(t, u)

\* Postgres finds a circle of waits and rolls one of its transactions back.
breakDeadlock(t) ==
  /\ \E S \in SUBSET Tabs : t \in S /\ Circle(S) /\ \A R \in SUBSET S : Circle(R) => R = S
  /\ answer(t, "clear")
  /\ UNCHANGED <<acct, rows, made, jar, now, faults, history>>

RevokeSession(t, out) ==
  LET i == req[t].sid
  IN  /\ req[t].pc = "revoke"
      /\ ~ Locked(i)
      /\ spend(out)
      /\ rows' = IF out # "lost" /\ rows[i].revoked = Never THEN [rows EXCEPT ![i].revoked = now] ELSE rows
      /\ answer(t, "clear")
      /\ UNCHANGED <<acct, made, jar, now, history>>

-----------------------------------------------------------------------------
(* The browser.                                                            *)

\* The console echoes the CSRF cookie; without one RequireCSRF answers 403.
CSRF == jar.csrf # 0

verify(token) == token.sid # 0 /\ now <= token.exp

\* The admin port lets a request through on the strength of the access cookie.
RequireSession == verify(jar.access)

\* The tabs that are using session i.
Using(i) == {t \in Tabs : req[t].sid = i /\ i # 0}

send(t, pc) ==
  /\ req[t].pc = "idle" /\ CSRF
  /\ req' = [req EXCEPT ![t] = IF jar.refresh = 0 THEN [Idle EXCEPT !.pc = "reply", !.reply = "clear"]
                               ELSE [Idle EXCEPT !.pc = pc, !.sid = jar.refresh]]
  /\ disturbed' = IF Using(jar.refresh) # {} THEN disturbed \cup {jar.refresh} ELSE disturbed
  /\ UNCHANGED <<acct, rows, made, jar, now, faults, falseAlarm, condemned>>

refresh(t) == send(t, "select")
logout(t) == send(t, "revoke")

\* A failing read of the user clears the cookies; otherwise me changes nothing.
me(t) ==
  /\ req[t].pc = "idle" /\ RequireSession
  /\ faults > 0
  /\ faults' = faults - 1
  /\ answer(t, "clear")
  /\ UNCHANGED <<acct, rows, made, jar, now, history>>

\* Mutant of setSessionCookies: a refresh renews the access cookie only.
setSessionCookiesAccess(q) ==
  [jar EXCEPT !.access = q.token,
              !.refresh = IF q.login THEN q.token.sid ELSE @,
              !.until = now + RefreshTTL,
              !.csrf = IF q.login THEN now + RefreshTTL ELSE @]

\* The CSRF cookie is set at login only.
setSessionCookies(q) ==
  [jar EXCEPT !.access = q.token, !.refresh = q.token.sid, !.until = now + RefreshTTL,
              !.csrf = IF q.login THEN now + RefreshTTL ELSE @]

clearSession == [jar EXCEPT !.access = NoToken, !.refresh = 0, !.until = 0, !.csrf = 0]

\* callback's reply also clears the state cookie.
Deliver(t) ==
  LET q == req[t]
      cookies == CASE q.reply = "session" -> setSessionCookies(q)
                   [] q.reply = "clear"   -> clearSession
                   [] q.reply = "none"    -> jar
  IN  /\ q.pc = "reply"
      /\ jar' = IF q.login THEN [cookies EXCEPT !.state = NoTab] ELSE cookies
      /\ req' = [req EXCEPT ![t] = Idle]
      /\ UNCHANGED <<acct, rows, made, now, faults, history>>

LoseReply(t) ==
  /\ req[t].pc = "reply" /\ faults > 0
  /\ faults' = faults - 1
  /\ req' = [req EXCEPT ![t] = Idle]
  /\ disturbed' = disturbed \cup ({req[t].sid} \ {0})
  /\ UNCHANGED <<acct, rows, made, jar, now, falseAlarm, condemned>>

\* The browser drops what has expired; a reply may take its time.
Tick ==
  /\ now < MaxTime /\ made <= MaxAging
  /\ \A t \in Tabs : req[t].pc \in {"idle", "google", "reply"}
  /\ now' = now + 1
  /\ jar' = [state |-> NoTab,
             access |-> IF now' > jar.access.exp THEN NoToken ELSE jar.access,
             refresh |-> IF now' >= jar.until THEN 0 ELSE jar.refresh,
             until |-> IF now' >= jar.until THEN 0 ELSE jar.until,
             csrf |-> IF now' >= jar.csrf THEN 0 ELSE jar.csrf]
  /\ req' = [t \in Tabs |-> IF req[t].pc = "google" THEN Idle ELSE req[t]]
  /\ UNCHANGED <<acct, rows, made, faults, history>>

-----------------------------------------------------------------------------
Serve(t) ==
  \/ signInExisting(t) \/ create(t) \/ selectForUpdate(t) \/ revokeAll(t) \/ lockRow(t)
  \/ breakDeadlock(t)
  \/ \E out \in Outcomes : \/ applyBootstrap(t, out) \/ CreateSession(t, out) \/ rotate(t, out)
                           \/ commitRevokeAll(t, out) \/ RevokeSession(t, out)

Next ==
  \/ Tick
  \/ \E t \in Tabs :
       \/ start(t) \/ refresh(t) \/ logout(t) \/ me(t)
       \/ \E a \in Answers : callback(t, a)
       \/ Serve(t)
       \/ Deliver(t) \/ LoseReply(t)

Spec == Init /\ [][Next]_vars

-----------------------------------------------------------------------------
Usable(i) == i <= made /\ rows[i].revoked = Never /\ ~ rows[i].rotated /\ rows[i].expires >= now

\* "the entry and the change it describes land together or not at all", and the
\* two bootstrap changes happen once, however many tabs sign in at once.
GrantsAudited ==
  /\ acct.grants = IF acct.superadmin THEN 1 ELSE 0
  /\ acct.claims = IF acct.owned THEN 1 ELSE 0

\* "The old token is marked rotated": of several tabs that refresh with one token,
\* one gets a successor.  A chain of sessions does not fork, and what a session
\* was rotated to is what marks it.
ChainsAreLinear ==
  \A i \in 1 .. made :
    /\ rows[i].parent # 0 => rows[rows[i].parent].rotated
    /\ \A j \in 1 .. made : i # j /\ rows[i].parent = rows[j].parent => rows[i].parent = 0

SignInConsistent == TypeOK /\ GrantsAudited /\ ChainsAreLinear

\* "Kill every session this user has rather than only the one presented": after a
\* replay, every session that existed when its UPDATE began is dead, in whatever
\* tab, also one a third request was rotating or ending at the time.
ReplayEndsSessions == \A i \in condemned : ~ Usable(i)

\* "Either a client race or a theft": a token is taken for replayed only if two
\* tabs used it at once, a reply was lost, a commit went unnoticed, or such an
\* event had ended it.  A browser whose tabs take turns is never signed out.
NoFalseAlarm == ~ falseAlarm

\* RequireSession asks no database: "the access token may still be accepted for the
\* rest of its lifetime", and no longer than AccessTTL after its session ended;
\* and it never claims a superadmin who is not one.
AccessIsBounded ==
  RequireSession =>
    /\ rows[jar.access.sid].revoked # Never => now - rows[jar.access.sid].revoked <= AccessTTL
    /\ jar.access.sa => acct.superadmin

\* A replay keeps the row it was presented with and those its UPDATE has reached while it
\* waits for the next: requests wait for each other in a circle only if a replay was
\* presented with a session that was spent after another replay's UPDATE had begun to
\* end it, never because of the rows the UPDATEs come to.
NoLockCycle ==
  \A S \in SUBSET Tabs : Circle(S) => \E t, u \in S : req[t].pc = "revoking" /\ req[t].sid \in req[u].targets
=============================================================================
