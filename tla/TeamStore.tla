----------------------------- MODULE TeamStore -----------------------------
(***************************************************************************)
(* The teams of the gateway: rows in Postgres, and in every replica a      *)
(* snapshot of them, an auth.Registry, that alone decides which API keys   *)
(* are accepted (teamstore/store.go, auth/registry.go).  Administrators    *)
(* change teams through any replica (admin/teams.go): Postgres first, then *)
(* the replica's own snapshot (writeThrough).  A loop per replica rebuilds *)
(* its snapshot from Postgres.                                             *)
(*                                                                         *)
(* A key is named after its origin: the team it was seeded with, or the    *)
(* admin request that minted it.  A request is the lookup that begins it   *)
(* (for a patch, with the merge Update makes of it), its SQL statement and *)
(* its write-through.  A statement may fail MaxFaults times: "lost" did    *)
(* not commit, "late" did but the caller saw an error.                     *)
(***************************************************************************)
EXTENDS Integers, FiniteSets, Functions

CONSTANTS
  Teams, Seeded,   \* team IDs, and those that exist from the start
  Requests,        \* admin requests, each made once
  Replicas,
  NoKey,           \* no key: a revoked team
  Limits,          \* values of rpm and tpm
  Unset,           \* a nil field of a patch
  Patches,         \* what an administrator may ask for
  MaxFaults        \* SQL statements that fail in a behaviour

\* What the constants stand for: two origins of a key differ, and neither is "no key".
WellFormed ==
  /\ Seeded \subseteq Teams /\ Seeded # {}    \* New refuses an empty table
  /\ Replicas # {}
  /\ Limits \subseteq Nat \ {0} /\ Limits # {} /\ Unset \notin Limits
  /\ Patches \subseteq [rpm : Limits \cup {Unset}, tpm : Limits \cup {Unset}]
  /\ MaxFaults \in Nat
  /\ Teams \cap Requests = {} /\ NoKey \notin Teams \cup Requests
ASSUME TeamStoreAssumption == WellFormed

Keys == Teams \cup Requests
Ops == {"create", "patch", "rotate", "revoke", "delete"}
NoPatch == [rpm |-> Unset, tpm |-> Unset]
Team == [id : Teams, key : Keys \cup {NoKey}, rpm : Limits, tpm : Limits]
Row == [status : {"absent", "live", "deleted"}, team : Team]

VARIABLES
  db,          \* db[t]: the row of team t
  snap,        \* snap[r]: the registry replica r answers from, and degraded
  loading,     \* loading[r]: {} or the registry a refresh has read
  req,         \* req[a]: where admin request a is
  faults,
  issued,      \* history: <<key, team>> pairs that were ever committed
  overlapped,  \* history: teams two requests were changing at once
  dead,        \* history: dead[r]: keys r's registry had to know were gone
  loadedDead   \* history: loadedDead[r]: keys gone when the refresh in flight read

storeVars == <<db, snap, loading, req, faults, issued, overlapped, dead, loadedDead>>

AdminSteps == {"idle", "exec", "apply", "done"}
\* new: the team as the statement will write it.
RequestType == [pc : AdminSteps, op : Ops, home : Replicas, patch : Patches \cup {NoPatch}, new : Team]

IsRegistry(g) ==
  /\ DOMAIN g.byID \subseteq Teams /\ \A t \in DOMAIN g.byID : g.byID[t] \in Team
  /\ DOMAIN g.byHash \subseteq Keys \cup {NoKey} /\ \A k \in DOMAIN g.byHash : g.byHash[k] \in Team

StoreTypeOK ==
  /\ db \in [Teams -> Row]
  /\ \A r \in Replicas : /\ IsRegistry(snap[r].registry) /\ snap[r].degraded \in BOOLEAN
                         /\ \A g \in loading[r] : IsRegistry(g)
                         /\ Cardinality(loading[r]) <= 1
  /\ req \in [Requests -> RequestType]
  /\ faults \in 0 .. MaxFaults
  /\ overlapped \subseteq Teams
  /\ dead \in [Replicas -> SUBSET Keys] /\ loadedDead \in [Replicas -> SUBSET Keys]

-----------------------------------------------------------------------------
(* auth.Registry.  put and drop are what the code does to its two maps.    *)

put(f, k, v) == [x \in DOMAIN f \cup {k} |-> IF x = k THEN v ELSE f[x]]
drop(f, k) == Restrict(f, DOMAIN f \ {k})

\* A revoked team is not indexed by hash.
NewRegistry(teams) ==
  LET keyed == {t \in teams : t.key # NoKey}
  IN  [byID |-> [i \in {t.id : t \in teams} |-> CHOOSE t \in teams : t.id = i],
       byHash |-> [k \in {t.key : t \in keyed} |-> CHOOSE t \in keyed : t.key = k]]

Authenticate(g, k) == k \in DOMAIN g.byHash /\ g.byHash[k].key # NoKey

Get(g, id) == id \in DOMAIN g.byID

\* TeamPatch.Apply: a nil field is left alone.
merged(p, t) ==
  [t EXCEPT !.rpm = IF p.rpm = Unset THEN @ ELSE p.rpm,
            !.tpm = IF p.tpm = Unset THEN @ ELSE p.tpm]

\* Update indexes the team under its hash even if it has none.
Update(g, id, p) ==
  LET t == merged(p, g.byID[id])
  IN  [byID |-> put(g.byID, id, t), byHash |-> put(g.byHash, t.key, t)]

RotateKey(g, id, key) ==
  LET t == [g.byID[id] EXCEPT !.key = key]
  IN  [byID |-> put(g.byID, id, t),
       byHash |-> put(drop(g.byHash, g.byID[id].key), key, t)]

RevokeKey(g, id) ==
  [byID |-> put(g.byID, id, [g.byID[id] EXCEPT !.key = NoKey]),
   byHash |-> drop(g.byHash, g.byID[id].key)]

Add(g, t) == [byID |-> put(g.byID, t.id, t), byHash |-> put(g.byHash, t.key, t)]

\* Mutant of Remove: only one of the indexes forgets the team.
RemoveByID(g, id) == [byID |-> drop(g.byID, id), byHash |-> g.byHash]

Remove(g, id) ==
  [byID |-> drop(g.byID, id),
   byHash |-> IF g.byID[id].key = NoKey THEN g.byHash ELSE drop(g.byHash, g.byID[id].key)]

-----------------------------------------------------------------------------
Live == {t \in Teams : db[t].status = "live"}

\* Mutant of selectTeams: deleted rows are not filtered out.
selectTeamsAll == {db[t].team : t \in {u \in Teams : db[u].status # "absent"}}

\* selectTeamsSQL: rows that are not deleted.
selectTeams == {db[t].team : t \in Live}

Gone(rows, ever) == {k \in Keys : /\ \E t \in Teams : <<k, t>> \in ever
                                  /\ \A t \in Teams : rows[t].status = "live" => rows[t].team.key # k}

Seed(t) == [id |-> t, key |-> t, rpm |-> CHOOSE l \in Limits : \A m \in Limits : l <= m,
            tpm |-> CHOOSE l \in Limits : \A m \in Limits : l <= m]
Idle == [pc |-> "idle", op |-> "patch", home |-> CHOOSE r \in Replicas : TRUE,
         patch |-> NoPatch, new |-> Seed(CHOOSE t \in Teams : TRUE)]
Done == [Idle EXCEPT !.pc = "done"]

StoreInit ==
  /\ db = [t \in Teams |-> [status |-> IF t \in Seeded THEN "live" ELSE "absent", team |-> Seed(t)]]
  /\ snap = [r \in Replicas |-> [registry |-> NewRegistry({Seed(t) : t \in Seeded}), degraded |-> FALSE]]
  /\ loading = [r \in Replicas |-> {}]
  /\ req = [a \in Requests |-> Idle]
  /\ faults = MaxFaults
  /\ issued = {<<t, t>> : t \in Seeded}
  /\ overlapped = {}
  /\ dead = [r \in Replicas |-> {}]
  /\ loadedDead = [r \in Replicas |-> {}]

-----------------------------------------------------------------------------
(* Admin requests.                                                         *)

Begin(a, r, op, p, new) ==
  /\ req[a].pc = "idle"
  /\ req' = [req EXCEPT ![a] = [pc |-> "exec", op |-> op, home |-> r, patch |-> p, new |-> new]]
  /\ overlapped' = IF \E b \in Requests : req[b].pc \in {"exec", "apply"} /\ req[b].new.id = new.id
                   THEN overlapped \cup {new.id} ELSE overlapped
  /\ UNCHANGED <<db, snap, loading, faults, issued, dead, loadedDead>>

\* teamInScope finds the team in the snapshot, or the answer is 404; createTeam
\* must not find it.  The audit entry is written before anything changes, and a
\* request that cannot write it ends here.
PatchTeam(a, r, t, p) ==
  /\ Get(snap[r].registry, t)
  /\ Begin(a, r, "patch", p, merged(p, snap[r].registry.byID[t]))

RotateTeamKey(a, r, t) ==
  /\ Get(snap[r].registry, t)
  /\ Begin(a, r, "rotate", NoPatch, [snap[r].registry.byID[t] EXCEPT !.key = a])

RevokeTeamKey(a, r, t) ==
  /\ Get(snap[r].registry, t)
  /\ Begin(a, r, "revoke", NoPatch, [snap[r].registry.byID[t] EXCEPT !.key = NoKey])

CreateTeam(a, r, t) ==
  /\ ~ Get(snap[r].registry, t)
  /\ Begin(a, r, "create", NoPatch, [Seed(t) EXCEPT !.key = a])

DeleteTeam(a, r, t) ==
  /\ Get(snap[r].registry, t)
  /\ Begin(a, r, "delete", NoPatch, [snap[r].registry.byID[t] EXCEPT !.key = NoKey])

\* The statement finds its row: not deleted, or for an insert never used.
matches(q) == db[q.new.id].status = IF q.op = "create" THEN "absent" ELSE "live"

\* What it writes: a patch the three limits, a key change the key only.
written(q, row) ==
  CASE q.op = "create" -> [status |-> "live", team |-> q.new]
    [] q.op = "patch"  -> [row EXCEPT !.team.rpm = q.new.rpm, !.team.tpm = q.new.tpm]
    [] q.op = "delete" -> [row EXCEPT !.status = "deleted", !.team.key = NoKey]
    [] OTHER           -> [row EXCEPT !.team.key = q.new.key]

StatementOutcomes == {"ok"} \cup (IF faults > 0 THEN {"lost", "late"} ELSE {})

\* exec (or insertTeam): no matching row and an error end the request.
Exec(a, out) ==
  LET t == req[a].new.id
  IN  /\ req[a].pc = "exec"
      /\ out \in StatementOutcomes
      /\ faults' = IF out = "ok" THEN faults ELSE faults - 1
      /\ IF matches(req[a]) /\ out # "lost"
         THEN /\ db' = [db EXCEPT ![t] = written(req[a], @)]
              /\ issued' = IF db'[t].team.key = NoKey THEN issued
                           ELSE issued \cup {<<db'[t].team.key, t>>}
         ELSE UNCHANGED <<db, issued>>
      /\ req' = [req EXCEPT ![a] = IF matches(@) /\ out = "ok" THEN [@ EXCEPT !.pc = "apply"] ELSE Done]
      /\ UNCHANGED <<snap, loading, overlapped, dead, loadedDead>>

\* writeThrough: the change on the snapshot of now.  A team that is not there
\* (or is there already, for Create) leaves it as it is.
applied(q, g) ==
  IF Get(g, q.new.id) = (q.op = "create") THEN g
  ELSE CASE q.op = "create" -> Add(g, q.new)
         [] q.op = "patch"  -> Update(g, q.new.id, q.patch)
         [] q.op = "rotate" -> RotateKey(g, q.new.id, q.new.key)
         [] q.op = "revoke" -> RevokeKey(g, q.new.id)
         [] q.op = "delete" -> Remove(g, q.new.id)

WriteThrough(a) ==
  LET q == req[a]
      former == {k \in Gone(db, issued) : <<k, q.new.id>> \in issued}
  IN  /\ q.pc = "apply"
      /\ snap' = [snap EXCEPT ![q.home].registry = applied(q, @)]
      /\ req' = [req EXCEPT ![a] = Done]
      /\ dead' = IF q.op \in {"create", "patch"} THEN dead
                 ELSE [dead EXCEPT ![q.home] = @ \cup former]
      /\ UNCHANGED <<db, loading, faults, issued, overlapped, loadedDead>>

-----------------------------------------------------------------------------
(* The refresh loop.                                                       *)

markDegraded(r) ==
  /\ snap' = [snap EXCEPT ![r].degraded = TRUE]
  /\ UNCHANGED <<loading, dead, loadedDead>>

\* loadRegistry reads all rows at once, and fails on an empty table.
RefreshLoad(r, ok) ==
  /\ loading[r] = {}
  /\ \/ /\ ok
        /\ IF Live = {} THEN markDegraded(r)
           ELSE /\ loading' = [loading EXCEPT ![r] = {NewRegistry(selectTeams)}]
                /\ loadedDead' = [loadedDead EXCEPT ![r] = Gone(db, issued)]
                /\ UNCHANGED <<snap, dead>>
        /\ UNCHANGED faults
     \/ /\ ~ ok /\ faults > 0
        /\ faults' = faults - 1
        /\ markDegraded(r)
  /\ UNCHANGED <<db, req, issued, overlapped>>

\* store: the snapshot that was read replaces whatever is there by now.
RefreshStore(r) ==
  /\ \E g \in loading[r] : snap' = [snap EXCEPT ![r] = [registry |-> g, degraded |-> FALSE]]
  /\ loading' = [loading EXCEPT ![r] = {}]
  /\ dead' = [dead EXCEPT ![r] = loadedDead[r]]
  /\ loadedDead' = [loadedDead EXCEPT ![r] = {}]
  /\ UNCHANGED <<db, req, faults, issued, overlapped>>

StoreNext ==
  \/ \E a \in Requests :
       \/ \E r \in Replicas, t \in Teams :
            \/ \E p \in Patches : PatchTeam(a, r, t, p)
            \/ RotateTeamKey(a, r, t)
            \/ RevokeTeamKey(a, r, t)
            \/ CreateTeam(a, r, t)
            \/ DeleteTeam(a, r, t)
       \/ \E out \in StatementOutcomes : Exec(a, out)
       \/ WriteThrough(a)
  \/ \E r \in Replicas : (\E ok \in BOOLEAN : RefreshLoad(r, ok)) \/ RefreshStore(r)

StoreSpec == StoreInit /\ [][StoreNext]_storeVars

\* Requests that have begun run to their end and each replica's loop ticks;
\* nobody has to make a request.
StoreFairSpec ==
  /\ StoreSpec
  /\ \A a \in Requests : WF_storeVars(\E out \in StatementOutcomes : Exec(a, out)) /\ WF_storeVars(WriteThrough(a))
  /\ \A r \in Replicas : WF_storeVars(\E ok \in BOOLEAN : RefreshLoad(r, ok)) /\ WF_storeVars(RefreshStore(r))

-----------------------------------------------------------------------------
\* "Both indexes are guarded by one mutex, because Update must keep them
\* pointing at the same team": in every snapshot a key resolves to the team that
\* has it, as the other index knows it, and a team's key resolves to it.
IndexesAgree ==
  \A r \in Replicas :
    LET g == snap[r].registry
    IN  /\ \A k \in DOMAIN g.byHash \ {NoKey} :
             /\ g.byHash[k].key = k
             /\ Get(g, g.byHash[k].id) /\ g.byID[g.byHash[k].id] = g.byHash[k]
        /\ \A t \in DOMAIN g.byID : g.byID[t].key # NoKey => g.byID[t].key \in DOMAIN g.byHash

\* "Postgres first, on purpose: a key that authenticates but was never written
\* would silently stop working": an accepted key was committed, for that team.
AcceptedKeysWereWritten ==
  \A r \in Replicas, k \in Keys :
    Authenticate(snap[r].registry, k) => <<k, snap[r].registry.byHash[k].id>> \in issued

\* How long a revoked, rotated or deleted key lives on: not on the replica that
\* made the change once it is written through, and nowhere once a refresh that
\* began after the change is stored; a refresh that began before it may bring
\* the key back until the next one.  (Of a team two requests change at once, the
\* write-throughs may be applied in the other order.)
RevocationHolds ==
  \A r \in Replicas : \A k \in dead[r] :
    Authenticate(snap[r].registry, k) => snap[r].registry.byHash[k].id \in overlapped

\* What a snapshot may let in: keys its two indexes agree on, that were committed, and
\* that are not known to be dead.
SnapshotIsSound == IndexesAgree /\ AcceptedKeysWereWritten /\ RevocationHolds

\* r's snapshot says what Postgres says.
UpToDate(r) ==
  LET g == snap[r].registry
  IN  /\ DOMAIN g.byID = Live
      /\ \A t \in Live : g.byID[t] = db[t].team
      /\ \A k \in Keys : Authenticate(g, k) <=> \E t \in Live : db[t].team.key = k

\* "it is logged rather than returned, and the next refresh reconciles": when the
\* changes are over, every replica comes to say what Postgres says, whatever was
\* lost, late, out of order or applied to a snapshot already replaced.
Converges == <>[](Live # {}) => <>[](\A r \in Replicas : UpToDate(r))
=============================================================================
