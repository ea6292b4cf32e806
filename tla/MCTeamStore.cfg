CONSTANTS
  Teams = {t1, t2}
  Seeded = {t1}
  Requests = {a1, a2}
  Replicas = {r1, r2}
  NoKey = noKey
  Limits = {1, 2}
  Unset = 0
  Patches <- OneLimitEach
  MaxFaults = 1
SPECIFICATION StoreFairSpec
INVARIANTS
  SnapshotIsSound
PROPERTIES
  Converges
