CONSTANTS
  r1 = r1
  r2 = r2
  c1 = c1
  c2 = c2
  Replicas = {r1, r2}
  Calls = {c1, c2}
  Home <- OneEach
  FailureThreshold = 1
  Window = 1
  CooldownBase = 2
  CooldownMax = 2
  SuccessThreshold = 1
  ProbeTimeout = 2
  ReopensBound = 1
  StateCacheTTL = 1
  StateTTLSlack = 2
  MaxFaults = 1
  MaxResets = 1
SPECIFICATION FairSpec
INVARIANTS
  FleetProbeExclusion
PROPERTIES
  BoundedStaleness
  FleetHeals
