CONSTANTS
  Calls = {c1, c2, c3}
  FailureThreshold = 2
  Window = 2
  CooldownBase = 1
  CooldownMax = 2
  SuccessThreshold = 2
  ProbeTimeout = 2
  ReopensBound = 2
SPECIFICATION FairSpec
INVARIANTS
  ProbeExclusion
  WindowIsExact
  EpisodeInv
PROPERTIES
  Heals
