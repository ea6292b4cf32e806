CONSTANTS
  r1 = r1
  r2 = r2
  r3 = r3
  Requests <- MCRequests
  Warm = r1
  WarmAsk <- MCWarmAsk
  Teams <- MCTeams
  NoOrg = noOrg
  None = none
  Org <- MCOrg
  Isolated = {"c"}
  Prompts <- MCPrompts
  Asks <- MCAsks
  Sim <- MCSim
  Threshold = 2
  Headers <- MCHeaders
  Rules <- MCRules
  DefaultTTL = 2
  MaxTTL = 2
  MaxCandidates = 2
  MaxScopeEntries = 1
  Callers <- MCCallers
  PurgedTeams <- MCPurgedTeams
  PurgedIds <- MCPurgedIds
  MaxPurges = 1
  MaxTime = 1
  MaxFaults = 1
SPECIFICATION Spec
SYMMETRY Symmetry
INVARIANTS
  ServedIsShared
  AnswersExpire
  CapIsSoft
PROPERTY
  PurgeHolds
CHECK_DEADLOCK FALSE
