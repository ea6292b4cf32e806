CONSTANTS
  Tabs = {t1, t2}
  NoTab = noTab
  Superadmin = TRUE
  MaxSessions = 4
  MaxAging = 3
  HeapPlace <- InsertionOrder
  AccessTTL = 1
  RefreshTTL = 2
  MaxTime = 2
  MaxFaults = 1
SPECIFICATION Spec
SYMMETRY TabSymmetry
INVARIANTS
  SignInConsistent
  ReplayEndsSessions
  NoFalseAlarm
  AccessIsBounded
  NoLockCycle
CHECK_DEADLOCK FALSE
