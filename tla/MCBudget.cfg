CONSTANTS
  cheap = cheap
  middle = middle
  dear = dear
  Requests = {r1, r2}
  Models = {cheap, middle, dear}
  NoModel = none
  Price <- Ladder
  MaxOverrun = 1
  Cap = 3
  Periods = 2
  MaxFaults = 1
  MaxResets = 1
SPECIFICATION Spec
SYMMETRY RequestSymmetry
CHECK_DEADLOCK FALSE
INVARIANTS
  CallsAreCovered
  SettledExactly
  CapHolds
