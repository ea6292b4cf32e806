CONSTANTS
  Requests = {r1, r2}
  Capacity = 4
  Refill = 2
  Amounts = {1, 3, 4, 5}
  TTL = 4
  ShedFloor = 1
  MaxUse = 6
  MaxTicks = 6
  MaxFaults = 1
SPECIFICATION BucketSpec
SYMMETRY RequestSymmetry
INVARIANTS
  UsageIsLimited
  RetryAfterIsEnough
PROPERTIES
  ImplementsContinuousBucket
CHECK_DEADLOCK FALSE
