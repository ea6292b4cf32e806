\* The process from boot to exit, with its two workers.
SPECIFICATION Spec
CONSTANTS
  Requests = {r1, r2}
  Supplied = {r1}
  Admins = {a1}
  Workers = {w1}
  r1 = r1
  r2 = r2
  w1 = w1
  a1 = a1
  QueueSize = 1
  BatchSize = 2
  SampleQueue = 1
  Names <- ModelNames
  AutoModel = "auto"
  Policy <- TierPolicy
  JudgeModel = "judge"
  Files <- AllFiles
  Environments <- AllEnvironments
  Replies <- JudgeReplies
  MaxFaults = 1
  MaxReloads = 1
INVARIANTS
  ReadyMeansServing
  RowsCountedOnce
  DrainKeepsRows
PROPERTIES
  ShutdownTerminates
  BacklogsDrain
CHECK_DEADLOCK FALSE
