CONSTANTS
  p1 = p1
  Tier <- Alone
  WindowCapacity = 2
  WindowDuration = 1
  Outcomes <- AllOutcomes
  Good <- Quick
  DegradedErrorRate = 10
  DownErrorRate = 60
  DownConsecutiveFailures = 2
  RecoveryStreak = 2
  HistoryCapacity = 1
  MaxFaults = 1
  MaxRestarts = 1
SPECIFICATION HealthFairSpec
PROPERTIES
  VerdictsAreEarned
  Readmitted
