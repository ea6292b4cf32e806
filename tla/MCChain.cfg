CONSTANTS
  p1 = p1
  p2 = p2
  p3 = p3
  m1 = m1
  m2 = m2
  m3 = m3
  m4 = m4
  NoProvider = none
  Providers = {p1, p2, p3}
  Models = {m1, m2, m3, m4}
  Config <- Serving
  Reconfigs <- Reloaded
  Requested = m1
  Tier <- FourModels
  AllowedProviders = {p1, p2}
  AllowedModels = {m1, m2, m3, m4}
  MaxAttempts = 2
  MaxTotalAttempts = 3
  MaxFlaps = 1
  MaxReloads = 1
SPECIFICATION Spec
CHECK_DEADLOCK FALSE
INVARIANTS
  AvailabilityNeverOverridesAuthorization
  WalkIsOrderly
