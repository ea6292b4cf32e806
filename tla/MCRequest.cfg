\* One request, any way it can go.
SPECIFICATION Spec
CONSTANTS
  Providers = {"groq", "ollama", "claude", "gemini"}
  Dialect <- Adapter
  DefaultMax <- Ceilings
  Serves <- Served
  Price <- Prices
  AutoModel = "auto"
  Simple = "small"
  Complex = "large"
  Deployments <- Gateways
  Teams <- TeamTable
  NoTeam = NoTeam
  Asks <- AskTable
  Bodies <- BodyTable
  Refusals <- RefusalTable
  RuleSets <- RuleTable
  MaxAttempts = 2
  MaxTotalAttempts = 3
  MaxOrders = 2
INVARIANTS
  SettledOnce
  WorkIsCharged
  OneEnding
  CachedIsComplete
  VerdictPerCall
  RoutedWithinPolicy
PROPERTIES
  GoneReleases
CHECK_DEADLOCK FALSE
