\* A completion whose upstream names the model by version.
SPECIFICATION Spec
CONSTANTS
  Providers = {"groq", "ollama", "claude", "gemini"}
  Dialect <- Adapter
  DefaultMax <- Ceilings
  Serves <- Served
  Price <- Prices
  AutoModel = "auto"
  Simple = "small"
  Complex = "large"
  Deployments <- Gateways
  Teams <- TeamTable
  NoTeam = NoTeam
  Asks <- AskTable
  Bodies <- AliasTable
  Refusals <- RefusalTable
  RuleSets <- RuleTable
  MaxAttempts = 2
  MaxTotalAttempts = 3
  MaxOrders = 2
INVARIANT ServedIsPriced
CHECK_DEADLOCK FALSE
