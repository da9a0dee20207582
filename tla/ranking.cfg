SPECIFICATION RankingSpec
CONSTANTS
  Services = {"api", "db", "disk"}
  DependsOn <- MCDependsOn
  AlertService = "api"
  MaxHops = 1
  Attributes <- MCAttributes
  Histories <- MCHistories
  Weightings <- MCWeightings
  Priors <- MCPriors
  Default = 4
  Span = 3
  Count = 3
  Scale = 8
CHECK_DEADLOCK FALSE
INVARIANT StabilityIsExact
