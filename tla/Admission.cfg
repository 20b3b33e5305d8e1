CONSTANTS
  a = a
  b = b
  p = p
  q = q
  Runs = {a, b}
  Pollers = {p}
  Repo <- MCRepo
  Private = {a, b}
  Blocks = {}
  Issues <- MCIssues
  Models = {"sonnet", "opus", "gpt", "free", "free2"}
  PlanOf <- MCPlanOf
  FreeModels = {"free", "free2"}
  BadModels = {"bad"}
  DefaultModel = "sonnet"
  DefaultReview = {"opus"}
  DefaultPlan = "opus"
  PlanBudgets = {"openai"}
  UsablePlans = {"anthropic", "openai", "gratis"}
  Windows <- MCWindows
  ModelCaps <- MCModelCaps
  CashLimit = 0
  FreeMinutes = 3
  Rate = 1
  Month = 2
  N = 2
  PlatformCap = 2
  LargeCap = 1
  RepoCap = 2
  ReviewWIP = 1
  TwoStage = TRUE
  World <- MCWorld
  FileSets <- MCFileSets
  Spends <- MCSpends
  PlanEstimates <- MCPlanEstimates
  MaxTime = 2
  MaxAttempt <- MCMaxAttempt
SPECIFICATION Spec
INVARIANTS WriteSetsDisjoint CarriedSpendIsKept
PROPERTIES OvershootIsUnseen
CHECK_DEADLOCK FALSE
