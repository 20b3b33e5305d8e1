CONSTANTS
  g1 = g1
  f1 = f1
  Guards = {g1}
  Remarks = {f1}
  PlanModels = 2
  ReviewModels = 1
  BuildModels = 2
  CheckLoopMaxRounds = 2
  MaxFixRounds = 2
  BuildBudget = 2
  ReviewBudget = 1
  AgentTimeout = 0
  DefaultAgentTimeout = 2
SPECIFICATION Spec
INVARIANTS ReadyIsEarned EndingIsAccepted AgentFitsItsStage BuildRoundsAreFresh RoundsAreBounded CorrectionKeepsItsModel RowsAccountForFindings
CHECK_DEADLOCK FALSE
