CONSTANTS
  Runs = {1, 2, 3}
  MaxRunsAtOnce = 5
  PlatformCap = 3
  StableRuns = 2
  Medians = {4, 5, 6, 7}
  MaxTime = 3
  MaxAdopt = 3
  Deciders = {1}
  Labels = {"first", "second"}
  Recommended = "first"
  MaxAutopilot = 2
  MaxDecisions = 2
  MaxReplies = 2
  MaxSessions = 2
  MaxRequeues = 1
  MaxFaults = 1
SPECIFICATION RulesSpec
INVARIANTS AdviceMatchesEvidence
PROPERTIES OldClaimsSayNothing LastWordSettles WaitsEnd
CHECK_DEADLOCK FALSE
