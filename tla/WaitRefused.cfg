CONSTANTS
  Deciders = {1}
  Labels = {"first", "second"}
  Recommended = "first"
  MaxAutopilot = 0
  MaxDecisions = 1
  MaxReplies = 1
  MaxSessions = 1
  MaxRequeues = 0
  MaxFaults = 0
SPECIFICATION DecisionsRefusedSpec
PROPERTIES WaitEnds
