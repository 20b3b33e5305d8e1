CONSTANTS
  Parts = {"delivery", "evidence", "owner", "provider"}
  WorkflowDir = {"ci.yml"}
  Under <- MCUnder
  Cases <- MCCases
  ReviewModels <- MCModels
  MaxPush = 1
  PRs = {1, 2, 3, 4}
  Artifact <- MCArtifact
  evidencePushAttempts = 2
  MaxAttempt = 1
  MaxFaults = 1
  OwnerCases <- MCOwnerCases
  Ends = {"built", "identity"}
  CIEnds = {"green"}
  MaxRebaseConflictRetries = 1
  DefaultTransientRequeues = 1
  ProviderNames = {"anthropic", "openai"}
  haltThreshold = 3
  MaxFlying = 2
  MaxClaims = 4
SPECIFICATION Spec
INVARIANTS ScreenshotsStay ChecksAreOfThisPR SystemicStopTrips
PROPERTIES AutoMergeIsEarned MarksStand
CHECK_DEADLOCK FALSE
