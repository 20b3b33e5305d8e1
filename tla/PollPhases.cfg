CONSTANTS
  Ids = {1, 2}
  ClaimLimit = 1
  Lease = 2
  JobTimeout = 1
  Pulls = {"opened", "revert", "byHand"}
  About <- MCAbout
  Branches = {"run/a", "run/x"}
  Runs = {"a"}
  Attempts <- MCAttempts
  Repos <- MCRepos
  ListCap = 2
  Measurers = {1, 2}
  Pollers = {3, 4}
  TrailingPRs = 2
  ShortPRs = 1
  SeriesPoints = 1
  MinPRsForSpread = 2
  BarPercent = 10
  MeasuredShown = 3
  Measurements <- MCMeasurements
  KnownRepos = {"app", "App", "web"}
  Fold <- MCFold
  MaxMerges = 4
  MaxReverts = 1
SPECIFICATION PhasesSpec
INVARIANTS OneHolder RepeatHasACause MeasuredOnOwnRow FiguresAgree GroupsAreSound
PROPERTIES NoticesArePosted RevertsAreFlagged
