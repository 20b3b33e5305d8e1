SPECIFICATION Spec
CONSTANTS
  Parts = {"webhook", "tokens", "facts", "plans"}
  Slots = {d1, d2}
  Scenes <- MCScenes
  Edits <- MCEdits
  MaxSends = 2
  MaxRestarts = 1
  MaxPollFaults = 1
  Callers = {"c1", "c2", "p1", "p2"}
  SourceOf <- MCSourceOf
  MaxTokens = 3
  FirstWorlds <- MCFirstWorlds
  Changes <- MCChanges
  Days = 3
  RecordedPrice = 10
  Definitions <- MCDefinitions
  Harnesses = {"x", "y"}
  MaxDefines = 3
INVARIANTS
  AnsweredSessionsWoke
  TokensAreAccounted
  FactsAreWhatWasSaid
  ConsentIsForThisBilling
PROPERTIES
  RankSettles
CHECK_DEADLOCK FALSE
