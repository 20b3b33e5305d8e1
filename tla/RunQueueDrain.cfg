CONSTANTS
  p1 = p1
  p2 = p2
  r1 = r1
  r2 = r2
  Runs = {r1}
  Pollers = {p1}
  MaxAttempt = 1
  MaxTransient = 0
  MaxConflictRetries = 1
  RunsAtOnce = 1
  UnclearDispatch = TRUE
  MaxByHand = 0
SPECIFICATION FairSpec
PROPERTIES ReservationsDrain
CHECK_DEADLOCK FALSE
