CONSTANTS
  p1 = p1
  p2 = p2
  r1 = r1
  r2 = r2
  Runs = {r1, r2}
  Pollers = {p1, p2}
  MaxAttempt = 0
  MaxTransient = 0
  MaxConflictRetries = 0
  RunsAtOnce = 1
  UnclearDispatch = FALSE
  MaxByHand = 0
SPECIFICATION Spec
INVARIANT RunsAtOnceHold
SYMMETRY Symmetry
CHECK_DEADLOCK FALSE
