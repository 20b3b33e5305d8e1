CONSTANTS
  p1 = p1
  p2 = p2
  r1 = r1
  r2 = r2
  Runs = {r1}
  Pollers = {p1}
  MaxAttempt = 2
  MaxTransient = 1
  MaxConflictRetries = 1
  RunsAtOnce = 1
  UnclearDispatch = FALSE
  MaxByHand = 1
SPECIFICATION Spec
INVARIANTS TypeOK LedgerIsCurrent IdleHoldsNothing LiveClaimIsCounted PlannedHasPlan
PROPERTIES SettleStaysInItsAttempt OneSlotPerRun
CHECK_DEADLOCK FALSE
