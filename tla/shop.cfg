SPECIFICATION FairSpec
CONSTANTS
  paid = paid  declinedOrder = declined  flakyOrder = flaky
  payments = payments  refunds = refunds
  orders <- ThreeOrders
  maxAttempts = 2
  None = None
  UndoBound = 2
  InFlight = 1
  WorkHazards = {"slow", "publish", "panic"}
  UndoHazards = {"panic"}
INVARIANTS TypeOK FailedIsUndone NoSecondDebit CauseFits
PROPERTIES SettlesRight
CHECK_DEADLOCK FALSE
