SPECIFICATION Spec
CONSTANTS
  m1 = m1  m2 = m2  w1 = w1  w2 = w2
  Msgs = {m1}
  Poison = {}
  Workers = {w1, w2}
  Errs <- Mixed
  policy <- TerminateOnClientError
  rollback = TRUE
  Configs <- JustTwice
  Override <- AllTwice
  None = None
  Prefetch = 1
  AttemptBound = 2
  Hazards = {"panic"}
INVARIANTS NoSilentLoss
CHECK_DEADLOCK FALSE
