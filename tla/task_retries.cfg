SPECIFICATION FairSpec
CONSTANTS
  m1 = m1  m2 = m2  w1 = w1  w2 = w2
  Msgs = {m1}
  Poison = {}
  Workers = {w1, w2}
  Errs <- Mixed
  policy <- TerminateOnClientError
  rollback = TRUE
  Configs <- JustFourth
  Override <- AllFourth
  None = None
  Prefetch = 1
  AttemptBound = 4
  Hazards = {"slow"}
INVARIANTS NoSilentLoss RetriesSpaced
PROPERTIES Concludes
CHECK_DEADLOCK FALSE
