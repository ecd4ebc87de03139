SPECIFICATION Spec
CONSTANTS
  m1 = m1  m2 = m2  w1 = w1  w2 = w2
  Msgs = {m1, m2}
  Poison = {m2}
  Workers = {w1, w2}
  Errs <- Plain
  policy <- DefaultRetryPolicy
  rollback = TRUE
  Configs <- Tuned
  Override <- FirstTwice
  None = None
  Prefetch = 2
  AttemptBound = 2
  Hazards = {"panic", "drain", "stop", "reconfigure", "window"}
INVARIANTS DoneIsNotUndone DecodableTermedIsTold
PROPERTIES NeverClobbers
CHECK_DEADLOCK FALSE
