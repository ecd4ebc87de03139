SPECIFICATION FairSpec
CONSTANTS
  c1 = c1  c2 = c2  i1 = i1  i2 = i2
  Methods = {"Create"}
  OneWay = {}
  Sends <- EitherWay
  Catches <- Apart
  Instances = {i1, i2}
  Lang <- Mixed
  Queue <- DefaultGroups
  NoOption = NoOption
  Calls = {c1, c2}
  Target <- ToCreate
  Caller <- Callers
  Errs <- Failures
  Hazards = {"drain", "panic"}
INVARIANTS OutcomeIsReal
PROPERTIES EveryCallIsAnswered DrainFinishes
CHECK_DEADLOCK FALSE
