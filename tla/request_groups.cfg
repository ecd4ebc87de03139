SPECIFICATION Spec
CONSTANTS
  c1 = c1  c2 = c2  i1 = i1  i2 = i2
  Methods = {"Create", "Get"}
  OneWay = {"Get"}
  Sends <- EitherWay
  Catches <- Overlap
  Instances = {i1, i2}
  Lang <- Mixed
  Queue <- DefaultGroups
  NoOption = NoOption
  Calls = {c1}
  Target <- ToCreate
  Caller <- Callers
  Errs <- OneFailure
  Hazards = {"refuse", "crash", "unsubscribe", "panic", "loss"}
INVARIANTS TypeOK HandledOnce OutcomeIsReal NoHalfRegistration
PROPERTIES NoStealing
CHECK_DEADLOCK FALSE
