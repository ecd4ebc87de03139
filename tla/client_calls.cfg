SPECIFICATION Spec
CONSTANTS
  c1 = c1  c2 = c2  shared = shared
  Calls = {c1, c2}
  Kinds <- AnyKind
  Name <- Names
  Options <- Same
  Arrays = {shared}
  Depth = 2
  Answers = {"answer"}
  Supplied = {"cached"}
  Foreign = {"foreign"}
  TryBound = 2
  None = None
INVARIANTS TypeOK ToldItsOwnMethod AnswerIsWhole AckIsStored
CHECK_DEADLOCK FALSE
