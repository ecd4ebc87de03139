SPECIFICATION Spec
CONSTANTS
  f1 = f1
  Files = {f1}
  Decls <- AllDecls
  Fields <- FieldTable
  Values <- ValueTable
  Dotted <- DottedTable
  Tokens <- TokenTable
  MethodBound = 2
  MessageBound = 3
INVARIANTS TypeOK ReachesItsHandler OneMethodAnswers RefusedForAReason UndoComesBack
CHECK_DEADLOCK FALSE
