SPECIFICATION Spec
CONSTANTS
  f1 = f1
  Files = {f1}
  Decls <- NestedDecls
  Fields <- FieldTable
  Values <- PlainValues
  Dotted <- DottedTable
  Tokens <- TokenTable
  MethodBound = 2
  MessageBound = 2
INVARIANTS OneMethodReceives
CHECK_DEADLOCK FALSE
