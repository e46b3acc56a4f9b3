SPECIFICATION Spec
CONSTANTS
  Parts = {"names", "objects", "grammar"}
  LongLines = FALSE
INVARIANTS NamesSettle ObjectsAsDeclared TreeAsDeclared GrammarAsDeclared ActionsAsDeclared
CHECK_DEADLOCK FALSE
