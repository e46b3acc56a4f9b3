SPECIFICATION GrammarSpec
CONSTANT LongLines = TRUE
INVARIANT GrammarAsDeclared
CHECK_DEADLOCK FALSE
