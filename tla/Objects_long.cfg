SPECIFICATION Spec
CONSTANT LongClasses = TRUE
INVARIANT ObjectsAsDeclared
CHECK_DEADLOCK FALSE
