SPECIFICATION Spec
CONSTANTS
  Parts = {"build", "lower"}
  Writers = {TRUE, FALSE}
  StackWriters = {TRUE}
  CostlyStatements = {"pushx", "block", "tail", "count", "jump", "call", "while"}
  Shapes <- Graphs
  MaxValues <- ValuesIn
  CostlyKinds = {"udiv", "select", "minmax", "freeze", "zext", "trunc", "sext", "icmp"}
INVARIANTS SameCode ModelAgrees LegalAccepted OperandsHold PhisParallel FlowFollows
CHECK_DEADLOCK FALSE
