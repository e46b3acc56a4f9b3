SPECIFICATION Spec
CONSTANTS
  UserLabels = {u1}
  Statements = {"plain", "return", "jump", "label", "break", "continue", "ifreturn", "block", "if", "while", "do", "for", "switch"}
  Conds = {"expr", "false"}
  MaxSource = 4
  MaxLabels = 4
  MaxDepth = 2
  StripUnreachableLabels = TRUE
  JumpIntoDead = FALSE
INVARIANTS
  TypeOK StrippingSound FlagsImplyUnreachable PromiseKept LabelsExact
CHECK_DEADLOCK FALSE
