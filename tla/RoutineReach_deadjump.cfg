SPECIFICATION Spec
CONSTANTS
  UserLabels = {u1}
  Statements = {"plain", "return", "jump", "label", "block", "if", "ifreturn"}
  Conds = {"expr", "false"}
  MaxSource = 4
  MaxLabels = 3
  MaxDepth = 3
  StripUnreachableLabels = TRUE
  JumpIntoDead = TRUE
INVARIANTS
  StrippingSound
CHECK_DEADLOCK FALSE
