SPECIFICATION TargetSpec
CONSTANTS
  Labels = {1, 2}
  Ops = {"plain", "branch", "other", "jump", "rtrue", "rfalse", "ret_popped", "ret"}
  Lengths = {58, 61, 62}
  GOps = {"plain", "branch", "jump", "return"}
  GLengths = {1, 118, 125, 32760, 32766}
  MaxItems = 4
INVARIANTS TargetFlowPreserved FormsHold
CHECK_DEADLOCK FALSE
