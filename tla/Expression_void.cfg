SPECIFICATION Spec
CONSTANTS Terms <- MCTerms Texts <- MCTexts Word = 32 Stale = {FALSE}
  Parent <- MCParent Child <- MCChild Sibling <- MCSibling Arrays <- MCArrays
  KnownObjects = 9 NumAttributes = 12 Machines <- MCMachines
INVARIANT VoidLeavesNothing
CHECK_DEADLOCK FALSE
