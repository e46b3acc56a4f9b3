SPECIFICATION Spec
CONSTANTS
  Parts = {"tokens", "conditionals", "options", "dictionary", "veneer"}
  SkipsInDefinitions = FALSE
  HashTabSize = 2
  CircleSize = 3
  LookAhead = 2
  Sources <- Lexemes
  Keyword <- Keywords
  Quoting = {"quote"}
  MaxSymbols = 3
  MaxIfdefStack = 2
  ConditionalTexts <- SixLines
  Settings <- SettingsUsed
  SourceSet = {"GRAMMAR_META_FLAG"}
  Values <- ValuesUsed
  MaxGiven = 3
  Texts <- ThirteenWords
  Resolution = 2
  Arguments <- NounsOnly
  TruncateFlag = TRUE
  ImplicitSingular = TRUE
  Beginnings <- SixBeginnings
  MaxAdded = 3
  MaxAgain = 1
INVARIANTS TokensFaithful PeeksLeaveNoTrace SettingsDecided FindAgrees
PROPERTIES ChoosesBranches IsWordTable VeneerSettles
CHECK_DEADLOCK FALSE
