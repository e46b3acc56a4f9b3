SPECIFICATION MCSpec
CONSTANTS
  Parts = {"pipeline", "replay", "dead"}
  Main = Main
  X = X
  OldX = OldX
  Foo = Foo
  Goo = Goo
  NoSym = NoSym
  MainSym = Main
  Syms = {Main, Foo, Goo}
  Targets = {TRUE, FALSE}
  Strip = TRUE
  ParenCases = FALSE
  TokensOfReplaced = FALSE
  Scale = 2
  Bank = 6
  Banks = 2
  MaxFunctions = 3
  MaxBody = 2
  MaxData = 1
  Names = {Main, F, X}
  Rename <- MCRename
  MaxRoutines = 3
  MaxAsked = 1
  MaxErrors = 1
  MaxRefs = 1
  Kinds = {"return", "jump", "branch"}
  MaxLabels = 3
  MaxReplayed = 2
  MaxSteps = 6
  MaxDepth = 1
  StripUnreachableLabels = TRUE
INVARIANTS TypesOK RoutinesInSourceOrder NothingLostSilently SymbolsResolve TablesFresh ParserAgrees ReplayIsEager LinksRight PlacedRight
CHECK_DEADLOCK FALSE
SYMMETRY NamesAlike
