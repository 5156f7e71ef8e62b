SPECIFICATION PartsSpec
CONSTANTS
  f1 = f1
  f2 = f2
  a1 = a1
  a2 = a2
  a3 = a3
  b1 = b1
  x1 = x1
  x2 = x2
  x3 = x3
  n1 = n1
  X = X
  Y = Y
  None = None
  Sources = {f1, f2}
  Roots = {a1, a2, a3, b1}
  Nodes = {x1, x2, x3, n1}
  Names = {X, Y}
  Editable = {a1, a2, a3, b1}
  HostEdited = {a1}
  Viewed = {a1, a3, b1}
  Shown = {x1}
  SrcOf <- FileOf
  Label <- FileOf
  ParsedUp <- Read
  ParsedName <- Called
  Selectable <- Entries
  MaxSteps <- TwoSteps
INVARIANTS
  TypeOK
  IndexIsOfTheTrees
  FoundIsTheOne
  HistoryApplies
  UsersAreTheReaders
  ScopeAnswersAlike
PROPERTIES
  SelectionIsLetGo
  HistoryLeadsBack
