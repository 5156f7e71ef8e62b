SPECIFICATION BoundsSpec
CONSTANTS
  m1 = m1
  m2 = m2
  m3 = m3
  m4 = m4
  m5 = m5
  d1 = d1
  p1 = p1
  c1 = c1
  c2 = c2
  c3 = c3
  None = None
  PINNED_PARSES = 2
  Size <- Sizes
  Callers = {c1, c2, c3}
  Models = {m1, m2, m3, m4, m5}
  DataFiles = {d1}
  Projects = {p1}
  TabFiles = {m3}
  Asks = {"cheap", "parse", "tab", "usage"}
  parsedBudget = 2
  Corrupt = {1}
  MaxVersion = 1
  MaxWrites = 2
  ReadFaults = TRUE
  WatcherStatFaults = FALSE
SYMMETRY Symmetric
INVARIANTS
  SlotsAreFlights
  JoinersHaveAFlight
  WatchedTiersCurrent
  QuietAnswersCurrent
  MapBound
  OneDerivation
  CurrentUnlessDisplaced
PROPERTY EvictsOldestUnpinned
