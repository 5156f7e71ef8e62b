SPECIFICATION Spec
CONSTANTS
  m1 = m1
  m2 = m2
  m3 = m3
  m4 = m4
  m5 = m5
  d1 = d1
  p1 = p1
  c1 = c1
  c2 = c2
  c3 = c3
  None = None
  PINNED_PARSES = 2
  Size <- Sizes
  Callers = {c1, c2}
  Models = {m1}
  DataFiles = {}
  Projects = {}
  TabFiles = {}
  Asks = {"cheap", "usage"}
  parsedBudget = 2
  Corrupt = {}
  MaxVersion = 1
  MaxWrites = 2
  ReadFaults = FALSE
  WatcherStatFaults = FALSE
SYMMETRY Symmetric
INVARIANT TiersCurrent
