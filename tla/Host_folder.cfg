SPECIFICATION FairSpec
CONSTANTS
  s1 = s1
  Original = Original
  Zeros = Zeros
  Gone = Gone
  Torn = Torn
  None = None
  Savers = {s1, s2}
  HasProvider = TRUE
  Chunks <- Lengths
  FolderNames = {sub, slprj}
  Supported = {model}
  Bare = {sub, slprj}
  Skipped = {slprj}
  Nameless = TRUE
  Debounce = 1
  Does = {"save", "watch"}
  FileNames = {model, notes}
  MaxChanges = 2
INVARIANTS
  TypeOK
  AccessKept
  NeverEmptied
  InStep
PROPERTIES
  OriginalStays
  KeepsPromise
  ComesInStep
  StopIsTold
CHECK_DEADLOCK FALSE
