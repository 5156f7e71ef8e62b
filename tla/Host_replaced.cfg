SPECIFICATION Spec
CONSTANTS
  s1 = s1
  Original = Original
  Zeros = Zeros
  Gone = Gone
  Torn = Torn
  None = None
  Savers = {s1, s2}
  HasProvider = TRUE
  Chunks <- Lengths
  FolderNames = {sub, slprj}
  Supported = {model}
  Bare = {sub, slprj}
  Skipped = {slprj}
  Nameless = TRUE
  Debounce = 1
  Does = {"watch"}
  FileNames = {model, sub}
  MaxChanges = 3
INVARIANT InStep
CHECK_DEADLOCK FALSE
