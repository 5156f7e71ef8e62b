SPECIFICATION DocumentsSpec
CONSTANTS
  A = A
  B = B
  None = None
  Opened = {"text", "chunk", "value", "mat", "objects"}
  Texts <- SmallTexts
  Documents <- SmallChunks
  NewNames = {"N"}
  Values = {"v0", "v1"}
  FileIds = 2
  MatlabValues <- SmallValues
  Mats <- SmallMats
  ObjectFiles <- SmallFiles
  Alphabet <- Strings
  Templates <- SmallTemplates
  Offered <- SmallOffers
  Creatable <- SmallClasses
  ElementNames = {"a", "c"}
  Chance = FALSE
  TextEdits = 3
  MaxEdits = 3
  MaxReads = 1
  MaxElements = 3
  ValueEdits = 4
  MatEdits = 3
  ObjectEdits = 2
  ObjectDeletes = 1
INVARIANTS
  DocumentsTypeOK
  NarrowIsWide
  TextIsModel
  BuildIsText
  UntouchedKept
  GateLets
  RowsAreTheValue
  HistoryLeadsBack
  WrittenAsRead
  SavedIsShown
PROPERTIES
  WritesItsOwn
  NoNameTwice
  KeyedUncheckableStays
CHECK_DEADLOCK FALSE
