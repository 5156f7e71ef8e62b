SPECIFICATION DocumentsSpec
CONSTANTS
  A = A
  B = B
  None = None
  Opened = {"value"}
  Texts <- NoUuids
  Documents <- UnreadAlone
  NewNames = {"N"}
  Values = {"v0", "v1"}
  FileIds = 2
  MatlabValues <- OneRow
  Mats <- SmallMats
  ObjectFiles <- SmallFiles
  Alphabet <- Strings
  Templates <- SmallTemplates
  Offered <- SmallOffers
  Creatable <- SmallClasses
  ElementNames = {"a", "c"}
  Chance = TRUE
  TextEdits = 1
  MaxEdits = 3
  MaxReads = 1
  MaxElements = 3
  ValueEdits = 3
  MatEdits = 3
  ObjectEdits = 2
  ObjectDeletes = 1
INVARIANT ShapesComeBack
CHECK_DEADLOCK FALSE
