SPECIFICATION Spec
CONSTANTS
  LastData = 7
  FatEnd = 8
  Slots = 5
  Names <- TheNames
  Fold <- TheFold
  Short <- TheShort
  Is83 <- TheNames
  Width <- TheWidth
  Reserved = {"proc"}
  RawPaths <- ThePaths
  Contents <- TheContents
  Units = {1, 2}
  Depth = 2
  Budgets <- TheBudgets
  MaxHandles = 2
  OpenPaths <- TheOpenPaths
  Written = {2}
  RightSets <- TheRights
  MaxLen = 1
INVARIANTS
  TypeOK
  ChainsSound
  FreeCount
PROPERTIES
  StoreImplemented
CHECK_DEADLOCK FALSE
