SPECIFICATION Spec
CONSTANTS
  MaxOrder = 2
  Regions <- TheRegions
  Reserved <- TheReserved
  Procs = {p1, p2}
  Programs <- ThePrograms
  CodePages <- TheCode
  MapBase = 8
  MapLimit = 12
  MapSizes = {1, 2}
  Budgets <- TheBudgets
  SlabSizes <- TheSlabs
  SlabRegion = 32
  HeapSize = 170
  Header = 4
  HeaderAlign = 2
  Layouts <- TheLayouts
  HeapCalls = 6
INVARIANTS
  Accounted
  Isolation
  HeapSound
CHECK_DEADLOCK FALSE
SYMMETRY TheSymmetry
