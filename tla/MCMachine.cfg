SPECIFICATION Spec
CONSTANTS
  Kinds = {"blk", "net", "p9", "e1000e", "ac97", "ahci", "nvme"}
  Units = 2
  QueueMax = 2
  Spins = 1
  Capacity = 2
  Values = {"v"}
  Blank = "blank"
  Junk = "junk"
  IndexMod = 4
  Depth = 2
  Retries = 3
  BlkBudget <- TheBlkBudget
  TxRing = 2
  RxRing = 3
  UsedMod = 4
  NetBudget <- TheNetBudget
  Shared = {"a", "b", "c"}
  Asked <- ThePaths
  WalkMax = 1
  Pieces <- ThePieces
  Dot = "dot"
  P9Budget <- TheP9Budget
  Entries = 3
  PerBuffer = 4
  ToneLengths = {1, 4, 9, 20, 30}
  MaxTones = 2
  ToneLimit = 25
  Leaders = {"p", "q"}
  Members = {"m"}
  MembersOf = "p"
  Idle = "idle"
  NoStack = "nostack"
  Sleepers = {"s1", "s2", "s3"}
  SpaceOf <- TheSpaceOf
  FutexCalls = 5
  Readers = {"r1", "r2"}
  LeaderOf <- TheLeaders
  KeyBuffer = 2
  MaxTyped = 4
  MaxGrabs = 2
  NoFocus = "none"
  ServiceList <- TheServices
  MaxSpawns = 6
  Cells = 6
  Inks = {"ink"}
  Extents <- TheExtents
  MaxWindows = 2
  Events = 5
  NoId = 0
  Opcodes = {"create", "mouse"}
  MaxCalls = 4
  MaxGuis = 2
  MaxOthers = 2
PROPERTY
  OkMeansDone
  
INVARIANT
  BringupSound
  RingsSound
  TasksSound
  DeskSound
  OwnReply
CHECK_DEADLOCK FALSE
