SPECIFICATION EntrySpec
CONSTANTS
  Leaders = {p, q}
  Members = {m}
  MembersOf = p
  Idle = idle
  NoStack = nostack
INVARIANT
  OwnStack
CHECK_DEADLOCK FALSE
