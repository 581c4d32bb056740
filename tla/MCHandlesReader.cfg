CONSTANTS
  Tasks = {sh, c}
  Boot = sh
  Receivers = {c}
  Restricted = {"PipeRead"}
  MaxOpen = 3
  MaxTokens = 5
  MaxPipes = 2
  MaxWrites = 2
SPECIFICATION Spec
INVARIANT ReaderAlive
CHECK_DEADLOCK FALSE
