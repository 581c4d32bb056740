CONSTANTS
  Tasks = {sh, c}
  Boot = sh
  Receivers = {c}
  Restricted = {"PipeRead"}
  MaxOpen = 3
  MaxTokens = 5
  MaxPipes = 2
  MaxWrites = 2
SPECIFICATION FairSpec
INVARIANTS TypeOK WriterCount WriteEndValid DataInOrder
PROPERTIES ClosedStaysClosed ReadEnds
CHECK_DEADLOCK FALSE
