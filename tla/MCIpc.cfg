CONSTANTS
  Tasks = {r, s, w}
  Receivers = {r}
  Threads = {w}
  MaxSent = 2
  MaxTicks = 1
SPECIFICATION FairSpec
INVARIANTS TypeOK InOrder WaitersSound DeadIsClean
PROPERTIES RecvEnds CancelEnds
