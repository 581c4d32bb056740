CONSTANTS
  Tasks = {r, s, w}
  Receivers = {r}
  Threads = {w}
  MaxSent = 2
  MaxTicks = 1
SPECIFICATION Spec
INVARIANT NoLostWakeup
