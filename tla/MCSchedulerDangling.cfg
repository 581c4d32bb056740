\* A task resumed from an outdated stack pointer ends the run: no deadlock check.
CONSTANTS
  MaxTasks = 4
  MaxTicks = 2
SPECIFICATION Spec
INVARIANT NoDanglingThread
CHECK_DEADLOCK FALSE
