CONSTANTS
  MaxTasks = 4
  MaxTicks = 2
SPECIFICATION Spec
INVARIANT NoStaleResume
