\* A task resumed from an outdated stack pointer ends the run: no deadlock check.
CONSTANTS
  MaxTasks = 4
  MaxTicks = 2
SPECIFICATION FairSpec
INVARIANTS TypeOK StaleOnlyAlone OneRunner FreedStackIdle ThreadHasSpace
PROPERTIES FinishedIsFinal ReadyRuns SleeperWakes WaitEnds
CHECK_DEADLOCK FALSE
