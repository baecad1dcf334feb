CONSTANTS
  MaxThreads = 3
  BugDepth = 2
  MaxInstr = 3
  Programs <- AllPrograms
  Objects = {11, 12, 21, 22}
  Recursive = {}
  MaxExecs = 1
SPECIFICATION Spec
INVARIANTS TypeOK OnePriority NoLostWakeup DeadlockReports CyclesAreReal RmwUnsplit NoCrash
PROPERTIES JoinsWait HighestRuns NotifyReaches IsMonitor
