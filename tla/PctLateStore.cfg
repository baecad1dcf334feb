CONSTANTS
  MaxThreads = 3
  BugDepth = 1
  MaxInstr = 2
  Programs <- OnlyLateStore
  Objects = {11, 12, 21, 22}
  Recursive = {}
  MaxExecs = 1
SPECIFICATION Spec
PROPERTIES LocksChecked
