CONSTANTS
  MaxThreads = 3
  BugDepth = 1
  MaxInstr = 1
  Programs <- SpinPrograms
  Objects = {11, 12, 21, 22}
  Recursive = {}
  MaxExecs = 2
SPECIFICATION FairSpec
PROPERTIES Ends
