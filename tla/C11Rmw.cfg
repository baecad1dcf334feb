CONSTANTS
  Threads = {1, 2, 3, 4}
  Locs = {"x", "y"}
  Programs <- Overtaken

SPECIFICATION Spec

INVARIANTS
  RmwAtomic
