CONSTANTS
  Threads = {1, 2, 3, 4}
  Locs = {"x", "y"}
  Programs <- Litmus

SPECIFICATION Spec

INVARIANTS
  HbExact
  MoConsistent
  ReachExact
  Coherent
  ScRules
  NeverStuck
