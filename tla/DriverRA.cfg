CONSTANTS
    NumThreads = 4
    Locs = {"x", "y"}
    Model = "RA"
    Programs <- RAPrograms
    Policies <- RAPolicies
    Limits <- Unbounded
    Parallel = {}
    Ipr = TRUE
SPECIFICATION Spec
INVARIANTS NoBug TypeOK
PROPERTIES Enumerates
