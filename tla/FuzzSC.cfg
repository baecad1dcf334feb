CONSTANTS
    NumThreads = 2
    Locs = {"x", "y"}
    Model = "SC"
    Programs <- StoreBuffering
    Policies <- StoresFirstRandom
    Limits <- Unbounded
    Parallel = {}
    Ipr = FALSE
    FuzzMax = 3
    CorpusSize = 1
    MutationBound = 3
    RandomPeriod = 2
    UseQueue = TRUE
SPECIFICATION FuzzSpec
INVARIANT OnlyExecutions
