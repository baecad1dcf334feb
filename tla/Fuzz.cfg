CONSTANTS
    NumThreads = 3
    Locs = {"x", "y"}
    Model = "RA"
    Programs <- Fuzzed
    Policies <- StoresFirstRandom
    Limits <- Unbounded
    Parallel = {}
    Ipr = FALSE
    FuzzMax = 4
    CorpusSize = 1
    MutationBound = 3
    RandomPeriod = 2
    UseQueue = TRUE
SPECIFICATION FuzzSpec
INVARIANTS OnlyExecutions ChoicesFit MutationSurvives NoBug ViewsExact
