CONSTANTS
    NumThreads = 3
    Locs = {"x", "y"}
    Model = "SC"
    Programs <- SCPrograms
    Policies <- SCPolicies
    Limits <- SCLimits
    Parallel <- Litmus
    Ipr = TRUE
SPECIFICATION FairSpec
INVARIANTS Extensible StampsOrdered ViewsExact WorklistsValid
PROPERTIES FrozenReads Enumerates Termination
