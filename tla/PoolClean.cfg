SPECIFICATION FairSpec
CONSTANTS
    NumWorkers = 2
    TaskFactor = 1
    Items <- BigItems
    Root <- MCRoot
    Revisits <- BigRevisits
    Backward <- BigBackward
    Valid <- BigValid
    Buggy <- MCNoBug
INVARIANTS
    TypeOK
    ExploredOnce
    CompleteAtEnd
    BacklogBound
PROPERTY Termination
