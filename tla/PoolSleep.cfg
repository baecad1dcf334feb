SPECIFICATION FairSpec
CONSTANTS
    NumWorkers = 2
    TaskFactor = 1
    Items <- MCItems
    Root <- MCRoot
    Revisits <- MCRevisits
    Backward <- MCBackward
    Valid <- MCValid
    Buggy <- MCNoBug
PROPERTY SleepOnlyWhenQueueEmpty
