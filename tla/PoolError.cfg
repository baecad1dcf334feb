SPECIFICATION Spec
CONSTANTS
    NumWorkers = 3
    TaskFactor = 1
    Items <- MCItems
    Root <- MCRoot
    Revisits <- MCRevisits
    Backward <- MCBackward
    Valid <- MCValid
    Buggy <- MCBugs
INVARIANTS
    TasksCounted
    ErrorSurvives
