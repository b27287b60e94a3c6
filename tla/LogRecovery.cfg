CONSTANTS
    NTrans = 2
    p1 = p1
    p2 = p2
    Pages = {p1, p2}
    MaxCache = 3
    Workloads <- MCWorkloads
SPECIFICATION Spec
INVARIANTS
    
    AllOrNothing
    CommitIsFinal
    PostponesWait
    PostponesComplete
    PostponesRunOnce
    AnalysisFindsLosers
PROPERTY RecoveryEnds
CHECK_DEADLOCK FALSE
