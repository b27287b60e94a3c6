CONSTANTS
    NTrans = 2
    p1 = p1
    p2 = p2
    Pages = {p1, p2}
    MaxCache = 3
    Workloads <- PostponeWorkloads
SPECIFICATION Spec
INVARIANT EveryPostponeRuns
CHECK_DEADLOCK FALSE
