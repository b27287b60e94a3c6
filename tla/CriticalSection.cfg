SPECIFICATION FairSpec
CONSTANTS
  Threads = {t1, t2, t3}
  None = none
  MaxDepth = 2
  MaxCalls = 3
INVARIANTS WriterIsAlone NoForgottenWaiter
PROPERTY EveryWaitEnds
CHECK_DEADLOCK FALSE
