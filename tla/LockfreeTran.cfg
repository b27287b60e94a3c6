SPECIFICATION Spec
CONSTANTS
  NThreads = 3
  Nodes = {n1, n2}
  NoNode = NoNode
  INVALID_TRANID = 4
  RefreshInterval = 2
SYMMETRY NodeSymmetry
INVARIANTS
  NoReclaimWhileHeld
  SentinelNeverCached
CHECK_DEADLOCK FALSE
