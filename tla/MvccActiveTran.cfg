SPECIFICATION Spec
CONSTANTS
  Trans = {1, 2}
  Readers = {}
  TotalTranIndices = 3
  MaxSub = 1
  Prepared <- TwoPrepared
  NextId = 7
  MaxId = 22
  UNIT_BIT_COUNT = 4
  BITAREA_MAX_SIZE = 3
  BITAREA_SIZE_AFTER_CLEANUP = 2
  HISTORY_MAX_SIZE = 2
INVARIANTS  SearchesAreExact LayoutIsValid 
PROPERTY ImplementsIdSet
CHECK_DEADLOCK FALSE
