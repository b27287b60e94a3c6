SPECIFICATION Spec
CONSTANTS
  Trans = {1, 2}
  Readers = {1}
  TotalTranIndices = 2
  MaxSub = 1
  Prepared <- NonePrepared
  NextId = 4
  MaxId = 12
  UNIT_BIT_COUNT = 2
  BITAREA_MAX_SIZE = 6
  BITAREA_SIZE_AFTER_CLEANUP = 1
  HISTORY_MAX_SIZE = 2
PROPERTY ImplementsIdSet
CHECK_DEADLOCK FALSE
