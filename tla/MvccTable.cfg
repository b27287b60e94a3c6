SPECIFICATION Spec
CONSTANTS
  NTrans = 2
  Readers = {1}
  Writers = {1, 2}
  SubWriters = {1}
  OvLockers = {}
  Prepared <- NonePrepared
  RestartNextId = 4
  MaxId = 6
  HISTORY_MAX_SIZE = 8
  UNIT_BIT_COUNT = 2
INVARIANTS
  VacuumRespectsSnapshots
  CommitIsLoggedBeforeVacuum
  WatermarkIsBelowActive
  
PROPERTIES
  WatermarksNeverGoBack
CHECK_DEADLOCK FALSE
