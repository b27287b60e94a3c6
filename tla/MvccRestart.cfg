SPECIFICATION Spec
CONSTANTS
  NTrans = 2
  Readers = {2}
  Writers = {1}
  SubWriters = {}
  OvLockers = {1}
  Prepared <- FirstPrepared
  RestartNextId = 6
  MaxId = 7
  HISTORY_MAX_SIZE = 2
  UNIT_BIT_COUNT = 2
INVARIANTS
  WatermarkIsBelowActive
  VacuumRespectsSnapshots
CHECK_DEADLOCK FALSE
