SPECIFICATION FairSpec
CONSTANTS
  Writers = {w1, w2}
  Readers = {r1}
  Flusher = flusher
  None = none
  CAPACITY = 2
  SCAN_LIMIT = 2
  MaxLsa = 3
INVARIANTS ReadsTheVersionAskedFor NoReadOfFreedNode PageHasTheVersion RingIsTheRegisteredPriorList
PROPERTY ReadsEnd
CHECK_DEADLOCK FALSE
