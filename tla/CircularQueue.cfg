SPECIFICATION FairSpec
CONSTANTS
  Producers = {t1, t2}
  Consumers = {t3, t4}
  t1 = t1
  a = a
  b = b
  Elements = {a, b}
  ElementsOf <- OneEach
  Torn = torn
  Capacity = 2
  MaxCursor = 3
INVARIANT ConsumedOnceInOrder
PROPERTIES ImplementsFifo EveryElementIsConsumed
CHECK_DEADLOCK FALSE
