SPECIFICATION Spec
CONSTANTS
  a = a
  b = b
  c = c
  class = class
  row = row
  Trans = {a, b, c}
  Resources = {class, row}
  Classes = {class}
  ModesOf <- ClassAndRow
  CanTimeout = {a}
  Owners = {a}
  MaxRequests <- TwoAndOne
INVARIANTS
  TypeOK
  HoldersAreCompatible
  TotalsAreCurrent
  NoForgottenWaiter
  EveryWaitIsSeen
PROPERTIES
  EveryWaitEnds
