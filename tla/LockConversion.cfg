SPECIFICATION Spec
CONSTANTS
  a = a
  b = b
  c = c
  class = class
  row = row
  Trans = {a, b, c}
  Resources = {class}
  Classes = {class}
  ModesOf <- IntentionModes
  CanTimeout = {c}
  Owners = {}
  MaxRequests <- TwoEach
INVARIANTS
  HoldersAreCompatible
