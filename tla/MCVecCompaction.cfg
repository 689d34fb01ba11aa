SPECIFICATION Spec
CONSTANTS
  a = a
  b = b
  Raw = Raw
  Value <- MCValue
  Others <- MCOthers
  Kinds = {FALSE}
  OwnReferences = FALSE
  Wrap = 64
  MaxCapacity = 6
  MaxFaults = 0
INVARIANTS
  KeepsInsertionOrder
CHECK_DEADLOCK FALSE
