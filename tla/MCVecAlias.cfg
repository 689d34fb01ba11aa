SPECIFICATION Spec
CONSTANTS
  a = a
  b = b
  Raw = Raw
  Value <- MCValue
  Others <- MCOthers
  Kinds = {TRUE}
  OwnReferences = TRUE
  Wrap = 64
  MaxCapacity = 6
  MaxFaults = 0
INVARIANTS
  KeepsInsertionOrder
CHECK_DEADLOCK FALSE
