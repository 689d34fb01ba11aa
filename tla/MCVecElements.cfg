SPECIFICATION Spec
CONSTANTS
  a = a
  b = b
  Raw = Raw
  Value <- MCValue
  Others <- MCOthers
  Kinds = {TRUE, FALSE}
  OwnReferences = FALSE
  Wrap = 64
  MaxCapacity = 8
  MaxFaults = 2
INVARIANTS
  TypeOK
  PointersKeepOrder
  KeepsOrderUnlessTorn
  Lifetimes
  BlocksFreedEmpty
CHECK_DEADLOCK FALSE
