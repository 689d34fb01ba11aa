SPECIFICATION Spec
CONSTANTS
  Default = Default
  a = a
  b = b
  x = x
  y = y
  Options <- MCOptions
  Value <- MCValue
  Nexts <- MCNexts
  MaxFaults = 2
INVARIANTS
  TypeOK
  HoldsUnlessTorn
  ObserversAgree
CHECK_DEADLOCK FALSE
