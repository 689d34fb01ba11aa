SPECIFICATION Spec
CONSTANTS
  Octet <- MCOctet
  LowerCase <- MCLowerCase
  SizeMod = 128
  MaxString = 63
  Wires <- WrapWires
  MaxFaults <- NoFaults
  Enabled <- MCEnabled
INVARIANTS
  BodyIsAsDeclared
CHECK_DEADLOCK FALSE
