SPECIFICATION Spec
CONSTANTS
  Octet <- MCOctet
  LowerCase <- MCLowerCase
  SizeMod = 128
  MaxString = 63
  Wires <- NamelessWires
  MaxFaults <- NoFaults
  Enabled <- MCEnabled
INVARIANTS
  HeadersHaveNames
CHECK_DEADLOCK FALSE
