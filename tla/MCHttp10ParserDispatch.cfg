SPECIFICATION Spec
CONSTANTS
  Octet <- MCOctet
  LowerCase <- MCLowerCase
  SizeMod = 128
  MaxString = 63
  Wires <- FaultWires
  MaxFaults <- NoFaults
  Enabled <- MCEnabled
INVARIANTS
  ParseHttpRequestReturns
CHECK_DEADLOCK FALSE
