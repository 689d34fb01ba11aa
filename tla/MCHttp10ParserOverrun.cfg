SPECIFICATION Spec
CONSTANTS
  Octet <- MCOctet
  LowerCase <- MCLowerCase
  SizeMod = 128
  MaxString = 63
  Wires <- OverrunWires
  MaxFaults <- NoFaults
  Enabled <- MCEnabled
INVARIANTS
  FeedThrowsInvalidArgument
CHECK_DEADLOCK FALSE
