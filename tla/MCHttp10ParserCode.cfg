SPECIFICATION Spec
CONSTANTS
  Octet <- MCOctet
  LowerCase <- MCLowerCase
  SizeMod = 128
  MaxString = 63
  Wires <- MCWires
  MaxFaults <- MCFaults
INVARIANTS
  TypeOK
  ScanAgrees
  BlockFollowsPeak
PROPERTIES
  FeedEnds
  FeedGetsOn
  ImplementsParser
CHECK_DEADLOCK FALSE
