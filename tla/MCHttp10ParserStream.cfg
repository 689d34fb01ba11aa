SPECIFICATION Spec
CONSTANTS
  Octet <- MCOctet
  LowerCase <- MCLowerCase
  SizeMod = 128
  MaxString = 63
  Wires <- MCWires
  MaxFaults <- TwoFaults
  Enabled <- MCEnabled
INVARIANTS
  TypeOK
  PacketBoundariesIgnored
  EncodeRoundTrip
  BodyIsAsDeclared
  BufferIsUnparsedTail
  NothingLeftBehind
  Ownership
  FifoDelivery
  VersionsAgree
PROPERTIES
  ErrorIsSticky
  HandedOverIsCallers
  FeedReturns
  ArrivedIsQueued
  ImplementsContract
CHECK_DEADLOCK FALSE
