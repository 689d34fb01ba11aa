SPECIFICATION Spec
CONSTANTS
  Octet <- MCOctet
  LowerCase <- MCLowerCase
  Name <- MCName
  Value <- MCValue
  Hash <- MCHash
  Others <- MCOthers
  InitialBucketCount = 2
  MaxLoadPercent = 70
  MaxNodes = 5
  MaxFaults = 1
INVARIANTS
  TypeOK
  ListIntact
  ListKeepsOrder
  GetFindsUnlessDamaged
CHECK_DEADLOCK FALSE
