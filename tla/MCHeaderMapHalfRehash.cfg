SPECIFICATION Spec
CONSTANTS
  Octet <- MCOctet
  LowerCase <- MCLowerCase
  Name <- MCName
  Value <- MCValue
  Hash <- MCHash
  Others <- MCOthers
  InitialBucketCount = 2
  MaxLoadPercent = 70
  MaxNodes = 5
  MaxFaults = 1
INVARIANTS
  GetFindsStored
CHECK_DEADLOCK FALSE
