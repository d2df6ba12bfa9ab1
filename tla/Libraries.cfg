SPECIFICATION LibSpec
CONSTANTS
  Bytes = 8
  ByteBits = 1
  Present <- MCPresent
  Absent <- MCAbsent
  Contents <- MCContents
  MaxCalls = 3
  Loose = 10000
  NewConfigCap = 6
  Erase = 2
  PartitionA = 10
  PartitionB = 36
  PartitionEnd = 54
  MaxFile = 6
  MaxSections = 12
INVARIANTS
  WindowInvisible
  ConfigTexts
  ImageEdits
  PinsApart
CHECK_DEADLOCK FALSE
