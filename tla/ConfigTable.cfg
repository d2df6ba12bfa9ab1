SPECIFICATION TableSpec
CONSTANTS
  Mem32Base = 3072
  Mem32Size = 1024
  MiscLeft = {}
  MemorySizes = {2048, 8192}
  Preferred = {16, 1024}
  Lengths = {1, 17, 1024}
  MaxExits = 1
  MaxFaults = 1
INVARIANTS
  WindowsAgree
  ApertureNotMemory
  TablesWhole
CHECK_DEADLOCK FALSE
