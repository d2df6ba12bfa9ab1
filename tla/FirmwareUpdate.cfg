SPECIFICATION Spec
CONSTANTS
  Boards <- MCBoards
  Volumes = 2
  Versions = {"v1", "v2"}
  MaxDumps = 2
  MaxFaults = 1
INVARIANTS
  CardIsWhole
  ResetMeansPress
PROPERTY
  PressActs
