SPECIFICATION FairSpec
CONSTANTS
  Configs = {c1, c2, c3}
  MaxTs = 3
  FactoryTs = 0
  OutsideTs = {2}
  MaxFaults = 2
  NoFile = NoFile
  None = None
INVARIANTS
  TimestampVouches
  CleanHandover
PROPERTIES
  EepromMovesForward
  StagedTakesEffect
  AlwaysBoots
