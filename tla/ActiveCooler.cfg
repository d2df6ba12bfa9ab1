SPECIFICATION CoolerFairSpec
CONSTANTS
  RawReadings <- MCRawReadings
  PolicyVars <- MCPolicyVars
  NoVar = NoVar
  BmcLevels <- MCBmcLevels
INVARIANTS
  OverrideHolds
  AirflowForOs
PROPERTIES
  CoolsEnough
  NoChatter
  SettlesDown
CHECK_DEADLOCK FALSE
