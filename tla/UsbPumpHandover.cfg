SPECIFICATION Spec
CONSTANTS
  Eps = {"nic"}
  MaxErrors = 2
  CooldownPolls = 2
  MaxTransfers = 2
  MaxFaults = 2
INVARIANT HandoverCoherent
CHECK_DEADLOCK FALSE
