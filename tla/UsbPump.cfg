SPECIFICATION Spec
CONSTANTS
  Eps = {"nic", "modem"}
  MaxErrors = 2
  CooldownPolls = 2
  MaxTransfers = 2
  MaxFaults = 3
INVARIANTS
  DeliveredInOrder
  NothingLost
PROPERTY
  ComesBack
CHECK_DEADLOCK FALSE
