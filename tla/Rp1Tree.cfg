SPECIFICATION Spec
CONSTANT MaxFailures = 3
CHECK_DEADLOCK FALSE
INVARIANTS
  AllOrNothing
  DmaOnOwnMemory
  BusUnderDevice
