SPECIFICATION FairSpec
CONSTANTS
  Speeds = {10, 1000}
  Addrs = {a1, a2}
  Zero = Zero
  AppCalls = {"initialize", "shutdown", "start", "stop", "status"}
  CbCalls = {"status", "filters", "station", "reset", "transmit"}
  MaxFaults = 1
INVARIANTS
  SpeedMatches
  Programmed
PROPERTIES
  LinkSettles
