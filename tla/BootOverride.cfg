SPECIFICATION FairSpec
CONSTANTS
  MaxRequests = 3
  MaxFaults = 2
INVARIANTS
  OnceAtMostOnce
  TakenIsLaunched
PROPERTIES
  NoResetUnderLoader
  AlwaysBoots
