SPECIFICATION FairSpec
CONSTANTS
  RxCount = 3
  Frames = {f1, f2}
  NoFrame = NoFrame
INVARIANTS
  NoTornCopy
PROPERTIES
  HeadMovesOn
  ImplementsFifo
