SPECIFICATION FairSpec
CONSTANTS
  TxCount = 3
  CounterMod = 6
  Buffers = {b1, b2, b3, b4}
  Frames = {f1, f2}
  NoBuffer = NoBuffer
  NoFrame = NoFrame
INVARIANTS
  CustodyExact
PROPERTIES
  NoBounceOverwrite
  BufferComesBack
  ImplementsFifo
