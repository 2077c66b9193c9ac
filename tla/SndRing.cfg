SPECIFICATION Spec
CONSTANTS
  FrameCount = 4
  Rates = {2, 3}
  BATCH_SIZE = 2
  MaxTries = 2
  SAMPLES = 3
  CallbackFrames = {2, 4}
  MaxBatch = 3
  MaxFrames = 7
INVARIANTS
  TypeOK
  NoPitchDrift
  FillKeepsChannel
PROPERTIES
  ImplementsFifo
  BatchReturns
