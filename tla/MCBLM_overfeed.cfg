SPECIFICATION Spec
CONSTANTS
  Threshold = 32
  CacheSize = 64
  CacheDeficit = 47
  MaxPending = 1
  CountMod = 128
  DmaInit = 64
  RingInit = 48
  RingCap = 95
  NullRecycle = {}
  NbiBatch = {32}
  AppBatch = {}
  TmBacklog = 96
  Early = 32
PROPERTY DirectRecycleServesPending
