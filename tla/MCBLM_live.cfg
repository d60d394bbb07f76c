SPECIFICATION FairSpec
CONSTANTS
  Threshold = 32
  CacheSize = 64
  CacheDeficit = 47
  MaxPending = 1
  CountMod = 128
  DmaInit = 96
  RingInit = 64
  RingCap = 143
  NullRecycle = {}
  NbiBatch = {32}
  AppBatch = {}
  TmBacklog = 64
  Early = 32
PROPERTIES DmaNotStarved LockObtained ImplementsPool
