SPECIFICATION MCSpec
CONSTANTS
  Threshold = 32
  CacheSize = 64
  CacheDeficit = 47
  MaxPending = 1
  CountMod = 128
  DmaInit = 64
  RingInit = 48
  RingCap = 95
  NullRecycle = {"ingress", "egress"}
  NbiBatch = {32}
  AppBatch = {16}
  TmBacklog = 96
  Early = 32
INVARIANTS TypeOK CacheNeverOverflows DmaLedger TmLedger BuffersConserved
  RingNeverOverflows DmaNeverOverfed
PROPERTY LockedCacheStable
