SPECIFICATION MCSpec
CONSTANTS
  Threads = {t1, t2}
  InitPkts = 3
  InitBufs = 2
  Bulk = {1, 2}
  Replenish = TRUE
  PeFails = TRUE
  Callers = {t1, t2}
  Octets = {0, 4}
  PortMasks <- MCPortMasks
  Growth = {5}
  Word = 4
  High = 2
  NWords = 6
  SegWords = 2
  NPorts = 4
  MaxOctets = 5
  MaxFrames = 0
  MaxCalls = 1
  NBlqs = 2
  BdsramSize = 6
  Unit = 2
  Regions <- MCRegions
  Settings <- MCSettings
INVARIANT OctetsConserved
CHECK_DEADLOCK FALSE
