SPECIFICATION MCSpec
CONSTANTS
  Threads = {t1, t2}
  InitPkts = 3
  InitBufs = 2
  Bulk = {1, 2}
  Replenish = TRUE
  PeFails = TRUE
  Callers = {t1, t2}
  Octets = {0, 4}
  PortMasks <- MCPortMasks
  Growth = {3, 5}
  Word = 4
  High = 2
  NWords = 6
  SegWords = 2
  NPorts = 4
  MaxOctets = 8
  MaxFrames = 1
  MaxCalls = 2
  NBlqs = 2
  BdsramSize = 6
  Unit = 2
  Regions <- MCRegions
  Settings <- MCSettings
SYMMETRY Symmetry
INVARIANTS TypeOK CreditsConserved
  StatsConserved LowOctetsKept DropsConserved ProgramConserved
  ListsWellFilled
CHECK_DEADLOCK FALSE
