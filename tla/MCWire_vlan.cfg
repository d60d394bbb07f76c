SPECIFICATION Spec
CONSTANTS
  MS_MAX_OFF = 128
  UIntMod = 1048576
  Threads = {t1, t2}
  Bufs = {b1, b2}
  Frames <- MCFrames
  MaxPackets = 3
INVARIANT VlansExchanged
CHECK_DEADLOCK FALSE
