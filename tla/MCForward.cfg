CONSTANTS
  MS_MAX_OFF = 128
  UIntMod = 1048576
  Lengths = {0, 1, 111, 112, 113, 240, 1500, 1904, 16383}
  BufSizes = {64, 128}
  HeaderLengths = {0, 4, 5, 15}
  Omitted = {"SHIM6"}
  Byte = 7
  Protocol <- MCProtocol
  Packets <- MCPackets
  ChunkBytes = 8
  MaxBytes = 4
  Threads = {t1, t2}
  Bufs = {b1, b2}
  Frames <- MCFrames
  MaxPackets = 3
SPECIFICATION MCSpec
INVARIANTS
  TypeOK
  OneOwner
  SentAsReceived
  ScriptAlwaysSound
  DataAlwaysSplit
  NoOverread
  HeadersApart
  ChecksumRight
  CorrectionRight
PROPERTIES EveryPacketDeparts WalkEnds
CHECK_DEADLOCK FALSE
