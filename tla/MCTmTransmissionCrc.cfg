CONSTANTS
  MemorySize = 12
  MaxPackets = 4
  Lengths = {3, 4, 5}
  Vcs = {v1, v2}
  Blocking = {v1}
  ErrorControl = {v1}
  PacketLengths = {0, 1, 3}
  FieldLengths = {2}
  TargetLengths = {4, 6}
  HeaderSize = 1
  TrailerSize = 2
  FrameSize = 6
  PacketBufferCap = 3
  AfterVcCap = 2
  AfterMcCap = 1
  MasterCap = 3
  CountMod = 3
SPECIFICATION TmSpec
INVARIANT
  CrcStaysInFrame
CHECK_DEADLOCK FALSE
