CONSTANTS
  MemorySize = 4
  MaxPackets = 3
  Lengths = {1, 2, 3}
  Vcs = {v1, v2}
  Blocking = {v1}
  ErrorControl = {}
  PacketLengths = {0, 2}
  FieldLengths = {1, 2}
  TargetLengths = {2, 3}
  HeaderSize = 1
  TrailerSize = 0
  FrameSize = 3
  PacketBufferCap = 2
  AfterVcCap = 2
  AfterMcCap = 1
  MasterCap = 3
  CountMod = 2
  Services = {"AD"}
  TcPacketLengths = {0, 2, 3}
  TcFieldLengths = {1, 2}
  MaxPacketLength = 2
  TcOverhead = 1
  TcPacketBufferCap = 4
  TcLengthsCap = 2
  TcMasterCap = 2
  UnprocessedCap = 2
  TcBlocking = TRUE
  LengthHigh = 2
  UInt8 = 3
  UInt16 = 65536
SPECIFICATION MCSpec
INVARIANTS
  TypeOK
  BlocksDisjoint
  FirstFit
  OnlyLastBlockLost
  TmTypeOK
  FramesPlaced
  MemoryOwned
  CountsConsecutive
  SegmentsComplete
  OctetsMatchLengths
  TcTypeOK
  FramesOwnOctets
  QueuesInStep
PROPERTY
  FullListDrains
CHECK_DEADLOCK FALSE
