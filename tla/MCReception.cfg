CONSTANTS
  SeqNumbers <- MCSeqNumbers
  WaitQueueCap = 1
  SentQueueCap = 2
  PositiveWinWidth = 2
  UInt16 = 65536
  FarmBBound = 2
  MapIds = {m1, m2}
  MasterCopyCap = 3
  InFramesCap = 1
  AfterVcCap = 1
  NoClcw = NoClcw
  Vcs = {v1, v2}
  ErrorControl = {v1}
  Buffers = {b1, b2, b3, b4, b5}
  RxMasterCap = 4
  AfterMcCap = 3
  MaxFrames = 5
SPECIFICATION MCSpec
INVARIANTS
  FlagsAgree
  RxTypeOK
  ClcwCurrent
  MasterCopiesAccounted
  VcChannelNeverThrows
  TmRxTypeOK
  RxCopiesAccounted
  PacketsInOrder
  ClcwsOfKeptFrames
PROPERTIES
  WaitQueueDrains
  AcceptsOnlyWhenReportedOpen
CHECK_DEADLOCK FALSE
