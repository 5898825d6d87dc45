CONSTANTS
  SeqNumbers <- MCSeqNumbers
  WaitQueueCap = 1
  SentQueueCap = 2
  PositiveWinWidth = 2
  UInt16 = 65536
  FarmBBound = 2
  MapIds = {m1, m2}
  MasterCopyCap = 3
  InFramesCap = 1
  AfterVcCap = 1
  NoClcw = NoClcw
SPECIFICATION RxFairSpec
PROPERTY
  StoredFrameLeaves
CHECK_DEADLOCK FALSE
