CONSTANTS
  SeqNumbers <- MCSeqNumbers
  WaitQueueCap = 2
  SentQueueCap = 3
  PositiveWinWidth = 2
  UInt16 = 65536
  FarmBBound = 2
SPECIFICATION Spec
INVARIANTS
  TypeOK
  AcceptedInOrder
  WaitOnlyWhenFull
CHECK_DEADLOCK FALSE
