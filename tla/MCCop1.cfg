CONSTANTS
  Modulus = 4
  FopWaitCap = 1
  FopSentCap = 2
  UnprocessedCap = 1
  OutCap = 2
  Slots = {f1, f2, f3}
  Limits = {0, 1, 2}
  Widths = {1}
  FarmSentCap = 2
  PositiveWinWidth = 2
  RxCap = 2
  MaxFrames = 3
  MaxInterventions = 1
SYMMETRY SlotSymmetry
SPECIFICATION MCSpec
INVARIANT
  NumbersAgree
PROPERTY
  ImplementsDelivery
CHECK_DEADLOCK FALSE
