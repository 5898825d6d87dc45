CONSTANTS
  Modulus = 3
  WaitQueueCap = 1
  SentQueueCap = 2
  UnprocessedCap = 1
  OutCap = 2
  Slots = {f1, f2}
  Services = {"AD"}
  Limits = {2}
  Widths = {1}
  Numbers = {2}
SYMMETRY SlotSymmetry
SPECIFICATION Spec
PROPERTY
  WithinWindow
CHECK_DEADLOCK FALSE
