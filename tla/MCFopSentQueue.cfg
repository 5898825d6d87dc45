CONSTANTS
  Modulus = 3
  WaitQueueCap = 1
  SentQueueCap = 2
  UnprocessedCap = 1
  OutCap = 2
  Slots = {f1, f2}
  Services = {"AD"}
  Limits = {2}
  Widths = {2}
  Numbers = {2}
SYMMETRY SlotSymmetry
SPECIFICATION Spec
INVARIANT
  SentFramesLive
CHECK_DEADLOCK FALSE
