CONSTANTS
  Modulus = 3
  WaitQueueCap = 1
  SentQueueCap = 2
  UnprocessedCap = 1
  OutCap = 2
  Slots = {f1, f2}
  Services = {"AD", "BD"}
  Limits = {2}
  Widths = {2}
  Numbers = {2}
SYMMETRY SlotSymmetry
SPECIFICATION Spec
INVARIANTS
  TypeOK
  SentNumberedUpToVs
  AckedFromFront
PROPERTIES
  RetransmitsWithinLimit
  StartsEmpty
  WaitSendsNothing
CHECK_DEADLOCK FALSE
