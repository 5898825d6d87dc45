CONSTANTS
  MemorySize = 9
  MaxPackets = 5
  Lengths = {1, 2, 3, 10}
SPECIFICATION Spec
INVARIANT
  GivenBackIsFree
CHECK_DEADLOCK FALSE
