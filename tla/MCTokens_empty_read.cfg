CONSTANTS
  BLOCK_SIZE = 24
  Lengths = {1, 9}
  ReadLengths = {0, 9}
  MinRead = 0
  Room = 64
SPECIFICATION Spec
INVARIANTS
  LastAllocationResized
CHECK_DEADLOCK FALSE
