CONSTANTS
  BLOCK_SIZE = 24
  Lengths = {1, 9}
  ReadLengths = {1, 9}
  MinRead = 0
  Room = 64
SPECIFICATION Spec
INVARIANTS
  ExtentsDisjoint
CHECK_DEADLOCK FALSE
