CONSTANTS
  BLOCK_SIZE = 24
  Lengths = {0, 1, 8, 9, 15, 16, 17, 24, 25}
  ReadLengths = {0, 1, 9, 16, 17}
  MinRead = 1
  Room = 64
SPECIFICATION Spec
INVARIANTS
  HeaderTellsSpace
  ExtentsDisjoint
CHECK_DEADLOCK FALSE
