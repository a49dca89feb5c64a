CONSTANTS
  Nil = Nil
  Const = {Nil}
  NArgs = 1
  NRoots = 2
  Cap = 9
  OldPeriod = 3
  MaxNodes = 4
  Features = {"buf", "int"}
SPECIFICATION Spec
INVARIANTS
  GenerationalOrder
  NoDanglingPointer
PROPERTIES
  ImplementsTermStore
