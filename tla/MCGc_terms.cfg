CONSTANTS
  Nil = Nil
  Const = {Nil}
  NArgs = 1
  NRoots = 1
  Cap = 3
  OldPeriod = 2
  MaxNodes = 3
  Features = {"sym", "str"}
SPECIFICATION Spec
INVARIANTS
  SharingPreserved
  IInv
PROPERTIES
  YoungScanIsFinal
