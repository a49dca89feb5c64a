CONSTANTS
  Nil = Nil
  Const = {Nil}
  NArgs = 1
  NRoots = 2
  Cap = 5
  OldPeriod = 3
  MaxNodes = 5
  Features = {"coll"}
SPECIFICATION FairSpec
PROPERTIES
  ImplementsTermStore
  CollectionEnds
