CONSTANTS
  Used = {"young", "old", "always"}
  Hyper = 6
  MinSpace = 2
  OldPeriod = 2
  Slots <- MCSlots
  Requests = {2}
SPECIFICATION FairSpec
INVARIANTS
  SemispaceIdentified
  RequestWhenFull
  ArenaInv
PROPERTIES
  RequestsDieOut
