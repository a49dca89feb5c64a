CONSTANTS
  v1 = v1
  v2 = v2
  None = None
  Keys <- MCKeys
  Vals = {v1, v2}
  OperandRanges <- MCOperandRanges
SPECIFICATION Spec
INVARIANTS
  BalancedTree
  Coalesced
  RangeUpdates
  SearchesComplete
  TwoMapHooks
