SPECIFICATION Spec
CONSTANTS
  Signature <- MCSig
  Spelling <- MCText
  Symbols <- MCSymbols
  Sorts <- MCSorts
  Programs <- MCPrograms
  InjReturn = "Exp"
  LengthBase = 8
  MaxSize = 16
  MaxName = 3
INVARIANT BinaryOutputIsTextOutput
CHECK_DEADLOCK FALSE
