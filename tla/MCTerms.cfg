SPECIFICATION Spec
CONSTANTS
  Signature <- MCSig
  Spelling <- MCText
  Symbols <- MCSymbols
  Sorts <- MCSorts
  Programs <- MCPrograms
  InjReturn = "Exp"
  LengthBase = 8
  MaxSize = 18
  MaxName = 3
INVARIANTS  SubstitutionAvoidsCapture PrintedScopes BinaryRoundTrip DirectReading  
CHECK_DEADLOCK FALSE
