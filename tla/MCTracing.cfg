CONSTANTS
    Signature <- MCSignature
    Rules <- MCRules
    NameOrder <- MCNameOrder
    HashOrder <- MCHashOrder
    Names <- MCNames
    WordBytes = 2
    HalfBytes = 1
    Options <- MCOptions
    Inputs <- MCInputs
SPECIFICATION Spec
INVARIANTS
    TraceRecovered
    CutTraceIsPrefix
    CallbacksDeliverEvents
    TraceReplays
    ChunksHoldTheirSteps
CHECK_DEADLOCK FALSE
