SPECIFICATION Spec
CONSTANTS
    BufferTokens = 2000
    BodyTokens = 7
    SynthMaxOutput = 10
    CustomToolNames <- MCCustomToolNames
    Names <- MCNames
    MaxOutputIndex = 4
    Routes <- ResponsesPassthrough
    MaxLines = 6
    MaxOdd = 3
    MaxBytes = 2
CHECK_DEADLOCK FALSE
INVARIANT FailedOnlyBeforeTerminal
