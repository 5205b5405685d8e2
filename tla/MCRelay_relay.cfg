SPECIFICATION FairSpec
CONSTANTS
    BufferTokens = 2000
    BodyTokens = 7
    SynthMaxOutput = 10
    CustomToolNames <- MCCustomToolNames
    Names <- MCNames
    MaxOutputIndex = 4
    Routes <- AllRoutes
    MaxLines = 6
    MaxOdd = 3
    MaxBytes = 2
INVARIANTS ResponsesEndOnce ItemsAreWhole ArgumentsReachTheirCall StreamAgreesWithJson WholeOrBadGateway
PROPERTIES UsageIsReported ForcedEnds
CHECK_DEADLOCK FALSE
