SPECIFICATION FairExecSpec
CONSTANTS
    r1 = r1
    r2 = r2
    r3 = r3
    a = a
    b = b
    NoEgress = NoEgress
    Requests = {r1, r2}
    Egresses = {a, b}
    Keys = {a, b}
    MaxRows = 1
    Outcomes <- MCOutcomes
    Policies <- WalkPolicies
INVARIANTS AtMostOneTransmission TriesAllItMay
INVARIANTS EvidenceTellsWhatHappened SlotsBalanced
PROPERTIES AdmissionRespectsCap DeliversAtMostOnce EveryRequestAnswered
ACTION_CONSTRAINT ContendsForA
