SPECIFICATION ExecSpec
CONSTANTS
    r1 = r1
    r2 = r2
    r3 = r3
    a = a
    b = b
    NoEgress = NoEgress
    Requests = {r1, r2, r3}
    Egresses = {a}
    Keys = {a}
    MaxRows = 0
    Outcomes <- MCOutcomes
    Policies <- MixedPolicies
INVARIANTS CapIsUpperBound

