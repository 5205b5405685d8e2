SPECIFICATION Spec
CONSTANTS
    r1 = r1
    r2 = r2
    Requests = {r1, r2}
    RouteIds = {"main"}
    Keys <- SwapKeys
    Configs <- SwapConfigs
    MaxGeneration = 3
INVARIANTS PinsMatchRequests CoolingEgressNotPlanned
PROPERTIES NeverEvictsNewerTransport CooldownOnlyRunsDown
SYMMETRY Symmetry
