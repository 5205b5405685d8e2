SPECIFICATION Spec
CONSTANTS
    Requests = {"r1", "r2"}
    RouteIds = {"main", "other"}
    Configs <- ReloadConfigs
    MaxGeneration = 3
    MaxTurns = 4
INVARIANTS PlansAreFair
PROPERTIES LateRequestKeepsRotation
CHECK_DEADLOCK FALSE
