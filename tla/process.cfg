SPECIFICATION FairSpec
CONSTANTS
    Turns = {"t1"}
    Admins = {"a1"}
    Accounts = {"x1"}
    MaxGateways = 2
    MaxBrainFaults = 1
    Slots = 1
    MaxRefetches = 1
    Fallback = TRUE
    MaxActs = 2
    Mixed = FALSE
INVARIANTS OneGateway BackendHasOwner CleanExit
PROPERTIES ShutdownEnds
CHECK_DEADLOCK FALSE
