SPECIFICATION Spec
CONSTANTS
    Flows = {"login", "edit", "enable", "disable", "delete", "renew", "late", "check", "order"}
    MaxInst = 3
    MaxStamp = 4
    MaxActs = 2
    MaxTries = 2
    MaxFaults = 1
INVARIANTS OneLiveInstance NoSessionBehindDisable
PROPERTIES  DisabledGoesQuiet
CHECK_DEADLOCK FALSE
