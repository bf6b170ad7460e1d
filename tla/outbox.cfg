SPECIFICATION FairOutbox
CONSTANTS
    Processes = {p1, p2}
    Channels = {c1}
    Keyed = {k1}
    Unkeyed = {u1}
    MaxAttempts = 2
    MaxReports = 2
    MaxActs = 1
    MaxFaults = 1
CHECK_DEADLOCK FALSE
INVARIANTS DuplicatesAreFew
PROPERTIES UncertainStays LiveLeaseIsRespected Resolves
