SPECIFICATION FairRefresh
CONSTANTS
    MaxFaults = 3
CHECK_DEADLOCK FALSE
INVARIANTS OneLiveWorker ClosedIsQuiet
PROPERTIES JobsEnd
