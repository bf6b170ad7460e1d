SPECIFICATION FairSpec
CONSTANTS
    NRows = 2
    MaxActs = 2
    MaxFaults = 1
CHECK_DEADLOCK FALSE
INVARIANTS PublishedOnce OneOwner
PROPERTIES Closes
