SPECIFICATION FairIntake
CONSTANTS
    Events = {e1}
    Keyed = e1
    Own = s1
    Chats = {c1}
    Controls = {"kickout", "remove"}
    Buffer = 1
    Slots = 1
    MaxFaults = 1
    Schedulers = {s1, s2}
    MaxClaims = 2
    MaxDefers = 1
    MaxCrashes = 1
    MaxRevivals = 1
CHECK_DEADLOCK FALSE
INVARIANTS EventsAreKept
PROPERTIES OnlyHolderFinishes EventsSettle DeadLineIsLeft
