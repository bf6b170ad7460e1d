SPECIFICATION FairSpec
CONSTANTS
    Msgs = {m1, m2}
    Bargains = {m1, m2}
    Orders = {o1}
    Workers = {w1, w2}
    Slots = 1
    MaxRounds = 1
    MaxTries = 2
    MaxPushes = 4
    Repeated = {m1, o1}
    MaxUpsets = 1
CHECK_DEADLOCK FALSE
INVARIANTS BrainAtMostOnce 
PROPERTIES ClaimedQuoteEnds HandlersEnd
