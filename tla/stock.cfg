SPECIFICATION FairSpec
CONSTANTS
    Initial <- TwoLines
    Fresh <- OneUpload
    Sellers = {s1, s2}
    Appenders = {a1}
    Editors = {e1}
    MaxTries = 2
    MaxOrders = 3
    MaxCrashes = 1
CHECK_DEADLOCK FALSE
INVARIANTS OnePlace
PROPERTIES OrdersEnd
