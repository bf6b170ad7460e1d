SPECIFICATION FairChat
CONSTANTS
    Last = 2
    Systems = {2}
    Sends = {s1}
    Pages = {p1}
    MaxActs = 2
CHECK_DEADLOCK FALSE
 
PROPERTIES  SendsSettle
