SPECIFICATION FairSpec
CONSTANTS
    Workers = {w1, w2}
    Operators = {o1}
    Plan <- ReminderPlan
    Delayed = {1}
    CountsReview = TRUE
    MaxAttempts = 3
    MaxClaims = 1
    MaxFaults = 1
    MaxDecisions = 1
    MaxEdits = 0
CHECK_DEADLOCK FALSE
PROPERTIES Settles
