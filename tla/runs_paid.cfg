SPECIFICATION Spec
CONSTANTS
    Workers = {w1, w2}
    Operators = {o1, o2}
    Plan <- PaidPlan
    Delayed = {}
    CountsReview = FALSE
    MaxAttempts = 3
    MaxClaims = 5
    MaxFaults = 1
    MaxDecisions = 2
    MaxEdits = 1
SYMMETRY WorkerSymmetry
CHECK_DEADLOCK FALSE
INVARIANTS AtMostOnce 
PROPERTIES  OutcomeIsFinal ProofIsWhatWasSent
