CONSTANTS
    Attempts = {a1, a2}
    NoAttempt = NoAttempt
    Keys = {k1}
    NoKey = NoKey
    X = X
    EarlyCommit = TRUE
    MaxToggles = 1
    MaxFaults = 2
SPECIFICATION FairSpec
CHECK_DEADLOCK FALSE
INVARIANTS SuccessIsTheStoredOne
PROPERTIES EveryRequestEnds
