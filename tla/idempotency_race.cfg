CONSTANTS
    Attempts = {a1, a2}
    NoAttempt = NoAttempt
    Keys = {k1}
    NoKey = NoKey
    X = X
    EarlyCommit = FALSE
    MaxToggles = 0
    MaxFaults = 0
SPECIFICATION Spec
CHECK_DEADLOCK FALSE
SYMMETRY Threads
PROPERTIES RepetitionsAgree
