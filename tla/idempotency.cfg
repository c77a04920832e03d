CONSTANTS
    Attempts = {a1, a2, a3}
    NoAttempt = NoAttempt
    Keys = {k1}
    NoKey = NoKey
    X = X
    EarlyCommit = FALSE
    MaxToggles = 1
    MaxFaults = 1
SPECIFICATION Spec
CHECK_DEADLOCK FALSE
SYMMETRY Threads
INVARIANTS TypeOK OneChangePerKey SuccessIsTheStoredOne ErrorsChangeNothing
