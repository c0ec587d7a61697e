SPECIFICATION Spec
CONSTANTS
    Epoch = {"E1"}
    NotBefore <- AlwaysFrom
    NotAfter <- AlwaysTo
    FirstEpochs = {"E1"}
    Peers = {"worker"}
    Verdict = {"ok"}
    RefreshLife = 1
    GraceLife = 1
    LicenseEnd = 0
    Skew = 0
    Threshold = 1
    Lags = {0}
    Ops = {"activate", "validate"}
    Suspends = FALSE
    MaxNow = 2
    MaxLog = 2
    MaxSeat = 1
    MaxRestart = 0
CHECK_DEADLOCK FALSE
INVARIANT NoFalseTamper
