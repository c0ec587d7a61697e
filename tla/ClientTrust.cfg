INIT TrustInit
NEXT TrustNext
CONSTANTS
    Epoch = {"E1", "E2", "E3"}
    NotBefore <- AlwaysFrom
    NotAfter <- ThirdShort
    FirstEpochs = {"E1"}
    Peers = {"worker", "tests"}
    Verdict = {"ok", "denied"}
    RefreshLife = 1
    GraceLife = 1
    LicenseEnd = 4
    Skew = 1
    Threshold = 1
    Lags = {0, 1}
    Ops = {"activate", "deactivate"}
    Suspends = TRUE
    MaxNow = 4
    MaxLog = 1
    MaxSeat = 2
    MaxRestart = 1
CHECK_DEADLOCK FALSE
INVARIANTS NoOrphanSecrets TrustFollowsCursor KeysInTime
