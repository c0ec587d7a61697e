SPECIFICATION HostRunSpec
CONSTANTS
    Epoch = {"E1"}
    NotBefore <- AlwaysFrom
    NotAfter <- AlwaysTo
    FirstEpochs = {"E1"}
    Peers = {"worker"}
    Verdict = {"ok"}
    RefreshLife = 1
    GraceLife = 1
    LicenseEnd = 0
    Skew = 0
    Threshold = 1
    Lags = {0}
    Ops = {"activate", "validate"}
    Suspends = FALSE
    MaxNow = 3
    MaxLog = 0
    MaxSeat = 1
    MaxRestart = 1
    HThread = {t1, t2}
    HAddr = {1, 2}
    HMaxHandle = 2
    HApp = {a1, a2}
    HMaxAttach = 2
    HMaxClock = 3
    HWindow = 2
    HMaxRequests = 2
    HMaxBytes = 2
    HMaxCalls = 5
    HMaxMount = 2
    Focus = {"client", "ffi", "ipc", "view"}
CHECK_DEADLOCK FALSE
INVARIANTS NoFalseTamper BuffersStay ClientsLiveForTheirCalls IpcGuarded ViewsRelease
PROPERTIES Recovers
