CONSTANTS
    l1 = l1  m1 = m1  e1 = e1  r1 = r1  r2 = r2
    Request = {r1, r2}
    NoReq = NoReq
    License = {l1}  Machine = {m1}  Epoch = {}
    TargetOf <- MCMachineLicense
    LicenseOf <- MCLicenseOf
    Drifting = {}
    Purgeable = {}
    Client = {c1}
    Cron = {k1}
    MaxFail = 1
    MaxForeign = 0
    AShard = {0, 1}
    AMaxAdmin = 3
    AMaxIssued = 2
    AMaxMail = 2
    AMaxHarm = 1
    GMachine = {1, 2, 3}
    GMaxSeen = 2
    GMaxEvent = 3
    GLimit = 1
    YWalk <- Stretches
    Focus = {"revoke", "archive", "issued", "listing", "calendar"}
SPECIFICATION AuditSpec
CHECK_DEADLOCK FALSE
INVARIANTS ArchiveFaithful VerifyIsExact PagedOnce DatesExact RecoverySound
PROPERTIES RevocationsFinish
