CONSTANTS
    l1 = l1  m1 = m1  e1 = e1  r1 = r1  r2 = r2
    Request = {r1, r2}
    NoReq = NoReq
    License = {l1}  Machine = {m1}  Epoch = {}
    TargetOf <- MCMachineLicense
    LicenseOf <- MCLicenseOf
    Drifting = {l1}
    Purgeable = {}
    Client = {c1}
    Cron = {k1}
    MaxFail = 1
    MaxForeign = 0
SPECIFICATION CronSpec
PROPERTIES RevocationsFinish
CHECK_DEADLOCK FALSE
