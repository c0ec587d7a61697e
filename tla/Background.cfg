SPECIFICATION BackgroundSpec
CONSTANTS
    m1 = m1  m2 = m2  m3 = m3
    b1 = b1  b2 = b2  b3 = b3
    f1 = f1  f2 = f2
    a1 = a1  a2 = a2  a3 = a3  e1 = e1
    Machine = {m1}
    NoMachine = NoMachine
    Body = {b1}
    NoBody = NoBody
    Fingerprint = {f1, f2}
    FpOf <- MCFpOf
    Key = {q1}
    Nonce = {n1}
    DeactKey = {}
    AdminOp = {}
    ForgetOp = {}
    NoOp = NoOp
    AdminReq <- MCAdminReq
    ForgetTarget <- MCForgetTarget
    SeatCount = {2}
    HeartbeatSec = {0, 1}
    Expiry <- MCExpirySoon
    Epoch = {}
    Floor = {0}
    PendingTtl = 1
    NonceTtl = 2
    IdemTtl = 2
    Retention = 2
    BatchSize = 2
    MaxFlush = 1
    MaxTime = 4
    Backlog = 0
    c1 = c1  c2 = c2  k1 = k1
    Op = {1, 2}
    NoOperation = 0
    HasEffect = {1}
    Rejected = {}
    Client = {c1}
    Cron = {k1}
    MaxFail = 2
INVARIANTS AlarmCovers MirrorFollowsChain
PROPERTIES DueHappens TrailSpec JournalSettles
