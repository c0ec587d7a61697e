INIT LicenseInit
NEXT LicenseNext
CONSTANTS
    m1 = m1  m2 = m2  m3 = m3
    b1 = b1  b2 = b2  b3 = b3
    f1 = f1  f2 = f2
    k1 = k1  k2 = k2
    a1 = a1  a2 = a2  a3 = a3  e1 = e1
    Machine = {m1, m2, m3}
    NoMachine = NoMachine
    Body = {b1, b3}
    NoBody = NoBody
    Fingerprint = {f1, f2}
    FpOf <- MCFpOf
    Key = {k1, k2}
    Nonce = {n1}
    DeactKey = {d1}
    AdminOp = {a1, a2}
    ForgetOp = {o1}
    NoOp = NoOp
    AdminReq <- MCAdminReq
    ForgetTarget <- MCForgetTarget
    SeatCount = {2}
    HeartbeatSec = {0}
    Expiry <- MCExpiry
    Epoch = {1}
    Floor = {1}
    PendingTtl = 1
    NonceTtl = 1
    IdemTtl = 2
    Retention = 2
    BatchSize = 2
    MaxFlush = 1
    MaxTime = 2
    Backlog = 0
INVARIANTS OneSeatPerDevice ProjectionFaithful
PROPERTIES SeatGrant KeyKeepsItsMachine DeadStaysDead
