----------------------------- MODULE MCLicenseDO -----------------------------
EXTENDS LicenseDO, TLC

CONSTANTS m1, m2, m3, b1, b2, b3, f1, f2, a1, a2, a3, e1

\* b1 and b2 come from the same device
MCFpOf == [b \in Body |-> IF b = b3 THEN f2 ELSE f1]

MCAdminReq ==
    [o \in AdminOp |->
       CASE o = a1 -> [version |-> 2, seats |-> 1, status |-> "active",
                       heartbeat |-> 0, expires |-> NoTime]
         [] o = a2 -> [version |-> 1, seats |-> 2, status |-> "suspended",
                       heartbeat |-> 1, expires |-> NoTime]
         [] o = a3 -> [version |-> 3, seats |-> 2, status |-> "active",
                       heartbeat |-> 0, expires |-> 3]]

MCForgetTarget == [o \in ForgetOp |-> m1]

MCExpiry == {NoTime}
MCExpirySoon == {2, NoTime}
==============================================================================
