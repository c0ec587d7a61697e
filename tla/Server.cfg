SPECIFICATION ServerSpec
CONSTANTS
  RecordMachine = {m1}
  Patch = {p1, p2}
  Erasure = {e1}
  MaxProj = 3
  Hook <- AllHooks
  MaxTime = 3
  MaxHook = 3
  Periods = {1, 2}
  Month = 1
  Dunning = 1
  Review = 1
  AfterMonths = 2
  Projecting = FALSE
  Handler = {h1, h2}
  ReqKey = {1, 2, 3}
  Feature = {f1, f2}
  Build = {b1, b2}
  Focus = {"patch", "erase", "billing", "fallback", "catalog", "releases", "keys"}
CHECK_DEADLOCK FALSE
INVARIANTS RecordFaithful SubscriptionHonoured RegistryConsistent
