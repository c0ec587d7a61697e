SPECIFICATION ServicesSpec
CONSTANTS
  Focus = {"request", "relay", "forget", "batch", "archive", "alert", "gate", "session", "approve", "publish", "upload", "grant", "retry"}
  Attempt = {1, 2, 3}
  IssueKey = {1, 2, 3}
  RelayKeys = {2}
  BatchKeys = {3}
  Rotations = 1
  Expiries = 1
  SignIn = {1, 2}
  MaxPairs = 3
  MaxAttempts = 3
  AccountTime = 3
  MAX_FAILED_ATTEMPTS = 1
  FAILURE_WINDOW = 2
  ATTEMPT_RETENTION = 3
  ACCESS_TTL = 1
  REFRESH_TTL = 3
  MaxDevices = 1
  EpochHandler = {1, 2}
  Actor = {"a", "b"}
  EpochIds = {1, 2, 3}
  Uploaded = {1, 2}
  ApprovalWindow = 1
  EpochTime = 1
  MaxSeq = 2
  ZRelease = {1, 2, 3}
  ZFeature = {"f1", "f2"}
  ZMaxChange = 2
  ZMaxFloor = 1
  ZMaxRequest = 2
CHECK_DEADLOCK FALSE
INVARIANTS  IssuanceAudited SessionsBounded ApprovalsHold GrantsWarranted
