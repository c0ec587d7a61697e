CONSTANTS
  BRefresh = 1
  BGrace = 1
  BEnd = 0
  BMaxTime = 2
  BMaxEpoch = 2
  BMaxRev = 1
  BMaxSeat = 2
  BMaxReload = 1
  BMaxQueue = 3
  TMachine = {1, 2}
  TFeature = {"f1", "f2"}
  TWhitelist = {"f1", "f2"}
  TClientCap <- MCCap
  TServerCap <- MCCap
  TBlockFeatures = 1
  TWindow = 1
  TDay = 2
  TMaxUse = 2
  AVersion <- MCVersion
  ACountry <- MCCountry
  ACatalog = {"f1"}
  AHash <- MCHash
  AMaxClips = 4
  AKMin = 2
  ARollupCap = 2
  AMaxRequests = 2
  AMaxRolls = 2
  SPayload = {"a", "b"}
  SMaxMark = 1
  SMaxSave = 3
  SMaxFault = 2
  SMaxCrash = 1
  SMaxWipe = 1
INIT WebInit
NEXT WebNext
CHECK_DEADLOCK FALSE
INVARIANTS WipedStaysWiped FiguresExact StoreKeeps
