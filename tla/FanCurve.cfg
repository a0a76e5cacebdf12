SPECIFICATION FairSpec
CONSTANTS
  Threads = {t1, t2}
  NoOwner = NoOwner
  MAXFANCURVESIZE = 2
  Requests <- MCRequests
  Loads <- MCLoads
  Methods = {"EC", "WMI3", "N2CN"}
  MaxCalls = 3
  MaxLoads = 1
INVARIANTS TypeOK StoreIsExact CacheAgrees
PROPERTIES LockRespected EveryHandlerReturns CurveStoreImplemented
CHECK_DEADLOCK FALSE
