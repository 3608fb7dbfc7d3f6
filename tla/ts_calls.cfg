SPECIFICATION FairSpec
CONSTANTS
  Clients = {c1, c2}
  MaxCalls = 2
  MaxDup = 0
  Lossy = TRUE
  ServerKinds = {"ts", "c", "python"}
  CallbackMayThrow = TRUE
  PublishMayFail = FALSE
  AllocMayFail = TRUE
  PoolSize = 2
  CallsOf <- OneBusy
INVARIANTS MixUpHasACause FirstTimeoutIsReal
PROPERTY ImplementsCall
CHECK_DEADLOCK FALSE
