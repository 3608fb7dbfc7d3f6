SPECIFICATION Spec
CONSTANTS
  Clients = {c1, c2}
  MaxCalls = 1
  MaxDup = 0
  Lossy = FALSE
  ServerKinds = {"ts"}
  CallbackMayThrow = FALSE
  PublishMayFail = FALSE
  AllocMayFail = FALSE
  PoolSize = 2
  CallsOf <- OneBusy
INVARIANT OwnResponse
CHECK_DEADLOCK FALSE
