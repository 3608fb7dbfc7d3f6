SPECIFICATION FairSpec
CONSTANTS
  Clients = {c1, c2}
  MaxCalls = 2
  MaxDup = 1
  Lossy = FALSE
  ServerKinds = {"dotnet","ts","c","python"}
  CallbackMayThrow = TRUE
  PublishMayFail = TRUE
  AllocMayFail = TRUE
  PoolSize = 2
INVARIANTS TypeOK OwnResponse
PROPERTIES ImplementsCall DeafInvokerStops
CHECK_DEADLOCK FALSE
