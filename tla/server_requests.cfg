SPECIFICATION SystemFairSpec
CONSTANTS
  Clients = {c1, c2}
  MaxCalls = 1
  MaxDup = 2
  Lossy = FALSE
  ServerKinds = {"dotnet", "ts", "c", "python"}
  RequestForms <- AnyForms
  CallbackMayThrow = TRUE
  PublishMayFail = TRUE
  AllocMayFail = TRUE
  PoolSize = 2
INVARIANTS SystemTypeOK SuccessBacked StatusTellsOutcome
PROPERTY EveryRequestAnswered
CHECK_DEADLOCK FALSE
