SPECIFICATION FairSpec
CONSTANTS
  Clients = {c1, c2}
  MaxCalls = 2
  MaxDup = 0
  Lossy = TRUE
  ServerKinds = {"dotnet", "c", "python"}
  CallbackMayThrow = TRUE
  PublishMayFail = TRUE
  AllocMayFail = TRUE
  PoolSize = 2
  CallerRetries = TRUE
  CallsOf <- OneBusy
INVARIANTS MixUpNeedsTheRace LostOnlyBeforeInstall
PROPERTY ImplementsCall
CHECK_DEADLOCK FALSE
