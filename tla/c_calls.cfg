SPECIFICATION FairSpec
CONSTANTS
  Clients = {c1, c2}
  MaxCalls = 2
  MaxDup = 0
  Lossy = TRUE
  ServerKinds = {"c"}
  CallbackMayThrow = FALSE
  PublishMayFail = FALSE
  AllocMayFail = FALSE
  PoolSize = 2
  CommandTimeout = 2
  MinRate = 0
  CallsOf <- OneBusy
INVARIANTS TypeOK AnswersAreOwn OvertakingNeedsTheRace
PROPERTY PendingEnds
CHECK_DEADLOCK FALSE
