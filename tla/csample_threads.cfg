SPECIFICATION SampleFairSpec
CONSTANTS
  Kinds = {"consumer", "server", "client", "starter", "producer"}
  MaxOpens = 3
INVARIANTS SubscribedWhileConnected NoCallbackAfterDestroy
PROPERTIES RefusedOnce StopsWhenAsked
CHECK_DEADLOCK FALSE
