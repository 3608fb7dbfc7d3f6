SPECIFICATION FairSpec
CONSTANTS
  Kinds = {"consumer", "producer", "starter", "receiver", "invoker"}
  MaxOpens = 3
INVARIANTS RefusalIsRaised RunsSubscribed StarterWasSubscribed
PROPERTY WaitsEnd
CHECK_DEADLOCK FALSE
