SPECIFICATION AppFairSpec
CONSTANTS
  Programs = {"tsProducer", "tsConsumer", "tsStarter", "go", "rust", "dotnet", "jwt"}
  MaxLosses = 2
  Period = 2
  Lifetime = 6
  Delay = 1
  MaxTime = 12
INVARIANTS SuccessIsMeant TokenOutlivesSession
PROPERTIES EndsWhenAsked LossEndsSample
CHECK_DEADLOCK FALSE
