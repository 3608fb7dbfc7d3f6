SPECIFICATION FairSpec
CONSTANTS
  Vehicles = {v1, v2}
  MaxAlerts = 2
  MaxRuns = 2
INVARIANTS FirstRunMissesNothing
PROPERTIES HandledBeforeForgotten AlertsArriveWhileConnected
CHECK_DEADLOCK FALSE
