SPECIFICATION FairSpec
CONSTANTS
  v1 = v1
  v2 = v2
  Vehicles = {v1, v2}
  Fleets <- MCFleets
  Maps = {"c", "dotnet", "ts", "python"}
  Positions <- MCPositions
  MaxSends = 2
  MaxLosses = 1
INVARIANTS ReportsAreTrue BufferHolds
PROPERTIES NeverBack PositionsArrive
CHECK_DEADLOCK FALSE
