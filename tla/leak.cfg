SPECIFICATION Spec
CONSTANTS
  Proto = {"Zergling", "Worker", "Mineral"}
  Races = {"Zerg", "Juche", "Neutral"}
  Players = {"neutral", "p1", "p2"}
  Neutral = "neutral"
  Attr <- MCAttr
  Scenario <- Skirmish
  Deltas = {1}
  StaleAges = {0}
  Points = {0, 2, 4}
  PixelSize = 1
  BuildTime = 2
  MaxOrders = 2
  MaxJobs = 0
INVARIANTS AllFreed
