SPECIFICATION Spec
CONSTANTS
  Proto = {"Zergling", "Worker", "Center"}
  Races = {"Zerg", "Juche", "Neutral"}
  Players = {"neutral", "p1"}
  Neutral = "neutral"
  Attr <- MCAttr
  Scenario <- Chase
  Deltas = {1}
  StaleAges <- AnyAges
  Points = {6}
  PixelSize = 1
  BuildTime = 2
  MaxOrders = 1
  MaxJobs = 1
PROPERTIES FrameShrinks FrameEnds OrdersEnd JobsEnd ImplementsRoster
