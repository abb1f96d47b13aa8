SPECIFICATION Spec
CONSTANTS
  Proto = {"Center", "Worker"}
  Races = {"Juche"}
  Players = {"neutral", "p1"}
  Neutral = "neutral"
  Attr <- MCAttr
  Scenario <- Base
  Deltas = {1, 2}
  StaleAges = {0}
  Points = {0, 5}
  PixelSize = 3
  BuildTime = 2
  MaxOrders = 1
  MaxJobs = 2
PROPERTY NoCreationWhileIterating
