SPECIFICATION Spec
CONSTANTS
  NUnits = 2
  Home <- TwoHomes
  Speed <- TwoSpeeds
  Box <- TwoBoxes
  Cell <- Cells
  Quarter = 3
  Reach = 2
  Points <- Clicks
  PixelSize = 2
  Deltas = {1, 2}
  SetBack <- BackOne
  MaxSetBacks = 0
  MaxMoves = 3
PROPERTIES SpeedLimit
CHECK_DEADLOCK FALSE
