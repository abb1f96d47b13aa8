SPECIFICATION Spec
CONSTANTS
  NUnits = 2
  Home <- TwoHomes
  Speed <- TwoSpeeds
  Box <- TwoBoxes
  Cell <- Cells
  Quarter = 3
  Reach = 2
  Points <- Clicks
  PixelSize = 2
  Deltas = {1, 2}
  SetBack <- BackOne
  MaxSetBacks = 1
  MaxMoves = 2
INVARIANTS TypeOK NeverPast PicksWhatItCovers PicksWhatIsDrawn
PROPERTIES StraightIsInTime LooksAhead MovesEnd
CHECK_DEADLOCK FALSE
