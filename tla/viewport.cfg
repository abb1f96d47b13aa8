SPECIFICATION Spec
CONSTANTS
  View = 5
  Border = 6
  KeyStep = 2
  Margin = 2
  Rate = 1
  PixelSize = 2
  Spots = {0, 2, 4}
  Deltas = {1, 3}
  SetBack <- BackOne
  MaxSetBacks = 1
  MaxEvents = 2
  Far = 12
INVARIANTS TypeOK ShowsTheMap ClicksWhereItLooks MarkNearTheMap
PROPERTY EdgeIsReached
