SPECIFICATION Spec
CONSTANTS
  NObjects = 4
  Units <- BothUnits
  Mine <- OwnOnes
  UIs = {"SDL", "ncurses", "dummy"}
  Limit = 2
  Scenario <- FirstOne
  MaxGestures = 3
INVARIANTS TypeOK OrdersApart JobsApart
PROPERTIES ImplementsCommander
CHECK_DEADLOCK FALSE
