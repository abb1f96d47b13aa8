SPECIFICATION Spec
CONSTANTS
  NObjects = 4
  Units <- BothUnits
  Mine <- OwnOnes
  UIs = {"SDL", "ncurses", "dummy"}
  Limit = 2
  Scenario <- FirstOne
  MaxGestures = 4
INVARIANTS ToastIsForMe
CHECK_DEADLOCK FALSE
