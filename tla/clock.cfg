SPECIFICATION Spec
CONSTANTS
  Second = 2
  Period <- Periods
  Work = {0, 1}
  Sleep = {1}
  Longest = 2
  SetBack = 2
  Duration = 2
  BuildTime = 1
  PlayTime = 2
  MaxAge = 13
  MaxSetBacks = 1
  MaxToasts = 2
  MaxJobs = 1
INVARIANTS TypeOK ScreenIsFresh
PROPERTIES ToastStays JobOnTime ToastsVanish JobsGetDone DummyEnds
CHECK_DEADLOCK FALSE
