SPECIFICATION LiveSpec
CONSTANTS
  MaxMessages = 3
  CommandsFail = TRUE
  StopsFail = FALSE
  LinkBreaks = FALSE
CHECK_DEADLOCK FALSE
PROPERTIES
  StopTakesEffect
