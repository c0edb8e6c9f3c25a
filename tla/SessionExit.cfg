SPECIFICATION SessionSpec
CONSTANTS
  Digits = {"#"}
  Hash = "#"
  MaxLen = 1
  Models = {"P1K"}
  FreedKept = TRUE
  WaitForDevice = TRUE
  MaxSignals = 1
PROPERTY GracefulExit
CHECK_DEADLOCK FALSE
