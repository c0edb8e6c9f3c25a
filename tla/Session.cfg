SPECIFICATION FairSession
CONSTANTS
  Digits = {"#"}
  Hash = "#"
  MaxLen = 1
  Models = {"P1K"}
  FreedKept = TRUE
  WaitForDevice = TRUE
  MaxSignals = 1
INVARIANTS EndsOnlyWhenGone DarkBetweenSessions CoreLeftAlone RightInEverySession
PROPERTIES UnpluggedEnds PluggedServed
CHECK_DEADLOCK FALSE
