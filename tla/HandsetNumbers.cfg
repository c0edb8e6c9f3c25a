SPECIFICATION Spec
CONSTANTS
  Digits = {"#"}
  Hash = "#"
  MaxLen = 2
  Models = {"P1K", "P4K"}
  FreedKept = TRUE
PROPERTY UsesShownNumber
CHECK_DEADLOCK FALSE
