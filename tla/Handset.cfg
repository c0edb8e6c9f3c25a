SPECIFICATION Spec
CONSTANTS
  Digits = {"#"}
  Hash = "#"
  MaxLen = 2
  Models = {"P1K", "P4K"}
  FreedKept = FALSE
INVARIANTS TypeOK ShownIsDialled LedShowsRegistration LongKeyIsHeld RingingEnds
PROPERTY LastNumberShown
CHECK_DEADLOCK FALSE
