SPECIFICATION FairSpec
CONSTANTS
  Fast = 1
  Ring = 2
  TalkOn = 2
  TalkOff = 1
  Second = 2
  DateDelay = 3
  MaxLate = 2
  Room = 4
INVARIANTS SteadyLight OneChain ListFits CounterUndisturbed
PROPERTIES DateReturns BlinkGoesOn
CHECK_DEADLOCK FALSE
