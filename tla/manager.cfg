SPECIFICATION Spec
CONSTANTS
  Slots = 3
  Period = 2
  MinDelay = 2
  MaxDelay = 5
  Timeout = 12
INVARIANTS
  SlotsMatch
  NeverFull
  AnswersInTime
PROPERTIES
  ImplementsCalls
