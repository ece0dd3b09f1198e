SPECIFICATION Spec
CONSTANTS
  IdMod = 16
  TotalRefs = 4
  MaxLen = 3
  MinInterval = 0
  MaxFactor = 1
  ReadTime = 1
INVARIANTS
  TriggerArmed
PROPERTIES
  AnswersInOrder
  Terminates
