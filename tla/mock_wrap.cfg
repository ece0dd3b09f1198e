SPECIFICATION Spec
CONSTANTS
  IdMod = 7
  TotalRefs = 4
  MaxLen = 3
  MinInterval = 1
  MaxFactor = 5
  ReadTime = 1
INVARIANTS
  TypeOK
  BlockAccounting
  LosesAtMostOne
