SPECIFICATION Spec
CONSTANTS
  IdMod = 16
  TotalRefs = 4
  MaxLen = 3
  MinInterval = 1
  MaxFactor = 2
  ReadTime = 2
INVARIANTS
  NoCrash
  DiskAccounting
  ClientDispatcherAgree
  AnswersInOneRead
PROPERTIES
  NearsEnd
  AnswersComplete
  ImplementsService
