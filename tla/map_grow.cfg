SPECIFICATION Spec
CONSTANTS
  Keys = {8, 16, 24, 32, 40}
  Values = {1, 2}
  InitSize = 3
  Num = 17
  Den = 20
  MaxSize = 6
INVARIANTS
  CountsAgree
  LoadBound
  Findable
PROPERTIES
  ImplementsMap
