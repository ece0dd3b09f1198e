SPECIFICATION Spec
CONSTANTS
  IdMod = 3
  Calls = {{"p_enqueue"}, {"enqueue", "p_enqueue"}}
  MaxNodes = 3
  MaxEntries = 4
  MaxTime = 2
INVARIANTS
  NothingLost
  Sorted
  LittlesLaw
  StatsBracket
PROPERTIES
  ImplementsIdQueue
