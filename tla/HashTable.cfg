SPECIFICATION Spec
CONSTANTS
  Keys = {"a", "b", "c"}
  Codes = {0, 1, 2, 6}
  InitSizes = {1, 2}
  MaxAdds = 6
INVARIANTS
  TypeOK
  LoadBounded
  UsedExact
  CopiesAdjacent
PROPERTIES
  ImplementsStringIds
CHECK_DEADLOCK FALSE
