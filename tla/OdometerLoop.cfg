SPECIFICATION Spec
CONSTANTS
  MaxN = 3
  MaxK = 4
INVARIANTS
  TypeOK
  NoneRepeated
  NoneSkipped
  AllPermutations
