SPECIFICATION Spec
CONSTANTS
  Pools <- MCPools
  Lengths = {1, 8, 9, 17}
  Totals = {1, 5, 8, 9, 13, 16, 17}
  W = 8
  C = 4
INVARIANTS
  TypeOK
  PoolAccounted
  LoadedInOrder
  AnswersAreSeedBits
