SPECIFICATION Spec
CONSTANTS
  Pools <- MCPools
  Lengths = {9}
  Totals = {8, 9}
  W = 8
  C = 4
INVARIANTS
  EverySeedBitRead
