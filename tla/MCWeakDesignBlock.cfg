SPECIFICATION Spec
CONSTANTS
  Requests <- MCRequests
  Teams = {1, 2}
  SiTests = {0, 5}
  S = 1000
  R = 5437
INVARIANTS
  TypeOK
  TableMatchesBlocks
  RowsByTable
