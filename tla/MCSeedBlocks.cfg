SPECIFICATION Spec
CONSTANTS
  Types = {"gfp"}
  Ms <- MCMs
  TReqs = {2, 4, 6}
  minweight_primpoly <- MCTable
  LastBlk = 3
INVARIANTS
  BlocksUseOwnSeed
