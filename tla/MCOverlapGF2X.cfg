SPECIFICATION Spec
CONSTANTS
  Types = {"gf2x"}
  Ms = {17}
  TReqs = {4}
  minweight_primpoly <- MCTable
  LastBlk = 0
INVARIANTS
  OverlapAsReported
