SPECIFICATION Spec
CONSTANTS
  Types = {"gfp", "gf2x"}
  Ms <- MCMs
  TReqs = {2, 4, 6}
  minweight_primpoly <- MCTable
  LastBlk = 3
INVARIANTS
  TypeOK
  OneSubtractionSuffices
  IndicesByColumn
  SmallOverlap
  WeakDesign
  UniformUse
  SeedSuffices
