SPECIFICATION Spec
CONSTANTS
  Ks = {5000, 8500, 14000, 17500}
  MReqs = {0, 3, 9}
  Losses <- MCLosses
  Holds <- MCHolds
  SiTsts <- MCSiTsts
  Streaming = TRUE
  Ignore = FALSE
  S = 1000
  R = 2718
INVARIANTS
  TypeOK
  ExtractionCovered
  EntropyCheckRedundant
PROPERTIES
  SameCommandSameRound
