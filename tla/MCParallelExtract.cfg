SPECIFICATION Spec
CONSTANTS
  M = 3
  A = 2
  Mi <- MCMi
  BaseMi <- MCBaseMi
  MReq = 4
  TReq = 2
  W = 2
  Threads = {t1, t2}
  Streaming = TRUE
INVARIANTS
  TypeOK
  OutputIsReference
  NoStrayBit
  DistinctTargets
PROPERTIES
  RoundsFinish
  ImplementsExtractOnce
