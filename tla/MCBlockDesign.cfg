SPECIFICATION Spec
CONSTANTS
  MReqs <- MCMReqs
  TPris <- MCTPris
  S = 1000
  R = 2718
INVARIANTS
  TypeOK
  BlocksDivideOutput
  EveryBlockReached
  DivisionCompletes
