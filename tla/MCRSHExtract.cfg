SPECIFICATION Spec
CONSTANTS
  WordBits = 2
  CharBits = 2
  Ns = {2, 5, 6}
  Ls = {1, 2, 3, 4}
  Irrep <- MCIrrep
INVARIANTS
  TypeOK
  SegmentsCoverInput
  PolynomialValue
  InnerProductIfFull
