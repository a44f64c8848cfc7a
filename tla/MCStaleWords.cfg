SPECIFICATION Spec
CONSTANTS
  WordBits = 2
  CharBits = 2
  Ns = {6}
  Ls = {3}
  Irrep <- MCIrrep
INVARIANTS
  BitIsInnerProduct
