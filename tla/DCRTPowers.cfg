CONSTANTS
  a = a
  b = b
  Objects = {a}
  Q <- TwoModuli
  P <- Extension
  Careful = FALSE
SPECIFICATION PowersSpec
INVARIANT PowersOfBaseReturns
