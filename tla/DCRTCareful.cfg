CONSTANTS
  a = a
  b = b
  Objects = {a, b}
  Q <- TwoModuli
  P <- Extension
  Careful = TRUE
SPECIFICATION Spec
INVARIANT TypeOK
INVARIANT Coherent
PROPERTY ValuesKept
SYMMETRY Symmetry
