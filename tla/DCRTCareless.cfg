CONSTANTS
  a = a
  b = b
  Objects = {a, b}
  Q <- OneModulus
  P <- Extension
  Careful = FALSE
SPECIFICATION Spec
CONSTRAINT BasesAgree
PROPERTY BasesPartByHand
SYMMETRY Symmetry
CHECK_DEADLOCK FALSE
