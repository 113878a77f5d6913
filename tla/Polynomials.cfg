CONSTANTS
  W = 11
  N = 2
  MaxBits = 5
  Precision = 512
  Params <- FivePlus
  Operands <- SomeOperands
  Assigned <- SomeAssigned
  Lists <- SomeLists
  Scalars <- SomeScalars
  Indices <- SomeIndices
  Lengths <- SomeLengths
  Q <- BasisQ
  P <- BasisP
  B <- BasisB
  msk = 19
  mtilde = 8
  gamma = 16
  Plain = {2, 3, 16}
  Doubles = {6, 7, 8, 10}
  Exactness = 4
  Deviations = {1, 10}
  Products <- AnyProduct
SPECIFICATION AnySpec
INVARIANT TypesOK
INVARIANT QueriesTruthful
INVARIANT ValuesAtMostModulus
PROPERTY ImplementsRing
PROPERTY FourImplementRing
PROPERTY CentresKept
PROPERTY BasesKeepNumber
PROPERTY RoundingsLand
