CONSTANTS
  W = 13
  N = 8
  Params <- Seventeen
  Inputs <- Vectors
  Rings <- ThreeOrders
  Patterns <- Mixed
  t1 = t1
  t2 = t2
  t3 = t3
  NoThread = NoThread
  Threads <- AllThreads
  CallsOf <- AnyCalls
  Warm <- TwoRings
SPECIFICATION AnySpec
INVARIANT TypesOK
INVARIANT StagesExact
INVARIANT TransformsExact
INVARIANT CallsReturn
INVARIANT ArbExact
INVARIANT LookupsHit
INVARIANT ColdCallsHit
PROPERTY Terminates
CHECK_DEADLOCK FALSE
