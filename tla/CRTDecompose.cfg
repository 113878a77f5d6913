CONSTANTS
  a = a
  b = b
  c = c
  NoThread = NoThread
  Threads = {a, b, c}
  Moduli <- ThreeModuli
  CallsOf <- TowerCalls
  TowerOf <- ThreeTowers
  RootOf <- Roots
  Order = 8
  DigitCounts = {0, 2}
SPECIFICATION DSpec
INVARIANT DigitsRunWarm
INVARIANT AnswersRight
INVARIANT NoRebuildInUse
PROPERTY WarmStaysWarm
PROPERTY DecompositionReturns
CHECK_DEADLOCK FALSE
