CONSTANTS
  a = a
  b = b
  c = c
  NoThread = NoThread
  Threads = {a}
  Moduli <- MCModuli
  CallsOf <- TwoRootCalls
SPECIFICATION Spec
INVARIANT PrecomputedRootIsUsed
