CONSTANTS
  a = a
  b = b
  c = c
  NoThread = NoThread
  Threads = {a}
  Moduli <- MCModuli
  CallsOf <- TrivialCalls
SPECIFICATION Spec
INVARIANT TrivialRootIsHarmless
