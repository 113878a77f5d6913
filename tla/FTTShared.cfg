CONSTANTS
  a = a
  b = b
  c = c
  NoThread = NoThread
  Threads = {a, b, c}
  Moduli <- MCModuli
  CallsOf <- SharedCalls
SPECIFICATION Spec
INVARIANT TablesAgree
INVARIANT ComputesWithOwnRoot
