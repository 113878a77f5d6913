CONSTANTS
  a = a
  b = b
  c = c
  NoThread = NoThread
  Threads = {a, b}
  Moduli <- MCModuli
  CallsOf <- DisjointCalls
SPECIFICATION Spec
INVARIANT TypeOK
PROPERTY ImplementsService
