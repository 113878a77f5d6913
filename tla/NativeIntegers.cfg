CONSTANTS
  W = 10
  Moduli <- SmallModuli
  Words <- EdgeWords
  Numbers <- EdgeNumbers
  Strings <- StringsToParse
  Exponents <- SmallExponents
  ExpModuli <- ExponentModuli
  Values <- AllValues
  Mods <- AllMods
  SignedMax = 63
SPECIFICATION AnySpec
INVARIANT TypesOK
INVARIANT LeavesResidue
INVARIANT ChecksHold
INVARIANT PlainExact
INVARIANT ReturnsInverse
INVARIANT NoOverflow
INVARIANT TrapsOnlyWithoutInverse
PROPERTY ImplementsRing
PROPERTY Terminates
CHECK_DEADLOCK FALSE
