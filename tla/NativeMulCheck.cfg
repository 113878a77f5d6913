CONSTANTS
  W = 10
  Moduli <- SmallModuli
  Words <- EdgeWords
  Numbers <- EdgeNumbers
  Strings <- StringsToParse
  Exponents <- SmallExponents
  ExpModuli <- ExponentModuli
  Values <- AllValues
  Mods <- AllMods
  SignedMax = 63
SPECIFICATION MulCheckSpec
INVARIANT ProductsChecked
CHECK_DEADLOCK FALSE
