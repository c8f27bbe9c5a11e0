SPECIFICATION Spec
CONSTANTS
  ItemCount = 4
  Restored = {3, 4}
  NonZero = {3}
  One <- MCOne
  Bits <- MCBits
  Magic <- MCMagic
  Value <- MCValue
  Default <- MCDefault
  Mistyped = 0
  None = None
  EraseMayFail = FALSE
  CalibBits <- MCBits
  Given <- MCGiven
INVARIANTS
  Recovered
  NeverMixed
  RoomForAll
  CalibrationTrue
