CONSTANTS
  Bits8 = 2
  Bits16 = 4
  Depths = {2, 3, 5}
  One = 105
  Sizes <- MCSizes
  Samples <- MCSamples
  Colors = {35}
  MaxDraws = 1
  NoImage = NoImage
  Unset = Unset
SPECIFICATION Spec
INVARIANTS TypeOK Faithful EightBitExact TurnsCompose
