\* Every pair of coordinates of four bits.
SPECIFICATION WalkSpec
CONSTANTS
  Bits = 4
  ByteBits = 2
  Grain = 1
  FloatStep = 1
  SumStep = 1
  HalfLat = 7
  HalfLng = 7
  Infinity = 40
  Undefined = {0}
INVARIANT
  KeyRecovers
PROPERTY
  KeysAscend
CHECK_DEADLOCK FALSE
