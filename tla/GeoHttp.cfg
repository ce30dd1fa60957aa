\* Two workers, one reading an area while the other saves, or both saving, over an
\* index of one entry or none; two saves, one other request, a change of the
\* master and its event, one restart.
SPECIFICATION GeoSpec
CONSTANTS
  Workers = {w1, w2}
  Ids = {1, 2}
  Points <- MCPoints
  Areas <- MCAreas
  MaxSaves = 2
  MaxOthers = 1
  MaxStored = 1
  MaxRoles = 1
  MaxStarts = 1
  Bits = 5
  ByteBits = 5
  Grain = 2
  FloatStep = 2
  SumStep = 3
  HalfLat = 12
  HalfLng = 24
  Infinity = 110
  Undefined = {0, 31}
INVARIANTS
  GeoTypeOK
  OkMeansStored
  AreaComplete
  AreaSound
  CheckpointedSurvives
SYMMETRY Symmetry
CHECK_DEADLOCK FALSE
