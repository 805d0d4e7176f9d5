SPECIFICATION AccelSpec
CONSTANTS
  Mesh = {m1, m2}
  Transform = {t0, t1}
  Unset = Unset
  Undefined = Undefined
  InstanceSize = 80
  MaxInstances = 2
  MaxEdits = 5
  MaxMoves = 1
PROPERTY
  DXShowsTheVisible
