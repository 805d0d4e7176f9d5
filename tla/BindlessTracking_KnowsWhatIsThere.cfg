SPECIFICATION BindlessSpec
CONSTANTS
  Place = {p1, p2}
  Resource = {A, B}
  NoResource = NoResource
  MaxCalls = 6
CHECK_DEADLOCK FALSE
INVARIANT KnowsWhatIsThere
