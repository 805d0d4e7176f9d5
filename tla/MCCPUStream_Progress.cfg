SPECIFICATION Spec
CONSTANTS
  Stream = {s1, s2}
  Event = {e1}
  ListSizes = {1}
  Limit = 1
  WaitUnsignalled = FALSE
  MaxTasks = 3
PROPERTY
  EverythingEnds
