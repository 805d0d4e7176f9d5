SPECIFICATION Spec
CONSTANTS
  Stream = {s1, s2}
  Event = {e1}
  ListSizes = {2}
  Limit = 2
  WaitUnsignalled = TRUE
  MaxTasks = 4
INVARIANTS
  TypeOK
  WaitOrdersStreams
PROPERTY
  EventCoversCommands
