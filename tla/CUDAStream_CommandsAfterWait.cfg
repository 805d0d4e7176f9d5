SPECIFICATION Spec
CONSTANTS
  Stream = {A, B}
  Event = {e}
  Backed = 3
  MaxItems = 4
  MaxLists = 2
CHECK_DEADLOCK FALSE
INVARIANT CommandsAfterWait
