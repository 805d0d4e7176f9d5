SPECIFICATION Spec
CONSTANTS
  Stream = {A}
  Event = {e}
  Backed = 3
  MaxItems = 5
  MaxLists = 2
CHECK_DEADLOCK FALSE
INVARIANTS
  TypeOK
  ListsInOrder
  StagingOutlivesCopy
PROPERTIES
  SynchronizeCovers
  StagingRecycled
