SPECIFICATION QueueFairSpec
CONSTANTS
  A = A
  B = B
  event = event
  Streams = {A, B}
  Events = {event}
  Signals <- MCSignals
  MaxAllocators = 1
  Workloads <- MCWorkloads
CHECK_DEADLOCK FALSE
PROPERTY
  EventSyncReturns
