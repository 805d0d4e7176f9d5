SPECIFICATION ThreadsSpec
CONSTANTS
  Worker = {w1, w2}
  Host = {main}
  SyncHost = {main}
  Sizes = {1, 3}
  CountSize = 8
  MaxOps = 3
  Thread = {t1, t2, t3}
  PhaseSize = 8
  MaxRounds = 3
INVARIANTS
  ThreadsTypeOK
  TaskCountExact
PROPERTIES
  ImplementsExecutor
  CalledOnce
  SynchronizeCovers
  EverythingEnds
  ImplementsLockstep
  EveryoneLeaves
