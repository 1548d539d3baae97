CONSTANTS
  MaxThreads = 3
  Mutexes = {m1}
  MaxQuanta = 3
SPECIFICATION Spec
INVARIANTS
  TypeOK
  EveryThreadInItsQueue
  MutualExclusion
  HeldMutexIntact
  NoLostWakeup
  NobodyWaitsOnDestroyed
  NobodyWaitsOnTerminated
  JoinReturnsAfterExit
  ReadyQueueSorted
PROPERTY
  ImplementsThreadApi
