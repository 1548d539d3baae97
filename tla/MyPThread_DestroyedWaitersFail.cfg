CONSTANTS
  MaxThreads = 3
  Mutexes = {m1}
  MaxQuanta = 3
SPECIFICATION Spec
PROPERTY
  DestroyedWaitersFail
