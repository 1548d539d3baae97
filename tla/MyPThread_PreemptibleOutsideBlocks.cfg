CONSTANTS
  MaxThreads = 3
  Mutexes = {m1}
  MaxQuanta = 2
SPECIFICATION Spec
INVARIANT
  PreemptibleOutsideBlocks
