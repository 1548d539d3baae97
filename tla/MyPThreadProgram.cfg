CONSTANTS
  MaxThreads = 3
  m1 = m1
  Mutexes = {m1}
  MaxQuanta = 30
  MaxTicks = 4
  Programs <- MCPrograms
SPECIFICATION ProgramSpec
PROPERTIES
  ProgramTerminates
