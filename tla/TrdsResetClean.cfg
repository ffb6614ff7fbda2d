\* A reset of waiting workers, and the start after it.
CONSTANTS
  Jobs = {j1}
  Progress = {}
  NBase = 2
  MaxThreads = 4
  MaxResets = 1
  NoJob = NoJob
  Null = Null
SPECIFICATION IdleSpec
PROPERTIES
  CleanRestart
CHECK_DEADLOCK FALSE
