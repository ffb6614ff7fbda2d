\* One reset; the threads of the first use and those of the second.
CONSTANTS
  Jobs = {j1, j2}
  Progress = {j1}
  NBase = 2
  MaxThreads = 4
  MaxResets = 1
  NoJob = NoJob
  Null = Null
SPECIFICATION Spec
INVARIANTS
  TypeOK
  SoundBeforeReset
  RefCountsInside
  QuietReset
CHECK_DEADLOCK FALSE
