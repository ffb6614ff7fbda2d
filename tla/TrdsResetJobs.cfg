\* A job added after the reset is never worked on.
CONSTANTS
  Jobs = {j1, j2}
  Progress = {}
  NBase = 1
  MaxThreads = 2
  MaxResets = 1
  NoJob = NoJob
  Null = Null
SPECIFICATION FairSpec
PROPERTIES
  JobsRunAfterReset
CHECK_DEADLOCK FALSE
