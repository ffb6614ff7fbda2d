\* Liveness with one base worker, so that a persistent job could starve the
\* others.
CONSTANTS
  Jobs = {j1, j2, p1}
  Persistent = {p1}
  Progress = {j1, p1}
  Chatty = {}
  NBase = 1
  NoJob = NoJob
SPECIFICATION FairSpec
PROPERTIES
  JobsFinish
  PersistentJobsStart
  DoneDelivered
