\* Three jobs, one of them persistent, one base worker, so that they may be too few.
CONSTANTS
  Jobs = {j1, j2, p1}
  Persistent = {p1}
  Progress = {j1}
  Chatty = {j1}
  NBase = 1
  NoJob = NoJob
SPECIFICATION Spec
INVARIANTS
  TypeOK
  UniqueJob
  JobKept
  WorkThenFinish
  NoLostWakeup
  OrdinaryWorkers
  MessageOrder
  DoneReported
  QueueInv
PROPERTIES
  RefinesPool
