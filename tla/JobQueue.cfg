SPECIFICATION FairSpec
CONSTANTS
  Items = {i1, i2}
  Works = {plan, file}
  FileWorks = {file}
  JobIds = {j1, j2}
  NoJob = NoJob
  NoItem = NoItem
  NoWork = NoWork
INVARIANTS OpenOnce NoOrphans
PROPERTIES FailsOnlyWhenHealthy JobsSettle ImplementsWorkQueue
