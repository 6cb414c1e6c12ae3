\* Threads may exit at any work item, none at an update; work has two priorities.
CONSTANTS
  t1 = t1
  t2 = t2
  j1 = j1
  j2 = j2
  j3 = j3
  NULL = NULL
  Threads = {t1, t2}
  Work = {j1, j2}
  Priorities <- HighLow
  FnResults <- ReplyOrError
  UpdateResults <- ReplyOnly
  MaxGeneration = 2
SPECIFICATION PriorityFairSpec
PROPERTY EveryEntryIsFreed
PROPERTY StartedIsAnswered
INVARIANT TypeOK
INVARIANT EntryOwnership
INVARIANT NoLostWakeup
INVARIANT NoLostAlert
INVARIANT UpdateArgOwnership
INVARIANT WorkSeesUpdates
PROPERTY ImplementsJobPool
