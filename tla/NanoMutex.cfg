SPECIFICATION FairMutexSpec
CONSTANTS
  Tasks <- MCTasks
  Null = Null
  Idle = idle
  idle = idle
  t1 = t1
  t2 = t2
  t3 = t3
  MaxPriority = 4
  MaxTasks = 8
  BootTasks = {t1, t2, t3}
  InitPriority <- Steps
  Objects = {m1}
  Creators = {}
  Sleepers = {t1}
  Suspends <- Nobody
  Resumes <- Nobody
  Deletes <- Nobody
  Retunes <- Nobody
  StopsBlocked = FALSE
  MaxDelay = 1
  m1 = m1
  m2 = m2
  Locks <- AllLock
  Timed = {}
  CountValues = 256
  MaxDepth = 2
  MaxHeld = 1
INVARIANTS MutualExclusion OwnerKnows PriorityInherited BoostUndone
PROPERTIES TopWaiterServed
