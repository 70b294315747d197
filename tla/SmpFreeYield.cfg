SPECIFICATION Spec
CONSTANTS
  c0 = c0
  c1 = c1
  i0 = i0
  i1 = i1
  t1 = t1
  t2 = t2
  t3 = t3
  None = None
  Tasks <- MCTasks
  Cores <- MCCores
  Idle <- MCIdle
  BSP = c0
  MaxPriority = 3
  Affinity <- FreeAffinity
  Priority <- EqualPriority
  Sleepers = {}
  Suspenders = {}
  Leavers = {}
  Resumes <- Nobody
  MaxTicks = 1
INVARIANTS StackExclusive
