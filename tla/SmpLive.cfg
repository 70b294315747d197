SPECIFICATION FairSpec
CONSTANTS
  c0 = c0
  c1 = c1
  i0 = i0
  i1 = i1
  t1 = t1
  t2 = t2
  t3 = t3
  None = None
  Tasks <- FewTasks
  Cores <- MCCores
  Idle <- MCIdle
  BSP = c0
  MaxPriority = 3
  Affinity <- FewAffinity
  Priority <- FewPriority
  Sleepers = {t1}
  Suspenders = {}
  Leavers = {t1}
  Resumes <- FewNobody
  MaxTicks = 1
PROPERTIES TopTaskRuns SleeperWakes
