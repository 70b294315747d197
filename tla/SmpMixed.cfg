SPECIFICATION Spec
CONSTANTS
  c0 = c0
  c1 = c1
  i0 = i0
  i1 = i1
  t1 = t1
  t2 = t2
  t3 = t3
  None = None
  Tasks <- MCTasks
  Cores <- MCCores
  Idle <- MCIdle
  BSP = c0
  MaxPriority = 3
  Affinity <- MixedAffinity
  Priority <- StepPriority
  Sleepers = {t1, t3}
  Suspenders = {t3}
  Leavers = {}
  Resumes <- T2Resumes
  MaxTicks = 2
INVARIANTS TypeOK TaskOnOneCore ReadyExactlyQueued SleepersAccounted StoppedTaskStops
PROPERTIES DispatchesBest SharesCpus
