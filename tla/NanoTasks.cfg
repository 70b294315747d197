SPECIFICATION KernelSpec
CONSTANTS
  Tasks <- MCTasks
  Null = Null
  Idle = idle
  idle = idle
  t1 = t1
  t2 = t2
  t3 = t3
  MaxPriority = 3
  MaxTasks = 5
  BootTasks = {t1, t2}
  InitPriority <- TopFirst
  Objects = {}
  Creators = {t1}
  Sleepers = {t1, t2, t3}
  Suspends <- ManagerSuspends
  Resumes <- ManagerResumes
  Deletes <- ManagerSuspends
  Retunes <- Retuning
  StopsBlocked = FALSE
  MaxDelay = 2
INVARIANTS  ListsSound ReadyExactlyQueued SleepersAccounted
PROPERTIES DispatchesBest 
