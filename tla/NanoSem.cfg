SPECIFICATION SemSpec
CONSTANTS
  Tasks <- MCTasks
  Null = Null
  Idle = idle
  idle = idle
  t1 = t1
  t2 = t2
  t3 = t3
  MaxPriority = 3
  MaxTasks = 8
  BootTasks = {t1, t2, t3}
  InitPriority <- TopFirst
  Objects = {s1, s2}
  Creators = {}
  Sleepers = {}
  Suspends <- Nobody
  Resumes <- Nobody
  Deletes <- Nobody
  Retunes <- SelfRetune
  StopsBlocked = FALSE
  MaxDelay = 2
  s1 = s1
  s2 = s2
  Waits <- AllUse
  Signals <- AllUse
  Timed = {}
  MaxCount <- TwoAndOne
  InitialCount <- OneAndNone
INVARIANTS WaitersQueued
PROPERTIES NotOvertaken SemaphoresPromise
