SPECIFICATION QueueSpec
CONSTANTS
  Tasks <- MCTasks
  Null = Null
  Idle = idle
  idle = idle
  t1 = t1
  t2 = t2
  t3 = t3
  MaxPriority = 3
  MaxTasks = 8
  BootTasks = {t1, t2, t3}
  InitPriority <- TopFirst
  Objects <- MCObjects
  Creators = {}
  Sleepers = {}
  Suspends <- Nobody
  Resumes <- Nobody
  Deletes <- Nobody
  Retunes <- Nobody
  StopsBlocked = FALSE
  MaxDelay = 1
  q1 = q1
  a = a
  b = b
  Queues = {q1}
  Items = {a, b}
  Capacity = 2
  Timed = {}
  Senders = {t2, t3}
  FrontSenders = {t2}
  Receivers = {t1}
  Resetters = {t3}
INVARIANTS NobodyStranded
PROPERTIES KeepsFifo
