SPECIFICATION Spec
CONSTANTS
  Tasks <- MCTasks
  Null = Null
  Idle = idle
  idle = idle
  m1 = m1
  u1 = u1
  u2 = u2
  Users <- MCUsers
  UserTp <- NoTls
  MaxPriority = 4
  MaxTasks = 5
  BootTasks = {m1, u1, u2}
  InitPriority <- Priorities
  StackBase <- Bases
  StackSize = 16
  Calls <- MCCalls
  Manages <- MCManages
  Retunes = {2}
  MaxDelay = 1
  MaxCount = 1
  Capacity = 1
  MaxDepth = 1
  Careful = TRUE
INVARIANT ResultsTold
