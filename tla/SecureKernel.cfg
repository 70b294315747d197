SPECIFICATION Spec
CONSTANTS
  Tasks <- MCTasks
  Null = Null
  idle = idle
  a = a
  b = b
  c = c
  Idle = idle
  Builds = {TRUE, FALSE}
  Users <- UserTasks
  MaxPriority = 3
  MaxTasks = 5
  BootTasks = {a, b, c}
  InitPriority <- Priorities
  Calls <- MCCalls
  Manages <- MCManages
  Retunes = {0}
  MaxCount = 1
  MaxDepth = 2
  StopsBlocked = FALSE
  UserRegion <- UserMap
  SharedRegion <- SharedMap
  StacksRegion <- StacksMap
  StackBase <- InUserMap
  StackSize = 8
INVARIANTS ContextsKept TasksAccounted
