---------------------------- MODULE SecureKernel ----------------------------
(***************************************************************************)
(* The v1-secure kernel, in both of its builds: with CONFIG_USER_MODE the  *)
(* tasks run in user mode, trap into a kernel stack of their own through   *)
(* the exchange of sp and mscratch, and call the kernel by ecall; without  *)
(* it they run in machine mode, as in v0-nano.  Ready queues and the two   *)
(* lists of sleepers, that of task_delay and that of delay_ticks, are all  *)
(* chained through tcb->next.  A trap runs to its mret, with interrupts    *)
(* masked, in one step.  A semaphore and a mutex are here to share the     *)
(* links with the sleepers; their code is that of v0, and what they        *)
(* promise, and timeouts and queues, are in the Nano modules.              *)
(***************************************************************************)
EXTENDS ReadyLists, Pmp

CONSTANTS Builds,        \* the values of CONFIG_USER_MODE
          Users,         \* the tasks created with TASK_PRIV_U
          MaxTasks,      \* CONFIG_MAX_TASKS
          Idle,          \* g_idle_task
          BootTasks,     \* the tasks that demo_init creates
          InitPriority,  \* the priority each task is created with
          Calls,         \* Calls[t]: the calls [op, ticks] in the code of t
          Manages,       \* Manages[t]: the tasks that they are about
          Retunes,       \* the priorities given to task_set_priority
          MaxCount,      \* sem->max_count
          MaxDepth,      \* bound: locks held of the mutex
          StopsBlocked,  \* whether a blocked task may be suspended or deleted
          UserRegion, SharedRegion, StacksRegion,   \* base and size in linker.ld
          StackBase,     \* StackBase[t]: address of the stack given to task_create
          StackSize      \* and its size

ASSUME SecureAssumption == /\ MaxPriority \in Nat \ {0} /\ MaxTasks \in Nat \ {0}
                           /\ Builds \subseteq BOOLEAN
                           /\ Idle \in Tasks /\ Idle \notin BootTasks
                           /\ BootTasks \subseteq Tasks /\ Users \subseteq Tasks \ {Idle}
                           /\ InitPriority \in [Tasks -> Nat] /\ InitPriority[Idle] = 0
                           /\ Calls \in [Tasks -> SUBSET [op : STRING, ticks : Nat]]
                           /\ Calls[Idle] = {}
                           /\ Manages \in [Tasks -> SUBSET Tasks]
                           /\ Retunes \subseteq Nat
                           /\ MaxCount \in Nat \ {0} /\ MaxDepth \in Nat \ {0}
                           /\ StopsBlocked \in BOOLEAN

VARIABLES userMode,      \* CONFIG_USER_MODE
          links,         \* ready queues and sleepers (TaskLists)
          state,         \* tcb->state, "FREE" for a TCB never used
          ticksLeft,     \* tcb->wake_tick less the tick count
          priority, basePriority, \* the fields of the TCB
          count, owner, depth,    \* sem->count, mtx->owner, mtx->lock_count
          taskCount,     \* g_task_count
          currentTask,   \* g_current_task
          switchPending, \* g_switch_pending
          savedSp,       \* tcb->sp
          frames,        \* the context frames on each stack
          hart,          \* mode, sp, mscratch and pmpaddr of the hart
          pc             \* where the code of each machine-mode task is

listVars == <<links, state, ticksLeft>>
prioVars == <<priority, basePriority>>
objectVars == <<count, owner, depth>>
taskVars == <<userMode, taskCount>>
trapVars == <<currentTask, savedSp, frames, hart>>
vars == <<listVars, prioVars, objectVars, taskVars, switchPending, trapVars, pc>>

IsUser(t) == userMode /\ t \in Users
Point(label) == <<label, Null>>
Live(t) == state[t] \notin {"FREE", "DELETED"}
Delayed == <<"delayed", 0>>   \* g_delayed_list of scheduler.c
Delay == <<"delay", 0>>       \* g_delay_list of delay.c
Sem == <<"sem", 0>>           \* sem->wait_queue
Mutex == <<"mutex", 0>>       \* mtx->wait_queue
ListNames == {Ready(p) : p \in Levels} \cup {Delayed, Delay, Sem, Mutex}

(* A value of sp: a stack and how many frames are above. *)
Kernel(t) == <<t, "kernel">>   \* g_kernel_stacks
Own(t) == <<t, "own">>         \* the stack given to task_create
Zero == <<<<Null, "none">>, 0>>
FrameStack(t) == IF IsUser(t) THEN Kernel(t) ELSE Own(t)

(* stack_init: a frame that mret will enter the task with. *)
FirstFrame(t) ==
  [task |-> t, mode |-> IF IsUser(t) THEN "U" ELSE "M", sp |-> <<Own(t), 0>>]

(* pmp_init *)
PmpInit == [user |-> NapotOf(UserRegion.base, UserRegion.size),
            shared |-> NapotOf(SharedRegion.base, SharedRegion.size),
            stacks |-> NapotOf(StacksRegion.base, StacksRegion.size)]

(* What startup.S leaves in the hart; the regions matter with CONFIG_USER_MODE only. *)
BootHart == [mode |-> "M", sp |-> Zero, mscratch |-> Zero, pmpaddr |-> PmpInit]

(* sched_init *)
NoTasks == [head |-> [l \in ListNames |-> Null], next |-> [t \in Tasks |-> Null]]

(* After task_init the idle task is in its ready queue. *)
Init ==
  /\ userMode \in Builds
  /\ links = LinkLast(NoTasks, Ready(0), Idle)
  /\ state = [t \in Tasks |-> IF t = Idle THEN "READY" ELSE "FREE"]
  /\ ticksLeft = [t \in Tasks |-> 0]
  /\ priority = InitPriority /\ basePriority = InitPriority
  /\ count = 0 /\ owner = Null /\ depth = 0
  /\ taskCount = 1
  /\ currentTask = Null
  /\ switchPending = FALSE
  /\ savedSp = [t \in Tasks |-> <<FrameStack(t), 1>>]
  /\ frames = [s \in Tasks \X {"kernel", "own"} |->
                 IF s = Own(Idle) THEN <<FirstFrame(Idle)>> ELSE <<>>]
  /\ hart = BootHart
  /\ pc = [t \in Tasks |-> Point("run")]

-----------------------------------------------------------------------------
(* trap_entry: sp and mscratch are exchanged.  If sp is zero then, the     *)
(* trap is from machine mode and sp is read back from mscratch, which      *)
(* keeps it; else mscratch is cleared.  The frame is built below sp, over  *)
(* whatever is there, and holds the sp of the interrupted code.            *)
TrapEntry ==
  LET found == userMode /\ hart.mscratch # Zero
      sp == IF found THEN hart.mscratch ELSE hart.sp
      frame == [task |-> currentTask, mode |-> hart.mode, sp |-> hart.sp]
  IN  [hart |-> [hart EXCEPT !.mode = "M", !.sp = <<sp[1], sp[2] + 1>>,
                             !.mscratch = IF ~userMode THEN @
                                          ELSE IF found THEN Zero ELSE hart.sp],
       frames |-> [frames EXCEPT ![sp[1]] = Append(SubSeq(@, 1, sp[2]), frame)]]

(* Mutant: mscratch is not set up for the next trap. *)
ScratchLeft(frame, h, sp) == h.mscratch
(* "Returning to U-mode: set up mscratch": the sp above the frame. *)
ScratchFor(frame, h, sp) == IF frame.mode = "U" THEN <<sp[1], sp[2] - 1>> ELSE h.mscratch

(* trap_exit with the frame at sp. *)
TrapExit(h, fs, sp) ==
  LET frame == fs[sp[1]][sp[2]]
  IN  /\ hart' = [h EXCEPT !.mode = frame.mode, !.sp = frame.sp,
                           !.mscratch = ScratchFor(frame, h, sp)]
      /\ frames' = [fs EXCEPT ![sp[1]] = SubSeq(@, 1, sp[2] - 1)]

(* select_next_task: it stays in its queue. *)
SelectNext(lk) ==
  LET used == {p \in Levels : lk.head[Ready(p)] # Null}
  IN  IF used = {} THEN Idle ELSE lk.head[Ready(CHOOSE p \in used : \A q \in used : q <= p)]

(* Off its ready queue and to the end of that of its priority. *)
Resorted(lk, pr, t) == AddReady(RemoveReady(lk, pr, t), pr, t)

(* sched_schedule after a trap of the current task, and the way out to the *)
(* task selected.                                                          *)
Schedule(lk, st) ==
  LET requeue == st[currentTask] = "RUNNING"
      queued == IF requeue THEN Resorted(lk, priority, currentTask) ELSE lk
      next == SelectNext(queued)
      saved == [savedSp EXCEPT ![currentTask] = TrapEntry.hart.sp]
  IN  /\ links' = RemoveReady(queued, priority, next)
      /\ state' = [st EXCEPT ![currentTask] = IF requeue THEN "READY" ELSE @,
                             ![next] = "RUNNING"]
      /\ savedSp' = saved
      /\ currentTask' = next
      /\ switchPending' = FALSE
      /\ TrapExit(TrapEntry.hart, TrapEntry.frames, saved[next])

(* sched_start: the first task stays in its ready queue. *)
SchedStart ==
  LET first == SelectNext(links)
  IN  /\ currentTask = Null
      /\ \A t \in BootTasks : state[t] # "FREE"
      /\ state' = [state EXCEPT ![first] = "RUNNING"]
      /\ currentTask' = first
      /\ TrapExit(hart, frames, savedSp[first])
      /\ UNCHANGED <<links, ticksLeft, prioVars, objectVars, taskVars, switchPending, savedSp, pc>>

-----------------------------------------------------------------------------
(* Sleepers and the tick. *)

Later(ticks) == {u \in Tasks : ticksLeft[u] <= ticks}

(* Mutant: a sleeper goes to the head of the list. *)
AddDelayedFirst(lk, t, ticks) == Insert(lk, Delayed, t, {})
(* sched_add_delayed *)
AddDelayed(lk, t, ticks) == Insert(lk, Delayed, t, Later(ticks))
(* delay_add *)
DelayAdd(lk, t, ticks) == Insert(lk, Delay, t, Later(ticks))

(* task_make_ready *)
MakeReady(lk, st, u) == [links |-> AddReady(lk, priority, u), state |-> [st EXCEPT ![u] = "READY"]]

(* The expired tasks leave the head of a list and are made ready. *)
Wake(k, list, left) ==
  LET wake[n \in 0..Cardinality(Tasks)] ==
        IF n = 0 THEN k
        ELSE LET j == wake[n - 1]
                 t == j.links.head[list]
             IN  IF t = Null \/ left[t] > 0 THEN j
                 ELSE MakeReady(Pop(j.links, list), j.state, t)
  IN  wake[Cardinality(Tasks)]
CheckDelayed(left) == Wake([links |-> links, state |-> state], Delayed, left)
CheckWakeups(k, left) == Wake(k, Delay, left)

(* tick_increment: first the tasks of task_delay, then those of delay_ticks. *)
TickIncrement(left) == CheckWakeups(CheckDelayed(left), left)

(* timer_init is called by sched_start. *)
Ticking == currentTask # Null /\ hart.mode # "halted"

(* The timer interrupt. *)
Timer ==
  /\ Ticking
  /\ ticksLeft' = [t \in Tasks |-> IF ticksLeft[t] > 0 THEN ticksLeft[t] - 1 ELSE 0]
  /\ LET k == TickIncrement(ticksLeft') IN Schedule(k.links, k.state)
  /\ UNCHANGED <<prioVars, objectVars, taskVars, pc>>

(* task_block *)
Blocked(lk, st, t) == [links |-> RemoveReady(lk, priority, t), state |-> [st EXCEPT ![t] = "BLOCKED"]]

(* task_delay of the current task. *)
TaskDelay(t, ticks) ==
  IF ticks = 0 THEN [links |-> links, state |-> state, left |-> ticksLeft]
  ELSE [links |-> AddDelayed(RemoveReady(links, priority, t), t, ticks),
        state |-> [state EXCEPT ![t] = "BLOCKED"],
        left |-> [ticksLeft EXCEPT ![t] = ticks]]

(* task_exit of the current task. *)
TaskExit(t) == [links |-> RemoveReady(links, priority, t),
                state |-> [state EXCEPT ![t] = "DELETED"]]

-----------------------------------------------------------------------------
(* Tasks in user mode. *)

(* The system calls that user_syscall.c has, or a fault. *)
UserCalls == {"yield", "delay", "exit", "info"}
UserDoes(t, op) == currentTask = t /\ hart.mode = "U" /\ \E c \in Calls[t] : c.op = op

(* syscall_handler: SYS_YIELD, SYS_DELAY and SYS_EXIT (task_exit) return   *)
(* through sched_schedule, the others to the task.                         *)
Syscall(t) ==
  /\ \E c \in Calls[t] :
       /\ c.op \in UserCalls /\ UserDoes(t, c.op)
       /\ \/ c.op = "yield" /\ Schedule(links, state) /\ UNCHANGED ticksLeft
          \/ /\ c.op = "delay"
             /\ LET k == TaskDelay(t, c.ticks)
                IN  ticksLeft' = k.left /\ Schedule(k.links, k.state)
          \/ /\ c.op = "exit"
             /\ LET k == TaskExit(t) IN Schedule(k.links, k.state)
             /\ UNCHANGED ticksLeft
          \/ /\ c.op = "info"
             /\ TrapExit(TrapEntry.hart, TrapEntry.frames, TrapEntry.hart.sp)
             /\ UNCHANGED <<listVars, currentTask, savedSp, switchPending>>
  /\ UNCHANGED <<prioVars, objectVars, taskVars, pc>>

(* Any other exception, the return of a task's function too: trap_handler  *)
(* does not return.                                                        *)
Fault(t) ==
  /\ UserDoes(t, "fault")
  /\ hart' = [TrapEntry.hart EXCEPT !.mode = "halted"]
  /\ frames' = TrapEntry.frames
  /\ UNCHANGED <<listVars, prioVars, objectVars, taskVars, switchPending, currentTask, savedSp, pc>>
Halted == hart.mode = "halted" /\ UNCHANGED vars   \* "while (1) wfi"

-----------------------------------------------------------------------------
(* Tasks in machine mode.  A critical section is one step. *)

Runs(t, at) == currentTask = t /\ hart.mode = "M" /\ pc[t] = at
Goto(t, at) == pc' = [pc EXCEPT ![t] = at]
Does(t, op, ticks) == Runs(t, Point("run")) /\ [op |-> op, ticks |-> ticks] \in Calls[t]

(* task_yield: the request and the ecall. *)
TaskYield(t) ==
  /\ Does(t, "yield", 0) \/ Runs(t, Point("request"))
  /\ switchPending' = TRUE
  /\ Goto(t, Point("ecall"))
  /\ UNCHANGED <<listVars, prioVars, objectVars, taskVars, trapVars>>

Ecall(t) ==
  /\ Runs(t, Point("ecall"))
  /\ Goto(t, Point("run"))
  /\ IF switchPending THEN Schedule(links, state)
     ELSE /\ TrapExit(TrapEntry.hart, TrapEntry.frames, TrapEntry.hart.sp)
          /\ UNCHANGED <<links, state, currentTask, savedSp, switchPending>>
  /\ UNCHANGED <<ticksLeft, prioVars, objectVars, taskVars>>

(* delay_ticks *)
DelayTicks(t) ==
  /\ \E c \in Calls[t] :
       /\ c.op = "delayTicks" /\ c.ticks > 0 /\ Runs(t, Point("run"))
       /\ LET k == Blocked(DelayAdd(links, t, c.ticks), state, t)
          IN  links' = k.links /\ state' = k.state
       /\ ticksLeft' = [ticksLeft EXCEPT ![t] = c.ticks]
  /\ Goto(t, Point("request"))
  /\ UNCHANGED <<prioVars, objectVars, taskVars, switchPending, trapVars>>

(* What task_suspend and task_delete do alike. *)
Stop(t, u, stopped) ==
  /\ u \in Manages[t] /\ Live(u)
  /\ StopsBlocked \/ state[u] # "BLOCKED"
  /\ links' = RemoveReady(links, priority, u)
  /\ state' = [state EXCEPT ![u] = stopped]
  /\ IF t = u THEN Goto(t, Point("request")) ELSE UNCHANGED pc
  /\ UNCHANGED <<ticksLeft, prioVars, objectVars, taskVars, switchPending, trapVars>>
TaskSuspend(t, u) == Does(t, "suspend", 0) /\ Stop(t, u, "SUSPENDED")
TaskDelete(t, u) == Does(t, "delete", 0) /\ Stop(t, u, "DELETED")

(* The function of a task returns to task_exit_handler. *)
TaskExitHandler(t) == Does(t, "return", 0) /\ Stop(t, t, "DELETED")

(* task_resume: the test, and the section that relies on it. *)
TaskResume(t, u) ==
  /\ Does(t, "resume", 0) /\ u \in Manages[t]
  /\ state[u] = "SUSPENDED"
  /\ Goto(t, <<"resume", u>>)
  /\ UNCHANGED <<listVars, prioVars, objectVars, taskVars, switchPending, trapVars>>
Resume(t, u) ==
  /\ Runs(t, <<"resume", u>>) /\ Goto(t, Point("run"))
  /\ LET k == MakeReady(links, state, u) IN links' = k.links /\ state' = k.state
  /\ UNCHANGED <<ticksLeft, prioVars, objectVars, taskVars, switchPending, trapVars>>

TaskSetPriority(t, u) ==
  /\ Does(t, "retune", 0) /\ u \in Manages[t] /\ Live(u)
  /\ \E p \in Retunes : /\ priority' = [priority EXCEPT ![u] = p]
                        /\ basePriority' = [basePriority EXCEPT ![u] = p]
  /\ links' = IF state[u] = "READY"
                THEN Resorted(links, priority', u) ELSE links
  /\ UNCHANGED <<state, ticksLeft, objectVars, taskVars, switchPending, trapVars, pc>>

(* task_create_priv, by demo_init or by a machine-mode task. *)
TaskCreatePriv(u) ==
  /\ IF currentTask = Null THEN u \in BootTasks
     ELSE Does(currentTask, "create", 0) /\ u \in Manages[currentTask]
  /\ taskCount < MaxTasks /\ state[u] \in {"FREE", "DELETED"}
  /\ taskCount' = taskCount + 1
  /\ state' = [state EXCEPT ![u] = "READY"]
  /\ priority' = [priority EXCEPT ![u] = InitPriority[u]]
  /\ basePriority' = [basePriority EXCEPT ![u] = InitPriority[u]]
  /\ ticksLeft' = [ticksLeft EXCEPT ![u] = 0]
  /\ links' = AddReady(SetNext(links, u, Null), priority', u)
  /\ savedSp' = [savedSp EXCEPT ![u] = <<FrameStack(u), 1>>]
  /\ frames' = [frames EXCEPT ![FrameStack(u)] = <<FirstFrame(u)>>]
  /\ Goto(u, Point("run"))
  /\ UNCHANGED <<userMode, objectVars, currentTask, switchPending, hart>>

-----------------------------------------------------------------------------
(* The semaphore and the mutex, waited for without a timeout. *)

(* waitqueue_add *)
WaitqueueAdd(l, t) == Insert(links, l, t, {u \in Tasks : priority[u] >= priority[t]})

(* The task blocks and goes on to task_yield. *)
Wait(t, l, lk) ==
  LET k == Blocked(lk, state, t)
  IN  links' = k.links /\ state' = k.state /\ Goto(t, Point("request"))

(* The first waiter leaves the wait queue and is made ready. *)
WakeFirst(l) ==
  LET k == MakeReady(Pop(links, l), state, links.head[l])
  IN  links' = k.links /\ state' = k.state /\ switchPending' = TRUE

SemWait(t) ==
  /\ Does(t, "semWait", 0)
  /\ \/ /\ count > 0
        /\ count' = count - 1
        /\ UNCHANGED <<links, state, pc>>
     \/ /\ count = 0
        /\ Wait(t, Sem, WaitqueueAdd(Sem, t))
        /\ UNCHANGED count
  /\ UNCHANGED <<owner, depth, ticksLeft, prioVars, taskVars, switchPending, trapVars>>

SemSignal(t) ==
  /\ Does(t, "semSignal", 0)
  /\ IF links.head[Sem] # Null THEN WakeFirst(Sem) /\ UNCHANGED count
     ELSE /\ count' = IF count < MaxCount THEN count + 1 ELSE count
          /\ UNCHANGED <<links, state, switchPending>>
  /\ UNCHANGED <<owner, depth, ticksLeft, prioVars, taskVars, trapVars, pc>>

(* mutex_lock: taken, taken once more, or waited for, and then the owner   *)
(* inherits the priority.                                                  *)
MutexLock(t) ==
  /\ Does(t, "lock", 0)
  /\ \/ /\ owner \in {Null, t} /\ depth < MaxDepth
        /\ owner' = t /\ depth' = depth + 1
        /\ UNCHANGED <<links, state, priority, pc>>
     \/ /\ owner \notin {Null, t}
        /\ priority' = [priority EXCEPT ![owner] = IF @ < priority[t] THEN priority[t] ELSE @]
        /\ LET boosted == IF priority' # priority /\ state[owner] = "READY"
                            THEN Resorted(links, priority', owner) ELSE links
           IN  Wait(t, Mutex, Insert(boosted, Mutex, t, {u \in Tasks : priority'[u] >= priority[t]}))
        /\ UNCHANGED <<owner, depth>>
  /\ UNCHANGED <<count, ticksLeft, basePriority, taskVars, switchPending, trapVars>>

(* mutex_unlock by the owner; the next one becomes the owner at once. *)
MutexUnlock(t) ==
  /\ Does(t, "unlock", 0) /\ owner = t
  /\ IF depth > 1 THEN /\ depth' = depth - 1
                       /\ UNCHANGED <<links, state, priority, owner, switchPending>>
     ELSE /\ priority' = [priority EXCEPT ![t] = basePriority[t]]
          /\ owner' = links.head[Mutex]
          /\ IF owner' # Null THEN WakeFirst(Mutex) /\ depth' = 1
             ELSE depth' = 0 /\ UNCHANGED <<links, state, switchPending>>
  /\ UNCHANGED <<count, ticksLeft, basePriority, taskVars, trapVars, pc>>

-----------------------------------------------------------------------------
Next ==
  \/ SchedStart \/ Timer \/ Halted
  \/ \E t \in Tasks :
       \/ Syscall(t) \/ Fault(t) \/ TaskYield(t) \/ Ecall(t)
       \/ DelayTicks(t) \/ TaskExitHandler(t) \/ TaskCreatePriv(t)
       \/ SemWait(t) \/ SemSignal(t) \/ MutexLock(t) \/ MutexUnlock(t)
       \/ \E u \in Tasks : \/ TaskSuspend(t, u) \/ TaskDelete(t, u)
                           \/ TaskResume(t, u) \/ Resume(t, u)
                           \/ TaskSetPriority(t, u)

Spec == Init /\ [][Next]_vars

-----------------------------------------------------------------------------
Top(f) == Level(InitPriority[f])

(* The first task is alone at the highest level. *)
Leads(f) == /\ f \in BootTasks /\ Top(f) > 0
            /\ \A u \in Tasks \ {f, Idle} : Level(InitPriority[u]) < Top(f)
            /\ \A p \in Retunes : Level(p) < Top(f)

(* What the code of t may do to u. *)
May(t, op, u) == [op |-> op, ticks |-> 0] \in Calls[t] /\ u \in Manages[t]

(* The stack of t is in the memory opened to user mode. *)
Opened(t) == StackBase[t]..StackBase[t] + StackSize - 1 \subseteq Region(PmpInit.user)

(* What the theorems assume of the tasks: the first one to run is alone at *)
(* its level, which it leaves the first time it gives the hart away; no    *)
(* blocked task is stopped, as it stays in its list, and the idle task is  *)
(* let alone; whoever may be about to resume a task is the only other one  *)
(* that may make it something else than suspended; and next to user tasks  *)
(* nobody but the idle task runs in machine mode, as a second one could be *)
(* left with the mscratch of the first.                                    *)
Disciplined ==
  /\ \E f \in BootTasks : Leads(f)
  /\ ~StopsBlocked
  /\ \A t \in Tasks : Idle \notin Manages[t]
  /\ \A t, u, v \in Tasks : May(t, "resume", u) /\ v \notin {t, u} =>
       ~May(v, "resume", u) /\ ~May(v, "delete", u)
  /\ TRUE \in Builds => \A t \in Tasks \ {Idle} : t \in Users /\ Opened(t)

-----------------------------------------------------------------------------
(* Every live task can be gone on with: one that is not current has its    *)
(* frame, and nobody else's, on the stack that its traps use.  The hart is *)
(* in the mode and on the stack of the current task; mscratch is the top   *)
(* of the kernel stack of a user task, and in machine mode it is zero or   *)
(* of the task's own stack, so that no trap builds its frame over another  *)
(* task's.  The stack of a user task is in the memory opened to it.        *)
ContextsKept ==
  /\ \A t \in Tasks : Live(t) /\ t # currentTask =>
       /\ Len(frames[FrameStack(t)]) = 1
       /\ frames[FrameStack(t)][1].task = t
       /\ savedSp[t] = <<FrameStack(t), 1>>
  /\ currentTask # Null /\ hart.mode # "halted" =>
       LET t == currentTask
       IN  /\ hart.mode = IF IsUser(t) THEN "U" ELSE "M"
           /\ hart.sp = <<Own(t), 0>>
           /\ frames[FrameStack(t)] = <<>>
           /\ IF IsUser(t)
                THEN /\ hart.mscratch = <<Kernel(t), 0>>
                     /\ StackBase[t]..StackBase[t] + StackSize - 1
                          \subseteq Region(hart.pmpaddr.user)
                ELSE hart.mscratch \in {Zero, <<Own(t), 0>>}

(* No task is lost or listed twice: a ready task is in the queue of its    *)
(* level, once, a blocked one in one list of sleepers with its tick still  *)
(* to come or in one wait queue, whose object it cannot have, and nobody   *)
(* else is in a list, but the first task until the first switch away.      *)
TasksAccounted ==
  LET Places(t) == {x \in ListNames \X (1..Cardinality(Tasks)) :
                      x[2] <= Len(Chain(links, x[1])) /\ Chain(links, x[1])[x[2]] = t}
      OnceIn(t, ls) == Cardinality(Places(t)) = 1 /\ \A x \in Places(t) : x[1] \in ls
  IN  /\ \A t \in Tasks :
           /\ state[t] = "READY" => OnceIn(t, {Ready(Level(priority[t]))})
           /\ state[t] = "BLOCKED" => \/ ticksLeft[t] > 0 /\ OnceIn(t, {Delayed, Delay})
                                      \/ count = 0 /\ OnceIn(t, {Sem})
                                      \/ owner \notin {Null, t} /\ OnceIn(t, {Mutex})
           /\ state[t] \in {"SUSPENDED", "DELETED"} => Places(t) = {}
=============================================================================
