----------------------------- MODULE UserKernel -----------------------------
(***************************************************************************)
(* The v3-smp kernel on one hart with tasks in user and in machine mode:   *)
(* trap entry and exit with the exchange of tp and mscratch, the kernel    *)
(* stacks and the frames on them, system calls, faults, and a semaphore, a *)
(* mutex and a queue, called by user tasks through ecall and by machine-   *)
(* mode tasks directly.  What several harts do to one another is in        *)
(* SmpKernel.  Ready and wait queues are chained through tcb->next, the    *)
(* delay list through tcb->delay_next.  The kernel runs a trap with        *)
(* interrupts masked, and a system call up to its return; machine-mode     *)
(* tasks may be interrupted between the critical sections of a call.       *)
(***************************************************************************)
EXTENDS ReadyLists, Pmp

CONSTANTS MaxTasks,      \* CONFIG_MAX_TASKS
          Idle,          \* g_idle_tasks[0]
          Users,         \* TCBs used by task_create_user, the others by task_create
          UserTp,        \* UserTp[t]: what user task t keeps in tp
          BootTasks,     \* the tasks that demo_init creates
          InitPriority,  \* the priority each task is created with
          StackBase,     \* addresses of the stacks: of g_user_ustacks[i] for each i
                         \* below MAX_USER_TASKS, of the one stack of each machine-
                         \* mode task, and StackBase[Null] of the boot stacks
          StackSize,     \* USER_USTACK_SIZE, and stack_size of the others
          Calls,         \* Calls[t]: the calls in the code of t (see NoCall)
          Manages,       \* Manages[t]: the tasks that t creates and retunes
          Retunes,       \* the priorities that it gives them
          MaxDelay,      \* bound: the longest delay or timeout
          MaxCount,      \* sem->max_count
          Capacity,      \* q->capacity
          MaxDepth,      \* bound: how deep the mutex is locked
          Careful        \* whether no task is retuned or leaves while it holds
                         \* or waits for the mutex, and only task_exit ends users

VARIABLES links,         \* ready queues and wait queues (TaskLists)
          state,         \* tcb->state, "FREE" for a TCB never used
          delays,        \* the delay list, chained through delay_next
          ticksLeft,     \* tcb->wake_tick - g_tick_count
          wakeReason,    \* tcb->wake_reason
          priority,      \* tcb->priority
          basePriority,  \* tcb->base_priority
          savedSp,       \* tcb->sp
          currentTask,   \* cpu->current_task
          frames,        \* the context frames on each kernel stack
          hart,          \* registers and cpu_t fields of the hart
          kstack,        \* tcb->kstack_top: an index of the pool, or Null
          taskCount,     \* g_task_count
          stackUsed,     \* the i with g_user_stack_used[i]
          sem,           \* sem->count
          mutex,         \* owner and lock_count
          items,         \* the messages in the queue, by their senders
          held,          \* held[t]: granted locks less unlocks, what t believes
          pc, call,      \* where the code of each task is, and in which call
          result         \* what the call of a user task has returned

listVars == <<links, state, delays, ticksLeft, wakeReason>>
prioVars == <<priority, basePriority>>
trapVars == <<savedSp, currentTask, frames>>
poolVars == <<kstack, taskCount, stackUsed>>
objVars == <<sem, mutex, items, held>>
callVars == <<pc, call, result>>
vars == <<listVars, prioVars, trapVars, hart, poolVars, objVars, callVars>>

SemWait == <<"wait", 0>>
MutexWait == <<"wait", 1>>
SendWait == <<"wait", 2>>
RecvWait == <<"wait", 3>>
WaitQueues == {SemWait, MutexWait, SendWait, RecvWait}
Delayed == <<"delay", 0>>
NoLinks(lists) == [head |-> [l \in lists |-> Null], next |-> [t \in Tasks |-> Null]]

Forever == MaxDelay + 1                    \* WAIT_FOREVER
NoCall == [op |-> "none", ticks |-> 0]     \* ticks: the delay or timeout, 0 for NO_WAIT

IsUser(t) == t \in Users
Stacks == DOMAIN StackBase
Pool == Stacks \ (Tasks \cup {Null})
StackOf(t) == IF IsUser(t) THEN kstack[t] ELSE t
Live(t) == state[t] \notin {"FREE", "DELETED"}

(* stack_init: a frame that mret will enter the task with. *)
FirstFrame(t) == [task |-> t, mode |-> IF IsUser(t) THEN "U" ELSE "M", masked |-> FALSE,
                  tp |-> IF IsUser(t) THEN UserTp[t] ELSE "zero",
                  a0 |-> "argument", returned |-> "none"]

(* What entry 2 is given to open each stack, and what it opens. *)
EntryFor == [s \in Stacks |-> NapotAddr(StackBase[s], StackSize)]
Opened == [a \in {EntryFor[s] : s \in Stacks} |-> Region(a)]

(* pmp_init: the boot stacks. *)
PmpInit == EntryFor[Null]

(* The hart as startup.S leaves it: interrupts are off, mscratch is zero. *)
BootHart == [mode |-> "M", masked |-> TRUE, sp |-> <<Null, 0>>, tp |-> "zero",
             mscratch |-> "zero", kernelTrapSp |-> Null, pmpaddr2 |-> PmpInit,
             needReschedule |-> FALSE]

(* smp_init_bsp: the hart gets its cpu_t. *)
SmpInitBsp(h) == [h EXCEPT !.tp = "cpu", !.needReschedule = FALSE]

(* mutex_init and queue_init *)
MutexInit == [owner |-> Null, lockCount |-> 0]
QueueInit == <<>>

(* After kernel_init the idle task exists and is in no ready queue. *)
Init ==
  /\ links = NoLinks({Ready(p) : p \in Levels} \cup WaitQueues)
  /\ delays = NoLinks({Delayed})
  /\ state = [t \in Tasks |-> IF t = Idle THEN "READY" ELSE "FREE"]
  /\ ticksLeft = [t \in Tasks |-> 0]
  /\ wakeReason = [t \in Tasks |-> "NONE"]
  /\ priority = InitPriority /\ basePriority = InitPriority
  /\ savedSp = [t \in Tasks |-> <<t, 1>>]
  /\ currentTask = Null
  /\ frames = [s \in Stacks |-> IF s = Idle THEN <<FirstFrame(Idle)>> ELSE <<>>]
  /\ hart = SmpInitBsp(BootHart)
  /\ kstack = [t \in Tasks |-> Null]
  /\ taskCount = 1
  /\ stackUsed = {}
  /\ sem = 0
  /\ mutex = MutexInit
  /\ items = QueueInit
  /\ held = [t \in Tasks |-> 0]
  /\ pc = [t \in Tasks |-> "run"]
  /\ call = [t \in Tasks |-> NoCall]
  /\ result = [t \in Tasks |-> "none"]

-----------------------------------------------------------------------------
(* Traps. *)

(* A frame is built below sp, over whatever is there. *)
Push(sp, frame) == [frames EXCEPT ![sp[1]] = Append(SubSeq(@, 1, sp[2]), frame)]

(* trap_entry: tp and mscratch are exchanged; if tp is zero then, they are *)
(* exchanged back and the stack in use is gone on with, else the kernel    *)
(* stack is taken from the cpu_t that tp should point to.                  *)
TrapEntry ==
  LET swapped == hart.mscratch # "zero"
      sp == IF ~swapped THEN hart.sp
            ELSE <<IF hart.mscratch = "cpu" THEN hart.kernelTrapSp ELSE Null, 0>>
      frame == [task |-> currentTask, mode |-> hart.mode, masked |-> hart.masked,
                tp |-> hart.tp, a0 |-> "argument", returned |-> "none"]
  IN  [hart |-> [hart EXCEPT !.mode = "M", !.masked = TRUE, !.sp = <<sp[1], sp[2] + 1>>,
                             !.tp = IF swapped THEN hart.mscratch ELSE @,
                             !.mscratch = IF swapped THEN hart.tp ELSE @],
       frames |-> Push(sp, frame)]

(* Mutant: mscratch keeps &cpu_t on the way to machine mode. *)
MscratchKept(frame, h) == "cpu"
MscratchFor(frame, h) == IF frame.mode = "U" THEN h.tp ELSE "zero"

(* trap_exit with the frame at sp: tp is restored for user mode only. *)
TrapExit(h, fs, sp) ==
  LET frame == fs[sp[1]][sp[2]]
      user == frame.mode = "U"
  IN  /\ hart' = [h EXCEPT !.mode = frame.mode, !.masked = frame.masked,
                           !.tp = IF user THEN frame.tp ELSE @,
                           !.mscratch = MscratchFor(frame, h),
                           !.sp = IF user THEN <<Null, 0>> ELSE <<sp[1], sp[2] - 1>>]
      /\ frames' = [fs EXCEPT ![sp[1]] = SubSeq(@, 1, sp[2] - 1)]

(* select_next_task_for_core, when every task may run on this hart. *)
SelectNext(lk) ==
  LET used == {p \in Levels : lk.head[Ready(p)] # Null}
  IN  IF used = {} THEN Idle ELSE lk.head[Ready(CHOOSE p \in used : \A q \in used : q <= p)]

(* pmp_update_task: entry 2 is to open the user stack of the task, which   *)
(* in machine mode is the only one.                                        *)
PmpUpdate(t) == EntryFor[StackOf(t)]

(* kernel_trap_sp: the kernel stack of a user task. *)
TrapSpFor(t) == IF kstack[t] # Null THEN kstack[t] ELSE hart.kernelTrapSp

(* sched_schedule, called with the frame of the current task at h.sp, and  *)
(* the way out to the task it selects.                                     *)
Schedule(h, fs, lk, st) ==
  LET requeue == st[currentTask] = "RUNNING"
      queued == IF requeue THEN AddReady(lk, priority, currentTask) ELSE lk
      next == SelectNext(queued)
      saved == [savedSp EXCEPT ![currentTask] = h.sp]
  IN  /\ links' = RemoveReady(queued, priority, next)
      /\ state' = [st EXCEPT ![currentTask] = IF requeue THEN "READY" ELSE @,
                             ![next] = "RUNNING"]
      /\ savedSp' = saved
      /\ currentTask' = next
      /\ TrapExit([h EXCEPT !.needReschedule = FALSE, !.kernelTrapSp = TrapSpFor(next),
                            !.pmpaddr2 = PmpUpdate(next)],
                  fs, saved[next])

(* sched_start *)
SchedStart ==
  LET first == SelectNext(links)
  IN  /\ currentTask = Null
      /\ \A t \in BootTasks : state[t] # "FREE"
      /\ links' = RemoveReady(links, priority, first)
      /\ state' = [state EXCEPT ![first] = "RUNNING"]
      /\ currentTask' = first
      /\ TrapExit([hart EXCEPT !.kernelTrapSp = TrapSpFor(first), !.mscratch = "cpu"],
                  frames, savedSp[first])
      /\ UNCHANGED <<delays, ticksLeft, wakeReason, savedSp, prioVars, poolVars,
                     objVars, callVars>>

(* delay_check_wakeups: the expired tasks leave the head of the delay list *)
(* and are made ready, in its order.                                       *)
CheckWakeups(left) ==
  LET wake[n \in 0..Cardinality(Tasks)] ==
        IF n = 0 THEN [links |-> links, delays |-> delays, woken |-> {}]
        ELSE LET k == wake[n - 1]
                 t == k.delays.head[Delayed]
             IN  IF t = Null \/ left[t] > 0 THEN k
                 ELSE [links |-> AddReady(k.links, priority, t),
                       delays |-> Pop(k.delays, Delayed),
                       woken |-> k.woken \cup {t}]
  IN  wake[Cardinality(Tasks)]

(* One tick later every sleeper has one tick less to go. *)
TickIncrement == [t \in Tasks |-> IF ticksLeft[t] > 0 THEN ticksLeft[t] - 1 ELSE 0]

(* The timer interrupt: trap_handler advances the tick and switches. *)
Timer ==
  /\ currentTask # Null /\ ~hart.masked
  /\ ticksLeft' = TickIncrement
  /\ LET k == CheckWakeups(ticksLeft')
     IN  /\ delays' = k.delays
         /\ wakeReason' = [t \in Tasks |-> IF t \in k.woken THEN "TIMEOUT" ELSE wakeReason[t]]
         /\ Schedule(TrapEntry.hart, TrapEntry.frames, k.links,
                     [t \in Tasks |-> IF t \in k.woken THEN "READY" ELSE state[t]])
  /\ UNCHANGED <<prioVars, poolVars, objVars, callVars>>

-----------------------------------------------------------------------------
(* Calls: how they begin, wait and return. *)

Runs(t, at) == currentTask = t /\ t # Idle /\ pc[t] = at

(* Mutexes are not locked deeper than MaxDepth, and a careful task does    *)
(* not leave while it holds one.                                           *)
MayCall(t, c) == /\ c.op \in {"lock", "tryLock"} => held[t] < MaxDepth
                 /\ c.op \in {"exit", "fault", "return"} /\ Careful => held[t] = 0

(* A user task traps: ecall with the number and arguments of a system call *)
(* in its registers, or, with op "fault", an exception; the return of its  *)
(* function is one, too.                                                   *)
UserTrap(t) ==
  /\ Runs(t, "run") /\ IsUser(t)
  /\ \E c \in Calls[t] : MayCall(t, c) /\ call' = [call EXCEPT ![t] = c]
  /\ pc' = [pc EXCEPT ![t] = "body"]
  /\ hart' = TrapEntry.hart
  /\ frames' = TrapEntry.frames
  /\ UNCHANGED <<listVars, prioVars, savedSp, currentTask, poolVars, objVars, result>>

(* The calls whose code t may execute now: the one it is in or, in machine *)
(* mode, any.                                                              *)
Pending(t) ==
  IF currentTask # t \/ t = Idle THEN {}
  ELSE IF pc[t] = "body" THEN {call[t]}
  ELSE IF pc[t] = "run" /\ ~IsUser(t) THEN {c \in Calls[t] : MayCall(t, c)} ELSE {}

(* The function called returns: to syscall_handler, or to the task. *)
Return(t, value) ==
  /\ pc' = [pc EXCEPT ![t] = IF IsUser(t) THEN "sysret" ELSE "run"]
  /\ call' = [call EXCEPT ![t] = IF IsUser(t) THEN @ ELSE NoCall]
  /\ result' = [result EXCEPT ![t] = IF IsUser(t) THEN value ELSE @]

(* Those that syscall_handler breaks out of its switch for; it returns     *)
(* through sched_schedule from all others.                                 *)
Simple == {"info", "semTry", "tryLock"}

(* The end of syscall_handler, of a call or of a fault. *)
SysReturn(t) ==
  LET simple == call[t].op \in Simple
      done == [frames EXCEPT ![hart.sp[1]][hart.sp[2]] =
                 [@ EXCEPT !.a0 = IF simple THEN result[t] ELSE @, !.returned = result[t]]]
  IN  /\ Runs(t, "sysret")
      /\ pc' = [pc EXCEPT ![t] = "run"]
      /\ call' = [call EXCEPT ![t] = NoCall]
      /\ result' = [result EXCEPT ![t] = "none"]
      /\ IF simple THEN /\ TrapExit(hart, done, hart.sp)
                        /\ UNCHANGED <<links, state, savedSp, currentTask>>
         ELSE Schedule(hart, done, links, state)
      /\ UNCHANGED <<delays, ticksLeft, wakeReason, prioVars, poolVars, objVars>>

(* task_yield by a machine-mode task, or by the kernel for a task that     *)
(* blocks in a call.                                                       *)
TaskYield(t) ==
  /\ \/ Runs(t, "request")
     \/ Runs(t, "run") /\ \E c \in Pending(t) : c.op = "yield"
  /\ hart' = [hart EXCEPT !.needReschedule = TRUE]
  /\ pc' = [pc EXCEPT ![t] = "ecall"]
  /\ UNCHANGED <<listVars, prioVars, trapVars, poolVars, objVars, call, result>>

(* Its ecall from machine mode. *)
Ecall(t) ==
  /\ Runs(t, "ecall")
  /\ pc' = [pc EXCEPT ![t] = IF call[t] = NoCall THEN "run" ELSE "check"]
  /\ IF hart.needReschedule
       THEN Schedule(TrapEntry.hart, TrapEntry.frames, links, state)
       ELSE /\ TrapExit(TrapEntry.hart, TrapEntry.frames, TrapEntry.hart.sp)
            /\ UNCHANGED <<links, state, savedSp, currentTask>>
  /\ UNCHANGED <<delays, ticksLeft, wakeReason, prioVars, poolVars, objVars, call, result>>

(* delay_add_locked: behind the tasks that wake no later. *)
DelayAdd(t, ticks) ==
  /\ delays' = Insert(delays, Delayed, t, {u \in Tasks : ticksLeft[u] <= ticks})
  /\ ticksLeft' = [ticksLeft EXCEPT ![t] = ticks]
  /\ wakeReason' = [wakeReason EXCEPT ![t] = "NONE"]

(* Mutant: the queue behind the task is dropped. *)
WaitqueueCut(lk, pr, queue, t) ==
  InsertCut(lk, queue, t, {u \in Tasks : pr[u] >= pr[t]})
(* waitqueue_add: behind the tasks of at least its priority. *)
WaitqueueAdd(lk, pr, queue, t) ==
  Insert(lk, queue, t, {u \in Tasks : pr[u] >= pr[t]})

(* A call that cannot be served: it returns false with NO_WAIT, and else   *)
(* joins the wait queue, blocks and sets up its timeout.                   *)
RefuseOrBlock(t, c, queue, lk, pr) ==
  IF c.ticks = 0 THEN Return(t, "no") /\ UNCHANGED listVars
  ELSE /\ links' = RemoveReady(WaitqueueAdd(lk, pr, queue, t), pr, t)
       /\ state' = [state EXCEPT ![t] = "BLOCKED"]
       /\ IF c.ticks = Forever THEN UNCHANGED <<delays, ticksLeft, wakeReason>>
          ELSE DelayAdd(t, c.ticks)
       /\ pc' = [pc EXCEPT ![t] = "request"]
       /\ call' = [call EXCEPT ![t] = c]
       /\ UNCHANGED result

(* waitqueue_pop and task_make_ready, if somebody waits. *)
WakeFirst(queue) ==
  LET w == links.head[queue]
  IN  IF w = Null THEN UNCHANGED <<listVars, hart>>
      ELSE /\ links' = AddReady(Pop(links, queue), priority, w)
           /\ state' = [state EXCEPT ![w] = "READY"]
           /\ wakeReason' = [wakeReason EXCEPT ![w] = "SIGNALED"]
           /\ hart' = [hart EXCEPT !.needReschedule = TRUE]
           /\ UNCHANGED <<delays, ticksLeft>>

-----------------------------------------------------------------------------
(* Semaphores. *)

SemWaitCall(t, c) ==
  /\ c.op \in {"semWait", "semTry"}
  /\ IF sem > 0 THEN sem' = sem - 1 /\ Return(t, "yes") /\ UNCHANGED listVars
     ELSE UNCHANGED sem /\ RefuseOrBlock(t, c, SemWait, links, priority)
  /\ UNCHANGED <<prioVars, trapVars, hart, poolVars, mutex, items, held>>

SemSignal(t, c) ==
  /\ c.op = "semSignal"
  /\ sem' = IF links.head[SemWait] = Null /\ sem < MaxCount THEN sem + 1 ELSE sem
  /\ WakeFirst(SemWait)
  /\ Return(t, "none")
  /\ UNCHANGED <<prioVars, trapVars, poolVars, mutex, items, held>>

-----------------------------------------------------------------------------
(* The mutex. *)

(* Mutant: the owner keeps its priority. *)
NotBoosted(t) == priority
(* The priorities after t waits for the owner. *)
Boosted(t) ==
  [priority EXCEPT ![mutex.owner] = IF @ < priority[t] THEN priority[t] ELSE @]

(* "Re-sort owner in ready queue" *)
Resorted(pr) ==
  IF pr # priority /\ state[mutex.owner] = "READY"
    THEN AddReady(RemoveReady(links, pr, mutex.owner), pr, mutex.owner) ELSE links

MutexLock(t, c) ==
  /\ c.op \in {"lock", "tryLock"}
  /\ IF mutex.owner \in {t, Null}
       THEN /\ mutex' = [owner |-> t, lockCount |-> mutex.lockCount + 1]
            /\ held' = [held EXCEPT ![t] = @ + 1]
            /\ Return(t, "yes")
            /\ UNCHANGED <<listVars, priority>>
       ELSE /\ priority' = IF c.ticks = 0 THEN priority ELSE Boosted(t)
            /\ RefuseOrBlock(t, c, MutexWait, Resorted(priority'), priority')
            /\ UNCHANGED <<mutex, held>>
  /\ UNCHANGED <<basePriority, trapVars, hart, poolVars, sem, items>>

(* mutex_unlock: only the owner's last unlock hands the mutex over. *)
MutexUnlock(t, c) ==
  /\ c.op = "unlock"
  /\ held' = [held EXCEPT ![t] = IF @ > 0 THEN @ - 1 ELSE 0]
  /\ IF mutex.owner = t /\ mutex.lockCount = 1
       THEN /\ priority' = [priority EXCEPT ![t] = basePriority[t]]
            /\ mutex' = [owner |-> links.head[MutexWait],
                         lockCount |-> IF links.head[MutexWait] = Null THEN 0 ELSE 1]
            /\ WakeFirst(MutexWait)
       ELSE /\ mutex' = IF mutex.owner = t THEN [mutex EXCEPT !.lockCount = @ - 1] ELSE mutex
            /\ UNCHANGED <<priority, listVars, hart>>
  /\ Return(t, "none")
  /\ UNCHANGED <<basePriority, trapVars, poolVars, sem, items>>

-----------------------------------------------------------------------------
(* The queue. *)

QueueSend(t, c) ==
  /\ c.op = "send"
  /\ IF Len(items) < Capacity
       THEN items' = Append(items, t) /\ WakeFirst(RecvWait) /\ Return(t, "yes")
       ELSE RefuseOrBlock(t, c, SendWait, links, priority) /\ UNCHANGED <<items, hart>>
  /\ UNCHANGED <<prioVars, trapVars, poolVars, sem, mutex, held>>

(* queue_send_front: without room it becomes a queue_send. *)
QueueSendFront(t, c) ==
  /\ c.op = "sendFront"
  /\ IF Len(items) < Capacity
       THEN items' = <<t>> \o items /\ WakeFirst(RecvWait) /\ Return(t, "yes")
       ELSE /\ IF c.ticks = 0 THEN Return(t, "no")
               ELSE /\ pc' = [pc EXCEPT ![t] = "body"]
                    /\ call' = [call EXCEPT ![t] = [c EXCEPT !.op = "send"]]
                    /\ UNCHANGED result
            /\ UNCHANGED <<items, listVars, hart>>
  /\ UNCHANGED <<prioVars, trapVars, poolVars, sem, mutex, held>>

QueueReceive(t, c) ==
  /\ c.op = "receive"
  /\ IF items # <<>>
       THEN items' = Tail(items) /\ WakeFirst(SendWait) /\ Return(t, "yes")
       ELSE RefuseOrBlock(t, c, RecvWait, links, priority) /\ UNCHANGED <<items, hart>>
  /\ UNCHANGED <<prioVars, trapVars, poolVars, sem, mutex, held>>

QueuePeek(t, c) ==
  /\ c.op = "peek"
  /\ Return(t, IF items = <<>> THEN "no" ELSE "yes")
  /\ UNCHANGED <<listVars, prioVars, trapVars, hart, poolVars, objVars>>

(* queue_reset: everybody is woken as if by a timeout. *)
QueueReset(t, c) ==
  LET emptied(queue) == LET s == Chain(links, queue) IN {s[i] : i \in 1..Len(s)}
      woken == emptied(SendWait) \cup emptied(RecvWait)
      order == Chain(links, SendWait) \o Chain(links, RecvWait)
      wake[n \in 0..Len(order)] ==
        IF n = 0 THEN links
        ELSE AddReady(Pop(wake[n - 1], IF n <= Len(Chain(links, SendWait))
                                         THEN SendWait ELSE RecvWait), priority, order[n])
  IN  /\ c.op = "reset"
      /\ items' = <<>>
      /\ links' = wake[Len(order)]
      /\ state' = [u \in Tasks |-> IF u \in woken THEN "READY" ELSE state[u]]
      /\ wakeReason' = [u \in Tasks |-> IF u \in woken THEN "TIMEOUT" ELSE wakeReason[u]]
      /\ Return(t, "none")
      /\ UNCHANGED <<delays, ticksLeft, prioVars, trapVars, hart, poolVars, sem, mutex, held>>

-----------------------------------------------------------------------------
(* After the yield of a call that blocked: a call that was signalled gives *)
(* up its timeout, one that was not leaves the wait queue.                 *)
Signaled(t) == wakeReason[t] = "SIGNALED"
DelayRemove(t) == Remove(delays, Delayed, t)
WaitqueueRemove(queue, t) == Remove(links, queue, t)
Settle(t, op, queue) ==
  /\ Runs(t, "check") /\ call[t].op = op
  /\ delays' = IF Signaled(t) /\ call[t].ticks # Forever
                 THEN DelayRemove(t) ELSE delays
  /\ links' = IF Signaled(t) THEN links ELSE WaitqueueRemove(queue, t)
  /\ UNCHANGED <<state, ticksLeft, wakeReason, prioVars, trapVars, hart, poolVars,
                 sem, mutex, items>>
Answer(t) == IF Signaled(t) THEN "yes" ELSE "no"

SemCheck(t) == /\ Settle(t, "semWait", SemWait)
               /\ Return(t, Answer(t))
               /\ UNCHANGED held

MutexCheck(t) == /\ Settle(t, "lock", MutexWait)
                 /\ Return(t, Answer(t))
                 /\ held' = IF Signaled(t) THEN [held EXCEPT ![t] = 1] ELSE held

(* A queue call tries once more, with NO_WAIT. *)
Retry(t) == IF Signaled(t) THEN /\ pc' = [pc EXCEPT ![t] = "body"]
                                /\ call' = [call EXCEPT ![t].ticks = 0]
                                /\ UNCHANGED result
            ELSE Return(t, "no")
SendCheck(t) == Settle(t, "send", SendWait) /\ Retry(t) /\ UNCHANGED held
ReceiveCheck(t) == Settle(t, "receive", RecvWait) /\ Retry(t) /\ UNCHANGED held

-----------------------------------------------------------------------------
(* Tasks. *)

(* SYS_YIELD, SYS_GET_TICK, SYS_PUTCHAR, SYS_PUTS, SYS_GET_TASK_ID and     *)
(* unknown numbers change nothing in the kernel.                           *)
NothingCall(t, c) ==
  /\ \/ IsUser(t) /\ c.op = "yield" /\ Return(t, "none")
     \/ c.op = "info" /\ Return(t, "yes")
  /\ UNCHANGED <<listVars, prioVars, trapVars, hart, poolVars, objVars>>

(* task_delay_internal, for sys_delay and for task_delay, which then       *)
(* yields; delay_ticks does the same.                                      *)
TaskDelay(t, c) ==
  /\ c.op = "delay"
  /\ IF c.ticks = 0 THEN Return(t, "none") /\ UNCHANGED listVars
     ELSE /\ state' = [state EXCEPT ![t] = "BLOCKED"]
          /\ links' = RemoveReady(links, priority, t)
          /\ DelayAdd(t, c.ticks)
          /\ IF IsUser(t) THEN Return(t, "none")
             ELSE pc' = [pc EXCEPT ![t] = "request"] /\ UNCHANGED <<call, result>>
  /\ UNCHANGED <<prioVars, trapVars, hart, poolVars, objVars>>

(* Its exit frees the pair of stacks of a user task. *)
StacksFreed(t) == stackUsed \ {kstack[t]}

Leave(t) ==
  /\ links' = RemoveReady(links, priority, t)
  /\ state' = [state EXCEPT ![t] = "DELETED"]
  /\ UNCHANGED <<delays, ticksLeft, wakeReason, prioVars, trapVars, hart, kstack,
                 taskCount, objVars>>

(* task_exit, called by SYS_EXIT and, for a user task, by a fault. *)
TaskExit(t, c) ==
  /\ c.op = "exit"
  /\ stackUsed' = StacksFreed(t)
  /\ Leave(t) /\ Return(t, "none")
Fault(t, c) ==
  /\ c.op = "fault"
  /\ stackUsed' = StacksFreed(t)
  /\ Leave(t) /\ Return(t, "none")

(* A machine-mode task whose function returns deletes itself and yields. *)
TaskExitHandler(t, c) ==
  /\ c.op = "return"
  /\ pc' = [pc EXCEPT ![t] = "request"]
  /\ Leave(t) /\ UNCHANGED <<stackUsed, call, result>>

Managing(u) == IF currentTask = Null THEN u \in BootTasks
               ELSE /\ pc[currentTask] = "run" /\ ~IsUser(currentTask)
                    /\ u \in Manages[currentTask]

(* What task_create and task_create_user do alike, with the stack chosen. *)
NewTask(u, stack) ==
  /\ Managing(u) /\ taskCount < MaxTasks /\ state[u] \in {"FREE", "DELETED"}
  /\ taskCount' = taskCount + 1
  /\ state' = [state EXCEPT ![u] = "READY"]
  /\ priority' = [priority EXCEPT ![u] = InitPriority[u]]
  /\ basePriority' = [basePriority EXCEPT ![u] = InitPriority[u]]
  /\ links' = AddReady(SetNext(links, u, Null), priority', u)
  /\ delays' = SetNext(delays, u, Null)
  /\ ticksLeft' = [ticksLeft EXCEPT ![u] = 0]
  /\ wakeReason' = [wakeReason EXCEPT ![u] = "NONE"]
  /\ frames' = [frames EXCEPT ![stack] = <<FirstFrame(u)>>]
  /\ savedSp' = [savedSp EXCEPT ![u] = <<stack, 1>>]
  /\ held' = [held EXCEPT ![u] = 0]
  /\ pc' = [pc EXCEPT ![u] = "run"]
  /\ call' = [call EXCEPT ![u] = NoCall]
  /\ result' = [result EXCEPT ![u] = "none"]
  /\ UNCHANGED <<currentTask, hart, sem, mutex, items>>

TaskCreate(u) == /\ ~IsUser(u)
                 /\ NewTask(u, u)
                 /\ UNCHANGED <<kstack, stackUsed>>

(* Mutant: the search for a free stack starts over at the first one. *)
FirstStack(free) == 0
LowestFree(free) == CHOOSE i \in free : \A j \in free : i <= j

(* task_create_user: with the first pair of stacks that is free. *)
TaskCreateUser(u) ==
  LET i == LowestFree(Pool \ stackUsed)
  IN  /\ IsUser(u) /\ Pool # stackUsed
      /\ NewTask(u, i)
      /\ kstack' = [kstack EXCEPT ![u] = i]
      /\ stackUsed' = stackUsed \cup {i}

(* task_set_priority, of the task itself or another. *)
TaskSetPriority(u) ==
  /\ currentTask # Null /\ Managing(u) /\ Live(u)
  /\ Careful => mutex.owner # u /\ state[u] # "BLOCKED"
  /\ \E p \in Retunes : /\ priority' = [priority EXCEPT ![u] = p]
                       /\ basePriority' = [basePriority EXCEPT ![u] = p]
  /\ links' = IF state[u] = "READY"
                THEN AddReady(RemoveReady(links, priority', u), priority', u) ELSE links
  /\ UNCHANGED <<state, delays, ticksLeft, wakeReason, trapVars, hart, poolVars,
                 objVars, callVars>>

-----------------------------------------------------------------------------
Next ==
  \/ SchedStart \/ Timer
  \/ \E t \in Tasks :
       \/ TaskCreate(t) \/ TaskCreateUser(t) \/ TaskSetPriority(t)
       \/ UserTrap(t) \/ SysReturn(t) \/ TaskYield(t) \/ Ecall(t)
       \/ SemCheck(t) \/ MutexCheck(t) \/ SendCheck(t) \/ ReceiveCheck(t)
       \/ \E c \in Pending(t) :
            \/ SemWaitCall(t, c) \/ SemSignal(t, c) \/ MutexLock(t, c) \/ MutexUnlock(t, c)
            \/ QueueSend(t, c) \/ QueueSendFront(t, c) \/ QueueReceive(t, c)
            \/ QueuePeek(t, c) \/ QueueReset(t, c) \/ NothingCall(t, c)
            \/ TaskDelay(t, c) \/ TaskExit(t, c) \/ Fault(t, c) \/ TaskExitHandler(t, c)

Spec == Init /\ [][Next]_vars

-----------------------------------------------------------------------------
(* A task in user code is one whose trap is over. *)
InKernel(t) == IsUser(t) /\ pc[t] # "run"

(* Every live task can be gone on with: its frames are on its own stack,   *)
(* one for the trap it is in and one for a switch inside a system call,    *)
(* and tcb->sp is at the last of them.  The hart is in the mode, on the    *)
(* stack and with the tp of the current task, and the next trap will find  *)
(* the kernel: mscratch tells the mode, and kernel_trap_sp is the stack of *)
(* the task in user mode, whatever tasks, traps and faults came between.   *)
(* Once the hart has switched, PMP entry 2 opens that task's user stack.   *)
ContextsIntact ==
  /\ \A t \in Tasks : Live(t) =>
       LET fs == frames[StackOf(t)]
       IN  /\ Len(fs) = (IF t = currentTask THEN 0 ELSE 1) + (IF InKernel(t) THEN 1 ELSE 0)
           /\ \A i \in 1..Len(fs) :
                /\ fs[i].task = t
                /\ fs[i].mode = IF IsUser(t) /\ i = 1 THEN "U" ELSE "M"
                /\ fs[i].masked = (i = 2)
           /\ t # currentTask => savedSp[t] = <<StackOf(t), Len(fs)>>
  /\ currentTask # Null =>
       LET t == currentTask
       IN  IF IsUser(t) /\ ~InKernel(t)
             THEN /\ hart.mode = "U" /\ ~hart.masked /\ hart.tp = UserTp[t]
                  /\ hart.mscratch = "cpu" /\ hart.kernelTrapSp = kstack[t]
                  /\ hart.pmpaddr2 # PmpInit =>
                       Opened[hart.pmpaddr2] =
                         StackBase[kstack[t]]..StackBase[kstack[t]] + StackSize - 1
             ELSE /\ hart.mode = "M" /\ hart.tp = "cpu" /\ hart.masked = IsUser(t)
                  /\ hart.mscratch = IF IsUser(t) THEN UserTp[t] ELSE "zero"
                  /\ hart.sp = <<StackOf(t), Len(frames[StackOf(t)])>>

(* The pool of stacks: the ones in use are those of the live user tasks,   *)
(* no two of which share one, through exits, faults and creations.         *)
StacksOwned ==
  LET owners == {t \in Users : Live(t)}
  IN  /\ stackUsed = {kstack[t] : t \in owners}
      /\ \A t, u \in owners : kstack[t] = kstack[u] => t = u

(* Where a call waits, and whether a task is on its way to what it asked  *)
(* for.                                                                   *)
QueueOf(op) == CASE op = "semWait" -> SemWait [] op = "lock" -> MutexWait
                 [] op = "send" -> SendWait [] op = "receive" -> RecvWait
Coming(op) == \E t \in Tasks : call[t].op = op /\ Live(t) /\ state[t] # "BLOCKED"

(* A blocked task is in the wait queue of its call and, if it has a        *)
(* timeout or sleeps, in the delay list, and nobody else is, but a task    *)
(* that has timed out and has not left the queue yet.  Nobody waits for a  *)
(* token, message or place that is there, unless a task woken for it has   *)
(* not come to it yet.                                                     *)
WaitersSound ==
  /\ \A t \in Tasks :
       LET blocked == state[t] = "BLOCKED"
           waits == call[t].op \in {"semWait", "lock", "send", "receive"}
       IN  /\ blocked => (On(delays, Delayed, t) <=> ~waits \/ call[t].ticks # Forever)
           /\ blocked /\ waits => On(links, QueueOf(call[t].op), t)
           /\ \A q \in WaitQueues : On(links, q, t) =>
                /\ waits /\ q = QueueOf(call[t].op)
                /\ blocked \/ (pc[t] = "check" /\ wakeReason[t] = "TIMEOUT")
           /\ state[t] = "READY" /\ t # Idle => On(links, Ready(Level(priority[t])), t)
  /\ sem > 0 => links.head[SemWait] = Null
  /\ links.head[RecvWait] # Null => items = <<>> \/ Coming("receive")
  /\ links.head[SendWait] # Null => Len(items) = Capacity \/ Coming("send")

(* The mutex belongs to the live task that believes to hold it, as often   *)
(* as it has locked it, or has just been handed it.  A task waits only     *)
(* while there is an owner of at least its priority, and only the owner's  *)
(* priority is raised.                                                     *)
MutexSound ==
  /\ \A t \in Tasks : held[t] > 0 => mutex.owner = t
  /\ mutex.owner # Null =>
       LET t == mutex.owner
       IN  /\ Live(t)
           /\ \/ held[t] = mutex.lockCount
              \/ call[t].op = "lock" /\ wakeReason[t] = "SIGNALED" /\ state[t] # "BLOCKED"
  /\ \A w \in Tasks : On(links, MutexWait, w) =>
       mutex.owner # Null /\ priority[mutex.owner] >= priority[w]
  /\ \A t \in Tasks : priority[t] # basePriority[t] => mutex.owner = t

(* What a system call returns reaches the task: the value is in a0 of the  *)
(* frame that the task goes on from.                                       *)
ResultsTold ==
  \A s \in Stacks : \A i \in 1..Len(frames[s]) :
    LET f == frames[s][i] IN f.returned # "none" => f.a0 = f.returned
=============================================================================
