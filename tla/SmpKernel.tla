----------------------------- MODULE SmpKernel ------------------------------
(***************************************************************************)
(* The SMP kernel of v2-msmp (v3-smp has the same code, and user mode):    *)
(* scheduler.c, delay.c, tick.c, the task operations of task.c that a task *)
(* applies to itself or that wake another, and the timer and ecall paths   *)
(* of trap.c, on several harts.                                            *)
(*                                                                         *)
(* Each section under g_sched_lock, or under g_delay_lock alone, is one    *)
(* step (Spinlock shows that they exclude one another); delay_ticks, whose *)
(* g_delay_lock section contains another one, holds delayLock over several *)
(* steps.  Between two steps of a core every other core may run and, where *)
(* mstatus.MIE is set, its own timer interrupt may come.                   *)
(***************************************************************************)
EXTENDS ReadyQueue

CONSTANTS Priority,   \* tcb->priority, fixed: there is no inheritance here
          BSP,        \* hart 0, the one that counts ticks
          Sleepers,   \* tasks whose code calls delay_ticks
          Suspenders, \* tasks whose code calls task_suspend(NULL)
          Leavers,    \* tasks whose function may return
          Resumes,    \* Resumes[t]: the tasks that the code of t resumes
          MaxTicks,   \* bound: the longest delay asked for
          None

ASSUME KernelAssumption == /\ Priority \in [Tasks -> Nat]
                           /\ \A c \in Cores : Affinity[Idle[c]] = {c}
                           /\ BSP \in Cores
                           /\ Sleepers \cup Suspenders \cup Leavers \subseteq Tasks
                           /\ Resumes \in [Tasks -> SUBSET Tasks]
                           /\ MaxTicks \in Nat \ {0}
                           /\ None \notin Tasks \cup Cores

VARIABLES
  readyQueue,     \* g_ready_queue
  state,          \* tcb->state; FREE: a slot of g_tasks not yet used
  currentTask,    \* cpu->current_task
  needReschedule, \* cpu->need_reschedule
  delayList,      \* g_delay_list
  ticksLeft,      \* tcb->wake_tick - g_tick_count, for a task in delayList
  delayLock,      \* the core in delay_ticks' section under g_delay_lock
  wake,           \* delay_ticks' wake_tick - g_tick_count, on its core
  woken,          \* delay_check_wakeups' task: unlinked, not yet made ready
  bootFlag,       \* g_boot_flag
  pc,             \* where the kernel code of a core is; "task": in task code
  stack,          \* the task on whose stack the core is; None: a boot stack
  call,           \* how far the code of a task is in a kernel call
  cpuAt,          \* the smp_get_cpu() that this call has read
  target          \* the call's tcb argument

schedVars == <<readyQueue, state, currentTask, needReschedule>>
delayVars == <<delayList, ticksLeft, delayLock, wake, woken>>
callVars == <<call, cpuAt, target>>
vars == <<schedVars, delayVars, bootFlag, pc, stack, callVars>>

States == {"FREE", "READY", "RUNNING", "BLOCKED", "SUSPENDED", "DELETED"}
CorePcs == {"boot", "task", "delayAdd", "delayBlock", "delayUnlock",
            "wakeups", "trap", "switched"}
CallPcs == {"run", "yield", "request", "ecall", "suspend", "exit", "check", "resume"}
IdleTasks == {Idle[c] : c \in Cores}

(* task_init has made the idle tasks, READY and outside every queue. *)
Init == /\ readyQueue = EmptyQueues
        /\ state = [t \in Tasks |-> IF t \in IdleTasks THEN "READY" ELSE "FREE"]
        /\ currentTask = [c \in Cores |-> None]
        /\ needReschedule = [c \in Cores |-> FALSE]
        /\ delayList = <<>>
        /\ ticksLeft = [t \in Tasks |-> 0]
        /\ delayLock = None
        /\ wake = [c \in Cores |-> 0]
        /\ woken = [c \in Cores |-> None]
        /\ bootFlag = FALSE
        /\ pc = [c \in Cores |-> "boot"]
        /\ stack = [c \in Cores |-> None]
        /\ call = [t \in Tasks |-> "run"]
        /\ cpuAt = [t \in Tasks |-> BSP]
        /\ target = [t \in Tasks |-> None]

-----------------------------------------------------------------------------
(* Boot. *)

(* task_create, from demo_init on hart 0 while the others wait. *)
TaskCreate(t) == /\ ~bootFlag /\ state[t] = "FREE"
                 /\ state' = [state EXCEPT ![t] = "READY"]
                 /\ readyQueue' = AddReady(readyQueue, t, Priority[t])
                 /\ UNCHANGED <<currentTask, needReschedule, delayVars, bootFlag,
                                pc, stack, callVars>>

(* kernel_start lets the other harts leave startup.S. *)
KernelStart == /\ ~bootFlag
               /\ bootFlag' = TRUE
               /\ UNCHANGED <<schedVars, delayVars, pc, stack, callVars>>

(* Dispatching the selected task on core c: both schedulers end so. *)
Dispatch(c, rq, st) ==
  LET next == SelectNext(rq, c)
  IN  /\ readyQueue' = RemoveReady(rq, next, Priority[next])
      /\ state' = [st EXCEPT ![next] = "RUNNING"]
      /\ currentTask' = [currentTask EXCEPT ![c] = next]
      /\ pc' = [pc EXCEPT ![c] = "switched"]

(* sched_start, sched_start_ap: the section under g_sched_lock. *)
SchedStart(c) == /\ bootFlag /\ pc[c] = "boot"
                 /\ Dispatch(c, readyQueue, state)
                 /\ UNCHANGED <<needReschedule, delayVars, bootFlag, stack, callVars>>

-----------------------------------------------------------------------------
(* Traps. *)

(* Timer interrupt: on hart 0 tick_increment moves time and looks for      *)
(* sleepers to wake; everywhere a switch is requested.                     *)
Timer(c) ==
  /\ pc[c] = "task"
  /\ needReschedule' = [needReschedule EXCEPT ![c] = TRUE]
  /\ IF c = BSP
       THEN /\ ticksLeft' = [t \in Tasks |-> IF InList(delayList, t)
                                               THEN ticksLeft[t] - 1 ELSE ticksLeft[t]]
            /\ wake' = [d \in Cores |-> IF pc[d] = "delayAdd" THEN wake[d] - 1 ELSE wake[d]]
            /\ pc' = [pc EXCEPT ![c] = "wakeups"]
       ELSE /\ pc' = [pc EXCEPT ![c] = "trap"]
            /\ UNCHANGED <<ticksLeft, wake>>
  /\ UNCHANGED <<readyQueue, state, currentTask, delayList, delayLock, woken,
                 bootFlag, stack, callVars>>

(* Mutant: "wake_tick < current_tick". *)
ExpiredLate(t) == ticksLeft[t] < 0
(* "g_delay_list->wake_tick <= current_tick" *)
Expired(t) == ticksLeft[t] <= 0

(* delay_check_wakeups, one turn of its loop under g_delay_lock. *)
CheckWakeups(c) ==
  /\ pc[c] = "wakeups" /\ woken[c] = None /\ delayLock = None
  /\ IF delayList # <<>> /\ Expired(Head(delayList))
       THEN /\ woken' = [woken EXCEPT ![c] = Head(delayList)]
            /\ delayList' = Tail(delayList)
            /\ pc' = pc
       ELSE /\ pc' = [pc EXCEPT ![c] = "trap"]
            /\ UNCHANGED <<woken, delayList>>
  /\ UNCHANGED <<schedVars, ticksLeft, delayLock, wake, bootFlag, stack, callVars>>

(* task_make_ready of task t. *)
MakeReady(t) == /\ readyQueue' = AddReady(readyQueue, t, Priority[t])
                /\ state' = [state EXCEPT ![t] = "READY"]

(* Mutant: the unlinked task is not made ready. *)
WakeForgotten(c) == /\ pc[c] = "wakeups" /\ woken[c] # None
                    /\ woken' = [woken EXCEPT ![c] = None]
                    /\ UNCHANGED <<schedVars, delayList, ticksLeft, delayLock, wake,
                                   bootFlag, pc, stack, callVars>>

(* ... which delay_check_wakeups calls between two sections. *)
WakeReady(c) == /\ pc[c] = "wakeups" /\ woken[c] # None
                /\ MakeReady(woken[c])
                /\ woken' = [woken EXCEPT ![c] = None]
                /\ UNCHANGED <<currentTask, needReschedule, delayList, ticksLeft,
                               delayLock, wake, bootFlag, pc, stack, callVars>>

(* "if (current->state == TASK_STATE_RUNNING)" *)
Requeued(t) == state[t] = "RUNNING"

(* sched_schedule, when trap_handler finds a switch pending.  The lock is  *)
(* released and next->sp returned while the core is still on its stack.    *)
Schedule(c) ==
  LET cur == currentTask[c]
      requeue == Requeued(cur)
  IN  /\ pc[c] = "trap" /\ needReschedule[c]
      /\ Dispatch(c, IF requeue THEN AddReady(readyQueue, cur, Priority[cur])
                                ELSE readyQueue,
                     IF requeue THEN [state EXCEPT ![cur] = "READY"] ELSE state)
      /\ needReschedule' = [needReschedule EXCEPT ![c] = FALSE]
      /\ UNCHANGED <<delayVars, bootFlag, stack, callVars>>

(* No switch pending: the interrupted task goes on. *)
NoSwitch(c) == /\ pc[c] = "trap" /\ ~needReschedule[c]
               /\ pc' = [pc EXCEPT ![c] = "task"]
               /\ UNCHANGED <<schedVars, delayVars, bootFlag, stack, callVars>>

(* trap_exit: the core moves to the stack of its current task and resumes. *)
TrapExit(c) == /\ pc[c] = "switched"
               /\ stack' = [stack EXCEPT ![c] = currentTask[c]]
               /\ pc' = [pc EXCEPT ![c] = "task"]
               /\ UNCHANGED <<schedVars, delayVars, bootFlag, callVars>>

-----------------------------------------------------------------------------
(* Calls made by the code of the task that core c executes. *)

Executes(c, t, at) == pc[c] = "task" /\ stack[c] = t /\ call[t] \in at

(* task_yield and sched_request_switch: smp_get_cpu() is read ... *)
YieldCall(c, t) == /\ Executes(c, t, {"run", "yield"}) /\ t \notin IdleTasks
                   /\ call' = [call EXCEPT ![t] = "request"]
                   /\ cpuAt' = [cpuAt EXCEPT ![t] = c]
                   /\ UNCHANGED <<schedVars, delayVars, bootFlag, pc, stack, target>>

(* Mutant: the trap is taken without a request. *)
RequestNothing(c, t) == /\ Executes(c, t, {"request"})
                        /\ call' = [call EXCEPT ![t] = "ecall"]
                        /\ UNCHANGED <<schedVars, delayVars, bootFlag, pc, stack,
                                       cpuAt, target>>

(* ... its need_reschedule set ... *)
RequestSwitch(c, t) == /\ Executes(c, t, {"request"})
                       /\ needReschedule' = [needReschedule EXCEPT ![cpuAt[t]] = TRUE]
                       /\ call' = [call EXCEPT ![t] = "ecall"]
                       /\ UNCHANGED <<readyQueue, state, currentTask, delayVars,
                                      bootFlag, pc, stack, cpuAt, target>>

(* ... and the trap taken. *)
Ecall(c, t) == /\ Executes(c, t, {"ecall"})
               /\ call' = [call EXCEPT ![t] = "run"]
               /\ pc' = [pc EXCEPT ![c] = "trap"]
               /\ UNCHANGED <<schedVars, delayVars, bootFlag, stack, cpuAt, target>>

(* delay_ticks: g_delay_lock is taken, interrupts masked, and tick_get()   *)
(* read.                                                                   *)
DelayTicks(c, t) == /\ Executes(c, t, {"run"}) /\ t \in Sleepers
                    /\ delayLock = None
                    /\ delayLock' = c
                    /\ \E ticks \in 1..MaxTicks : wake' = [wake EXCEPT ![c] = ticks]
                    /\ pc' = [pc EXCEPT ![c] = "delayAdd"]
                    /\ UNCHANGED <<schedVars, delayList, ticksLeft, woken, bootFlag,
                                   stack, callVars>>

(* Mutant: "task->delay_next = *pp" is missing. *)
DelayCut(dl, t, w) == Append(SelectSeq(dl, LAMBDA u : ticksLeft[u] <= w), t)

(* delay_add_locked walks past the sleepers that wake no later than w. *)
DelayInsert(dl, t, w) ==
  LET Passed(i) == i <= Len(dl) /\ \A j \in 1..i : ticksLeft[dl[j]] <= w
  IN  [i \in 1..Len(dl) + 1 |-> IF Passed(i) THEN dl[i]
                                ELSE IF Passed(i - 1) THEN t ELSE dl[i - 1]]

DelayAddLocked(c) == /\ pc[c] = "delayAdd"
                     /\ LET t == currentTask[c]
                        IN  /\ delayList' = DelayInsert(delayList, t, wake[c])
                            /\ ticksLeft' = [ticksLeft EXCEPT ![t] = wake[c]]
                     /\ pc' = [pc EXCEPT ![c] = "delayBlock"]
                     /\ UNCHANGED <<schedVars, delayLock, wake, woken, bootFlag,
                                    stack, callVars>>

(* task_block(current, NULL), with g_sched_lock inside g_delay_lock. *)
DelayBlock(c) == /\ pc[c] = "delayBlock"
                 /\ LET t == currentTask[c]
                    IN  /\ state' = [state EXCEPT ![t] = "BLOCKED"]
                        /\ readyQueue' = RemoveReady(readyQueue, t, Priority[t])
                 /\ pc' = [pc EXCEPT ![c] = "delayUnlock"]
                 /\ UNCHANGED <<currentTask, needReschedule, delayVars, bootFlag,
                                stack, callVars>>

(* g_delay_lock is released; task_yield follows with interrupts enabled. *)
DelayUnlock(c) == /\ pc[c] = "delayUnlock"
                  /\ delayLock' = None
                  /\ call' = [call EXCEPT ![currentTask[c]] = "yield"]
                  /\ pc' = [pc EXCEPT ![c] = "task"]
                  /\ UNCHANGED <<schedVars, delayList, ticksLeft, wake, woken,
                                 bootFlag, stack, cpuAt, target>>

(* task_suspend(NULL) and task_exit_handler: smp_get_cpu() is read ... *)
SelfCall(c, t, name) == /\ Executes(c, t, {"run"})
                        /\ call' = [call EXCEPT ![t] = name]
                        /\ cpuAt' = [cpuAt EXCEPT ![t] = c]
                        /\ UNCHANGED <<schedVars, delayVars, bootFlag, pc, stack, target>>

TaskSuspend(c, t) == t \in Suspenders /\ SelfCall(c, t, "suspend")
TaskExitHandler(c, t) == t \in Leavers /\ SelfCall(c, t, "exit")

(* ... and, in a critical section that masks this hart's interrupts only,  *)
(* the task current there is taken off the scheduler.  (task_delete reads  *)
(* smp_get_cpu() anew.)                                                    *)
SelfStop(c, t, name, newState) ==
  LET victim == currentTask[cpuAt[t]]
  IN  /\ Executes(c, t, {name})
      /\ readyQueue' = RemoveReady(readyQueue, victim, Priority[victim])
      /\ state' = [state EXCEPT ![victim] = newState]
      /\ target' = [target EXCEPT ![t] = victim]
      /\ call' = [call EXCEPT ![t] = "check"]
      /\ UNCHANGED <<currentTask, needReschedule, delayVars, bootFlag, pc, stack>>

SuspendStop(c, t) == SelfStop(c, t, "suspend", "SUSPENDED") /\ UNCHANGED cpuAt
TaskDelete(c, t) == SelfStop(c, t, "exit", "DELETED") /\ cpuAt' = [cpuAt EXCEPT ![t] = c]

(* "if (task == cpu->current_task) task_yield()" *)
YieldIfCurrent(c, t) ==
  /\ Executes(c, t, {"check"})
  /\ call' = [call EXCEPT ![t] = IF target[t] = currentTask[cpuAt[t]] THEN "yield" ELSE "run"]
  /\ target' = [target EXCEPT ![t] = None]
  /\ UNCHANGED <<schedVars, delayVars, bootFlag, pc, stack, cpuAt>>

(* task_resume: the state is tested before the critical section ... *)
TaskResume(c, t) == /\ Executes(c, t, {"run"})
                    /\ \E u \in Resumes[t] : /\ state[u] = "SUSPENDED"
                                             /\ target' = [target EXCEPT ![t] = u]
                    /\ call' = [call EXCEPT ![t] = "resume"]
                    /\ UNCHANGED <<schedVars, delayVars, bootFlag, pc, stack, cpuAt>>

(* ... that makes the task ready. *)
ResumeReady(c, t) == /\ Executes(c, t, {"resume"})
                     /\ MakeReady(target[t])
                     /\ target' = [target EXCEPT ![t] = None]
                     /\ call' = [call EXCEPT ![t] = "run"]
                     /\ UNCHANGED <<currentTask, needReschedule, delayVars, bootFlag,
                                    pc, stack, cpuAt>>

-----------------------------------------------------------------------------
KernelStep(c) == \/ SchedStart(c) \/ CheckWakeups(c) \/ WakeReady(c)
                 \/ Schedule(c) \/ NoSwitch(c) \/ TrapExit(c)
                 \/ DelayAddLocked(c) \/ DelayBlock(c) \/ DelayUnlock(c)

TaskStep(c, t) == \/ YieldCall(c, t) \/ RequestSwitch(c, t) \/ Ecall(c, t)
                  \/ DelayTicks(c, t)
                  \/ TaskSuspend(c, t) \/ SuspendStop(c, t)
                  \/ TaskExitHandler(c, t) \/ TaskDelete(c, t) \/ YieldIfCurrent(c, t)
                  \/ TaskResume(c, t) \/ ResumeReady(c, t)

Next == \/ \E t \in Tasks : TaskCreate(t)
        \/ KernelStart
        \/ \E c \in Cores : KernelStep(c) \/ Timer(c)
        \/ \E c \in Cores, t \in Tasks : TaskStep(c, t)

Spec == Init /\ [][Next]_vars
(* The hardware: a hart keeps executing its kernel code, and a pending     *)
(* timer interrupt is taken sooner or later, since task code is always     *)
(* interruptible and the compare register is set again at every tick.      *)
(* Nothing obliges a task to make a call.                                  *)
Fairness == /\ WF_vars(KernelStart)
            /\ \A c \in Cores : WF_vars(KernelStep(c)) /\ SF_vars(Timer(c))
FairSpec == Spec /\ Fairness

-----------------------------------------------------------------------------
(* Every variable has its type. *)
TypeOK == /\ readyQueue \in Queues
          /\ state \in [Tasks -> States]
          /\ currentTask \in [Cores -> Tasks \cup {None}]
          /\ needReschedule \in [Cores -> BOOLEAN]
          /\ delayList \in Seq(Tasks)
          /\ ticksLeft \in [Tasks -> 0..MaxTicks]
          /\ delayLock \in Cores \cup {None}
          /\ wake \in [Cores -> 0..MaxTicks]
          /\ woken \in [Cores -> Tasks \cup {None}]
          /\ bootFlag \in BOOLEAN
          /\ pc \in [Cores -> CorePcs]
          /\ stack \in [Cores -> Tasks \cup {None}]
          /\ call \in [Tasks -> CallPcs]
          /\ cpuAt \in [Tasks -> Cores]
          /\ target \in [Tasks -> Tasks \cup {None}]

(* No task is current on two harts, nor on a hart outside its affinity     *)
(* mask (sched_schedule, select_next_task_for_core).                       *)
TaskOnOneCore ==
  \A c \in Cores : currentTask[c] # None =>
    /\ c \in Affinity[currentTask[c]]
    /\ \A d \in Cores \ {c} : currentTask[d] # currentTask[c]

(* No two harts execute on the stack of one task: trap_handler's frames of *)
(* the one would be overwritten by the other (sched_schedule, trap_exit).  *)
StackExclusive ==
  \A c, d \in Cores : c # d /\ stack[c] # None => stack[c] # stack[d]

(* A task pinned to one hart; tasks that wait are to be pinned for         *)
(* TaskOnOneCore, all tasks for StackExclusive.                            *)
Pinned(t) == \E c \in Cores : Affinity[t] = {c}
WaitersPinned == \A t \in Sleepers \cup Suspenders : Pinned(t)

(* The ready queue holds exactly the READY tasks, each once and at the     *)
(* level of its priority; an idle task may be READY without being queued.  *)
(* No runnable task is lost, none is queued while it runs, and none is left *)
(* RUNNING that is not the current task of a hart, to be requeued there.   *)
ReadyExactlyQueued ==
  /\ \A t \in Tasks : state[t] = "READY" =>
       t \in IdleTasks \/ InList(readyQueue[Level(Priority[t])], t)
  /\ \A p \in Levels : \A i \in 1..Len(readyQueue[p]) :
       LET t == readyQueue[p][i]
       IN  /\ state[t] = "READY" /\ Level(Priority[t]) = p
           /\ \A j \in 1..Len(readyQueue[p]) : readyQueue[p][j] = t => i = j
  /\ \A t \in Tasks : state[t] = "RUNNING" => \E c \in Cores : currentTask[c] = t

(* Every blocked task is in the delay list or in the hands of              *)
(* delay_check_wakeups, so that it will be woken, and nobody else is there *)
(* but the one that delay_ticks is about to block; the list is sorted, and *)
(* once a tick has been handled no sleeper is overdue, although harts      *)
(* insert into it while others count ticks.                                *)
SleepersAccounted ==
  /\ \A t \in Tasks : state[t] = "BLOCKED" =>
       InList(delayList, t) \/ \E c \in Cores : woken[c] = t
  /\ \A i \in 1..Len(delayList) :
       \/ state[delayList[i]] = "BLOCKED"
       \/ \E c \in Cores : currentTask[c] = delayList[i] /\ pc[c] = "delayBlock"
  /\ \A i, j \in 1..Len(delayList) :
       i < j => /\ delayList[i] # delayList[j]
                /\ ticksLeft[delayList[i]] <= ticksLeft[delayList[j]]
  /\ pc[BSP] # "wakeups" => \A i \in 1..Len(delayList) : ticksLeft[delayList[i]] > 0

(* A task whose call made it wait, or ended it, executes nothing after the *)
(* call until it is made ready: the yield at the end of delay_ticks,       *)
(* task_suspend and task_delete is not lost to a preemption.               *)
StoppedTaskStops ==
  \A c \in Cores, t \in Tasks :
    Executes(c, t, {"run"}) => state[t] \notin {"BLOCKED", "SUSPENDED", "DELETED"}

(* A switch leaves no ready task of a higher level that may run on the     *)
(* hart, and goes to a task that was ready (priority-based, preemptive).   *)
DispatchesBest ==
  [][\A c \in Cores : pc[c] # "switched" /\ pc'[c] = "switched" =>
       /\ state[currentTask'[c]] = "READY" \/ currentTask'[c] = currentTask[c]
       /\ \A p \in Levels : Eligible(readyQueue'[p], c) # {} =>
            p <= Level(Priority[currentTask'[c]])]_vars

(* A task is deleted only when its own function returns                    *)
(* (task_exit_handler).                                                    *)
OnlyLeaversDeleted ==
  [][\A t \in Tasks : state[t] # "DELETED" /\ state'[t] = "DELETED" =>
       t \in Leavers]_vars

(* What the kernel promises whatever its queues and lists are.             *)
Sharing == INSTANCE CpuSharing
             WITH running <- currentTask,
                  runnable <- {t \in Tasks : state[t] \in {"READY", "RUNNING"}}
SharesCpus == Sharing!Spec

(* A ready task of the highest priority that its harts know is dispatched  *)
(* again and again, in turn with the others of its level (round robin).    *)
Peers(t) == {u \in Tasks : Affinity[u] \cap Affinity[t] # {}}
TopTaskRuns ==
  \A t \in Tasks \ IdleTasks :
    (\A u \in Peers(t) : Level(Priority[u]) <= Level(Priority[t])) =>
      (state[t] = "READY" ~> \E c \in Cores : currentTask[c] = t)

(* A sleeper is made ready again. *)
SleeperWakes ==
  \A t \in Sleepers : state[t] = "BLOCKED" ~> state[t] = "READY"
=============================================================================
