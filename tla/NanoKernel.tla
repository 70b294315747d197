----------------------------- MODULE NanoKernel -----------------------------
(***************************************************************************)
(* The single-hart kernel of v0-nano: scheduler.c, delay.c, tick.c, task.c *)
(* and the timer and ecall paths of trap.c (v1-secure runs the same code   *)
(* in machine mode).  A critical section and a trap run with interrupts    *)
(* masked, so each is one step; between two steps of a task the timer may  *)
(* interrupt it and another task run.  NanoSemaphore, NanoMutex and        *)
(* NanoQueue extend this module with the blocking objects.                 *)
(***************************************************************************)
EXTENDS ReadyLists

CONSTANTS MaxTasks,      \* CONFIG_MAX_TASKS
          Idle,          \* g_idle_task
          BootTasks,     \* the tasks that demo_init creates before sched_start
          InitPriority,  \* the priority each task is created with
          Objects,       \* semaphores, mutexes or queues: those with wait queues
          Creators,      \* tasks whose code calls task_create
          Sleepers,      \* tasks whose code calls delay_ticks
          Suspends,      \* Suspends[t]: the tasks that the code of t suspends
          Resumes,       \* ... resumes
          Deletes,       \* ... deletes, t itself included when it may return
          Retunes,       \* ... gives another priority
          StopsBlocked,  \* whether a blocked task may be suspended or deleted
          MaxDelay       \* bound: the longest delay or timeout asked for

ASSUME NanoAssumption == /\ MaxPriority \in Nat \ {0} /\ MaxTasks \in Nat \ {0}
                         /\ Idle \in Tasks /\ Idle \notin BootTasks
                         /\ BootTasks \subseteq Tasks
                         /\ InitPriority \in [Tasks -> Nat]
                         /\ Objects \cap (Tasks \cup {Null}) = {}
                         /\ {Suspends, Resumes, Deletes, Retunes}
                              \subseteq [Tasks -> SUBSET Tasks]
                         /\ StopsBlocked \in BOOLEAN
                         /\ MaxDelay \in Nat

VARIABLES links,         \* the task lists (TaskLists)
          state,         \* tcb->state; "FREE" for a TCB never used
          priority,      \* tcb->priority
          basePriority,  \* tcb->base_priority
          ticksLeft,     \* tcb->wake_tick - g_tick_count, 0 once it is past
          wakeReason,    \* tcb->wake_reason
          currentTask,   \* g_current_task, Null before sched_start
          switchPending, \* g_switch_pending
          taskCount,     \* g_task_count
          pc,            \* where the code of each task is
          then,          \* where it goes on after the yield that blocks it
          obj            \* the object or task its call is about

listVars == <<links, state, priority, basePriority>>
schedVars == <<currentTask, switchPending, taskCount>>
timeVars == <<ticksLeft, wakeReason>>
callVars == <<pc, then, obj>>
kernelVars == <<listVars, schedVars, timeVars, callVars>>

Delayed == <<"delay", 0>>
WaitQueue(o) == <<"wait", o>>
ListNames == {Ready(p) : p \in Levels} \cup {Delayed} \cup {WaitQueue(o) : o \in Objects}
Empty == [head |-> [l \in ListNames |-> Null], next |-> [t \in Tasks |-> Null]]
States == {"FREE", "READY", "RUNNING", "BLOCKED", "SUSPENDED", "DELETED"}

(* Mutant: the task is not taken off its old queue. *)
AddedAgain(lk, pr, t) == AddReady(lk, pr, t)
(* "sched_remove_ready(task); sched_add_ready(task)" *)
Requeued(lk, pr, t) == AddReady(RemoveReady(lk, pr, t), pr, t)

(* Mutant: the search runs from level 0 up. *)
LowestFirst(lk) ==
  LET used == {p \in Levels : lk.head[Ready(p)] # Null}
  IN  IF used = {} THEN Idle ELSE lk.head[Ready(CHOOSE p \in used : \A q \in used : p <= q)]

(* select_next_task: it stays in its queue. *)
SelectNext(lk) ==
  LET used == {p \in Levels : lk.head[Ready(p)] # Null}
  IN  IF used = {} THEN Idle ELSE lk.head[Ready(CHOOSE p \in used : \A q \in used : q <= p)]

(* task_init creates the idle task at priority 0. *)
Init == /\ links = LinkLast(Empty, Ready(0), Idle)
        /\ state = [t \in Tasks |-> IF t = Idle THEN "READY" ELSE "FREE"]
        /\ priority = [t \in Tasks |-> IF t = Idle THEN 0 ELSE InitPriority[t]]
        /\ basePriority = priority
        /\ ticksLeft = [t \in Tasks |-> 0]
        /\ wakeReason = [t \in Tasks |-> "NONE"]
        /\ currentTask = Null
        /\ switchPending = FALSE
        /\ taskCount = 1
        /\ pc = [t \in Tasks |-> "run"]
        /\ then = [t \in Tasks |-> "run"]
        /\ obj = [t \in Tasks |-> Null]

(* The code of task t executes at the given place. *)
Executes(t, at) == currentTask = t /\ t # Idle /\ pc[t] = at

Goto(t, at) == pc' = [pc EXCEPT ![t] = at]

-----------------------------------------------------------------------------
(* Creation and start. *)

(* Mutant: "<=" instead of "<". *)
OneTooMany == taskCount <= MaxTasks
HasRoom == taskCount < MaxTasks

Creating == currentTask = Null \/ \E c \in Creators : Executes(c, "run")

(* task_create takes the TCB of a deleted task, or one never used, and     *)
(* clears its next wherever the task was still linked.                     *)
TaskCreate(t) ==
  /\ Creating /\ HasRoom
  /\ state[t] \in {"FREE", "DELETED"}
  /\ currentTask = Null => t \in BootTasks
  /\ taskCount' = taskCount + 1
  /\ priority' = [priority EXCEPT ![t] = InitPriority[t]]
  /\ basePriority' = [basePriority EXCEPT ![t] = InitPriority[t]]
  /\ state' = [state EXCEPT ![t] = "READY"]
  /\ links' = AddReady(SetNext(links, t, Null), priority', t)
  /\ ticksLeft' = [ticksLeft EXCEPT ![t] = 0]
  /\ wakeReason' = [wakeReason EXCEPT ![t] = "NONE"]
  /\ Goto(t, "run")
  /\ then' = [then EXCEPT ![t] = "run"]
  /\ obj' = [obj EXCEPT ![t] = Null]
  /\ UNCHANGED <<currentTask, switchPending>>

(* sched_start: the first task runs but is not taken off its ready queue. *)
SchedStart ==
  /\ currentTask = Null
  /\ \A t \in BootTasks : state[t] # "FREE"
  /\ currentTask' = SelectNext(links)
  /\ state' = [state EXCEPT ![SelectNext(links)] = "RUNNING"]
  /\ UNCHANGED <<links, priority, basePriority, switchPending, taskCount,
                 timeVars, callVars>>

-----------------------------------------------------------------------------
(* The traps. *)

(* Mutant: a preempted task is not queued again. *)
DropPreempted(lk, st) ==
  LET next == SelectNext(lk)
  IN  /\ links' = RemoveReady(lk, priority, next)
      /\ state' = [st EXCEPT ![next] = "RUNNING"]
      /\ currentTask' = next
      /\ switchPending' = FALSE

(* sched_schedule, with the lists lk and the task states st. *)
Schedule(lk, st) ==
  LET cur == currentTask
      requeue == st[cur] = "RUNNING"
  IN  \E queued \in {IF requeue THEN Requeued(lk, priority, cur)
                     ELSE lk} :
      \E next \in {SelectNext(queued)} :
        /\ links' = RemoveReady(queued, priority, next)
        /\ state' = [st EXCEPT ![cur] = IF requeue THEN "READY" ELSE @,
                               ![next] = "RUNNING"]
        /\ currentTask' = next
        /\ switchPending' = FALSE

(* "g_delay_list->wake_tick <= current_tick" *)
Expired(left) == left <= 0

(* delay_check_wakeups: expired tasks leave the head of the delay list and *)
(* are made ready, one after the other.                                    *)
CheckWakeups(left) ==
  LET wake[n \in 0..Cardinality(Tasks)] ==
        IF n = 0 THEN [links |-> links, woken |-> {}]
        ELSE LET k == wake[n - 1]
                 t == k.links.head[Delayed]
             IN  IF t = Null \/ ~Expired(left[t]) THEN k
                 ELSE [links |-> AddReady(Pop(k.links, Delayed), priority, t),
                       woken |-> k.woken \cup {t}]
  IN  wake[Cardinality(Tasks)]

(* The timer interrupt, in any task code: tick_increment, which requests a *)
(* switch, and the switch.                                                 *)
Tick ==
  /\ currentTask # Null
  /\ ticksLeft' = [t \in Tasks |-> IF ticksLeft[t] > 0 THEN ticksLeft[t] - 1 ELSE 0]
  /\ \E k \in {CheckWakeups(ticksLeft')} :
       /\ wakeReason' = [t \in Tasks |-> IF t \in k.woken THEN "TIMEOUT" ELSE wakeReason[t]]
       /\ Schedule(k.links, [t \in Tasks |-> IF t \in k.woken THEN "READY" ELSE state[t]])
  /\ UNCHANGED <<priority, basePriority, taskCount, callVars>>

(* task_yield requests the switch ... *)
TaskYield(t) == /\ Executes(t, "run") \/ Executes(t, "request")
                /\ switchPending' = TRUE
                /\ Goto(t, "ecall")
                /\ UNCHANGED <<listVars, currentTask, taskCount, timeVars, then, obj>>

(* ... and traps; the switch happens unless a tick came first. *)
Ecall(t) == /\ Executes(t, "ecall")
            /\ Goto(t, then[t])
            /\ then' = [then EXCEPT ![t] = "run"]
            /\ IF switchPending THEN Schedule(links, state)
               ELSE UNCHANGED <<links, state, currentTask, switchPending>>
            /\ UNCHANGED <<priority, basePriority, taskCount, timeVars, obj>>

-----------------------------------------------------------------------------
(* The calls of a task. *)

(* Mutant: the list is not kept sorted. *)
DelayUnsorted(lk, t, ticks) == LinkLast(lk, Delayed, t)
(* delay_add: behind the tasks that wake no later. *)
DelayAdd(lk, t, ticks) ==
  Insert(lk, Delayed, t, {u \in Tasks : ticksLeft[u] <= ticks})

(* delay_ticks *)
DelayTicks(t) ==
  /\ Executes(t, "run") /\ t \in Sleepers
  /\ \E ticks \in 1..MaxDelay :
       /\ links' = RemoveReady(DelayAdd(links, t, ticks), priority, t)
       /\ ticksLeft' = [ticksLeft EXCEPT ![t] = ticks]
  /\ wakeReason' = [wakeReason EXCEPT ![t] = "NONE"]
  /\ state' = [state EXCEPT ![t] = "BLOCKED"]
  /\ Goto(t, "request")
  /\ UNCHANGED <<priority, basePriority, schedVars, then, obj>>

(* task_suspend and task_delete, of t itself or of another task u. *)
Stop(t, u, newState) ==
  /\ Executes(t, "run")
  /\ state[u] \in {"READY", "RUNNING", "SUSPENDED"} \/ (StopsBlocked /\ state[u] = "BLOCKED")
  /\ links' = RemoveReady(links, priority, u)
  /\ state' = [state EXCEPT ![u] = newState]
  /\ Goto(t, IF u = t THEN "request" ELSE "run")
  /\ UNCHANGED <<priority, basePriority, schedVars, timeVars, then, obj>>

TaskSuspend(t) == \E u \in Suspends[t] : Stop(t, u, "SUSPENDED")
TaskDelete(t) == \E u \in Deletes[t] : Stop(t, u, "DELETED")

(* Mutant: everything but the running task is resumed. *)
ResumableAny(u) == state[u] # "RUNNING"
Resumable(u) == state[u] = "SUSPENDED"

(* task_resume tests the state before its critical section ... *)
TaskResume(t) == /\ Executes(t, "run")
                 /\ \E u \in Resumes[t] : /\ Resumable(u)
                                          /\ obj' = [obj EXCEPT ![t] = u]
                 /\ Goto(t, "resume")
                 /\ UNCHANGED <<listVars, schedVars, timeVars, then>>

(* ... that makes the task ready. *)
ResumeReady(t) == /\ Executes(t, "resume")
                  /\ links' = AddReady(links, priority, obj[t])
                  /\ state' = [state EXCEPT ![obj[t]] = "READY"]
                  /\ obj' = [obj EXCEPT ![t] = Null]
                  /\ Goto(t, "run")
                  /\ UNCHANGED <<priority, basePriority, schedVars, timeVars, then>>

(* task_set_priority *)
TaskSetPriority(t) ==
  /\ Executes(t, "run")
  /\ \E u \in Retunes[t], p \in Levels :
       /\ state[u] \notin {"FREE", "DELETED"}
       /\ priority' = [priority EXCEPT ![u] = p]
       /\ basePriority' = [basePriority EXCEPT ![u] = p]
       /\ links' = IF state[u] = "READY"
                     THEN Requeued(links, priority', u)
                     ELSE links
  /\ UNCHANGED <<state, schedVars, timeVars, callVars>>

KernelNext == \/ SchedStart \/ Tick
              \/ \E t \in Tasks :
                   \/ TaskCreate(t) \/ TaskYield(t) \/ Ecall(t) \/ DelayTicks(t)
                   \/ TaskSuspend(t) \/ TaskDelete(t) \/ TaskResume(t)
                   \/ ResumeReady(t) \/ TaskSetPriority(t)

KernelSpec == Init /\ [][KernelNext]_kernelVars

-----------------------------------------------------------------------------
(* Every variable of the kernel has its type. *)
KernelTypeOK ==
  /\ links \in [head : [ListNames -> Tasks \cup {Null}], next : [Tasks -> Tasks \cup {Null}]]
  /\ state \in [Tasks -> States]
  /\ priority \in [Tasks -> Nat] /\ basePriority \in [Tasks -> Nat]
  /\ ticksLeft \in [Tasks -> 0..MaxDelay]
  /\ wakeReason \in [Tasks -> {"NONE", "SIGNALED", "TIMEOUT"}]
  /\ currentTask \in Tasks \cup {Null}
  /\ switchPending \in BOOLEAN
  /\ taskCount \in 1..MaxTasks

(* No list is cyclic and no two lists share a task through its next:       *)
(* whatever order the calls and ticks came in, an operation on one list    *)
(* has not damaged another.                                                *)
ListsSound ==
  /\ \A l \in ListNames : Acyclic(links, l)
  /\ \A l, m \in ListNames : l # m =>
       \A t \in Tasks : ~(On(links, l, t) /\ On(links, m, t))

(* The ready queues hold the READY tasks, each at the level of its         *)
(* priority, and besides them only a running first task before its first   *)
(* switch: no runnable task is lost and no other one can be selected.      *)
ReadyExactlyQueued ==
  \A t \in Tasks :
    /\ state[t] = "READY" => On(links, Ready(Level(priority[t])), t)
    /\ \A p \in Levels : On(links, Ready(p), t) =>
         state[t] = "READY" \/ (state[t] = "RUNNING" /\ currentTask = t)
    /\ state[t] = "RUNNING" => currentTask = t

(* A task that sleeps in delay_ticks is in the delay list, which is sorted *)
(* and holds nobody whose tick has passed: it will be woken, and in time.  *)
SleepersAccounted ==
  /\ \A t \in Tasks :
       state[t] = "BLOCKED" /\ obj[t] = Null => On(links, Delayed, t)
  /\ LET s == Chain(links, Delayed)
     IN  \A i \in 1..Len(s) : /\ ticksLeft[s[i]] > 0
                              /\ i > 1 => ticksLeft[s[i - 1]] <= ticksLeft[s[i]]

(* A tick or a yield gives the hart to a task that may run, and leaves no  *)
(* READY task of a higher level behind (strict priority, preemptive).      *)
DispatchesBest ==
  [][Tick \/ (switchPending /\ \E t \in Tasks : Ecall(t)) =>
       /\ state[currentTask'] \in {"READY", "RUNNING", "BLOCKED"}
       /\ \A t \in Tasks : state'[t] = "READY" =>
            Level(priority'[t]) <= Level(priority'[currentTask'])]_kernelVars

(* A deleted task is gone: only task_create uses its TCB again.            *)
DeletedStays ==
  [][\A t \in Tasks : state[t] = "DELETED" /\ state'[t] # "DELETED" =>
       taskCount' = taskCount + 1]_kernelVars
=============================================================================
