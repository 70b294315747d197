------------------------ MODULE NanoSemaphoreProofs -------------------------
(***************************************************************************)
(* The semaphores of v0-nano, for any number of tasks, semaphores and      *)
(* tokens: when calls wait for ever (Timed = {}) and the tasks are used as *)
(* NanoKernelProofs asks, every waiter is where a signal finds it.  If no  *)
(* task changes the priority of another one, waiters of one priority are   *)
(* served in the order they came; if moreover no task is created once the  *)
(* scheduler runs, the semaphores implement CountingSemaphore.             *)
(***************************************************************************)
EXTENDS NanoSemaphore, NanoKernelProofs

-----------------------------------------------------------------------------
(* The invariant: who waits for a token is blocked, or has been signalled. *)
Inside(t) == InCall(t, "semCheck")
Waiting(t) == Awaits(t, "semCheck")

Counts == /\ count \in [Objects -> Nat]
          /\ \A s \in Objects : count[s] <= MaxCount[s]

SemInv == Sound /\ Counts /\ \A t \in Tasks : Waiting(t)

LEMMA CheckPlace == "semCheck" \in Places \ {"run", "request", "ecall", "resume"}
BY DEF Places

(* The calls of the others are not touched. *)
LEMMA WaitingKept ==
  ASSUME NEW t \in Tasks, Waiting(t), pc'[t] = pc[t], then'[t] = then[t], obj'[t] = obj[t],
         \/ state'[t] = state[t] /\ wakeReason'[t] = wakeReason[t]
         \/ state'[t] = "READY" /\ wakeReason'[t] = "SIGNALED"
  PROVE  Waiting(t)'
BY CheckPlace, AwaitsKept DEF Waiting

LEMMA KernelWaiting ==
  ASSUME SemInv, Disciplined, KernelNext, NEW t \in Tasks
  PROVE  Waiting(t)'
BY CheckPlace, KernelAwaits DEF SemInv, Sound, Waiting

-----------------------------------------------------------------------------
(* The calls. *)

LEMMA SemBlockKeeps ==
  ASSUME SemInv, NoTimeouts, NEW t \in Tasks, NEW s \in Objects, SemBlock(t, s)
  PROVE  /\ SemInv' /\ count[s] = 0 /\ Away(t)
         /\ pc' = [pc EXCEPT ![t] = "request"] /\ then' = [then EXCEPT ![t] = "semCheck"]
         /\ obj' = [obj EXCEPT ![t] = s] /\ state' = [state EXCEPT ![t] = "BLOCKED"]
         /\ UNCHANGED <<wakeReason, priority, count>> /\ state[t] = "RUNNING"
         /\ Longer(links', links, Apart, WaitQueue(s),
                   Passing(links, WaitQueue(s), {u \in Tasks : priority[u] >= priority[t]}), t)
<1>1. PICK x \in Tasks \cup {Null} : KernelInv(x)
  BY DEF SemInv, Sound
<1>2. Types /\ Calls /\ Fresh(x)
  BY <1>1 DEF KernelInv, Control
<1>3. /\ Executes(t, "run") /\ count[s] <= 0 /\ Block(t, links, priority, s, s, "semCheck")
      /\ UNCHANGED <<priority, basePriority, schedVars, count>>
  BY DEF SemBlock
<1>4. /\ pc' = [pc EXCEPT ![t] = "request"] /\ then' = [then EXCEPT ![t] = "semCheck"]
      /\ obj' = [obj EXCEPT ![t] = s] /\ state' = [state EXCEPT ![t] = "BLOCKED"]
      /\ UNCHANGED <<wakeReason, ticksLeft>>
  BY <1>3 DEF Block, Goto, timeVars, NoTimeouts
<1>5. /\ KernelInv(Null)'
      /\ Longer(links', links, Apart, WaitQueue(s),
                Passing(links, WaitQueue(s), {u \in Tasks : priority[u] >= priority[t]}), t)
  <2>1. /\ t \notin Timed /\ "run" \in Places \ {"request", "ecall"}
        /\ "semCheck" \in Places \ {"run", "request", "ecall", "resume"}
    BY DEF NoTimeouts, Places
  <2>2. /\ priority \in [Tasks -> Nat] /\ Others(links, links, Apart)
        /\ Housed(links, ListNames, Home(x, state, priority, obj))
        /\ x # Null => \A u \in Tasks \ {x} : Level(priority[u]) # Top(x)
    BY <1>1, <1>2 DEF Types, KernelTypeOK, Others, KernelInv, Fresh
  <2>3. priority' = priority /\ UNCHANGED <<basePriority, schedVars>>
    BY <1>3
  <2>4. QED BY <1>1, <1>3, <2>1, <2>2, <2>3, WaitKeeps
<1>6. state[t] = "RUNNING" /\ Away(t)
  BY <1>1, <1>2, <1>3, ExecutesRunning DEF Executes, Calls, Away
<1>7. ASSUME NEW u \in Tasks PROVE Waiting(u)'
  <2>1. CASE u = t
    BY <1>2, <1>4, <2>1 DEF Waiting, Awaits, Inside, InCall, Types, KernelTypeOK
  <2>2. CASE u # t
    <3>1. /\ pc'[u] = pc[u] /\ then'[u] = then[u] /\ obj'[u] = obj[u]
          /\ state'[u] = state[u] /\ wakeReason'[u] = wakeReason[u]
      BY <1>2, <1>4, <2>2 DEF Types, KernelTypeOK
    <3>2. QED BY <3>1, WaitingKept DEF SemInv
  <2>3. QED BY <2>1, <2>2
<1>8. Counts' /\ count[s] = 0
  BY <1>3 DEF SemInv, Counts
<1>9. Sound'
  BY <1>5 DEF Sound
<1>10. QED BY <1>3, <1>4, <1>5, <1>6, <1>7, <1>8, <1>9 DEF SemInv

LEMMA SemCheckKeeps ==
  ASSUME SemInv, NEW t \in Tasks, SemCheck(t)
  PROVE  /\ SemInv' /\ links' = links /\ Inside(t) /\ state[t] = "RUNNING"
         /\ pc' = [pc EXCEPT ![t] = "run"] /\ then[t] = "run"
         /\ obj' = [obj EXCEPT ![t] = Null]
         /\ UNCHANGED <<state, priority, then, wakeReason, count>>
<1>1. PICK x \in Tasks \cup {Null} : KernelInv(x)
  BY DEF SemInv, Sound
<1>2. Types /\ Calls
  BY <1>1 DEF KernelInv, Control
<1>3. /\ Executes(t, "semCheck") /\ LeaveQueue(t, obj[t], wakeReason[t] = "TIMEOUT")
      /\ obj' = [obj EXCEPT ![t] = Null] /\ pc' = [pc EXCEPT ![t] = "run"]
      /\ UNCHANGED <<state, priority, basePriority, currentTask, switchPending, taskCount,
                     ticksLeft, wakeReason, then, count>>
  BY DEF SemCheck, Goto, schedVars, timeVars
<1>4. "semCheck" \in Places \ {"request", "ecall"}
  BY DEF Places
<1>5. /\ state[t] = "RUNNING" /\ pc[t] = "semCheck" /\ then[t] = "run"
      /\ Inside(t) /\ obj[t] \in Objects
  <2>1. state[t] = "RUNNING" /\ pc[t] = "semCheck"
    BY <1>1, <1>3, <1>4, ExecutesRunning
  <2>2. QED BY <1>2, <2>1 DEF SemInv, Waiting, Awaits, Inside, InCall, Calls
<1>6. links' = links
  BY <1>1, <1>3, <1>5, LeaveNothing
<1>7. KernelInv(x)'
  <2>1. Housed(links', ListNames, Home(x, state', priority', obj'))
    <3>1. \A u \in Tasks \ {t} : obj[u] = obj'[u] /\ priority[u] = priority[u]
      BY <1>2, <1>3 DEF Types
    <3>2. Home(x, state, priority, obj) = Home(x, state, priority, obj')
      BY <1>5, <3>1, HomeOfCaller
    <3>3. QED BY <1>1, <1>3, <1>6, <3>2 DEF KernelInv
  <2>2. /\ pc' \in [Tasks -> Places] /\ then' \in [Tasks -> Places]
        /\ obj' \in [Tasks -> Objects \cup Tasks \cup {Null}]
    BY <1>2, <1>3 DEF Types, Places
  <2>3. /\ \A u \in Tasks \ {t} : pc'[u] = pc[u] /\ then'[u] = then[u] /\ obj'[u] = obj[u]
        /\ pc'[t] = "run" /\ obj'[t] = Null /\ then'[t] = "run"
    BY <1>2, <1>3, <1>5 DEF Types
  <2>4. /\ state' \in [Tasks -> States] /\ priority' \in [Tasks -> Nat]
        /\ wakeReason' \in [Tasks -> {"NONE", "SIGNALED", "TIMEOUT"}]
        /\ switchPending' \in BOOLEAN
        /\ \A u \in Tasks : state'[u] = state[u] /\ priority'[u] = priority[u]
        /\ Chain(links', Delayed) = Chain(links, Delayed)
        /\ UNCHANGED <<basePriority, ticksLeft, currentTask, taskCount>>
    BY <1>2, <1>3, <1>6 DEF Types, KernelTypeOK
  <2>5. QED BY <1>1, <1>3, <1>4, <2>1, <2>2, <2>3, <2>4, CallKeeps
<1>8. ASSUME NEW u \in Tasks PROVE Waiting(u)'
  <2>1. CASE u = t
    BY <1>2, <1>3, <1>5, <2>1, NanoAssumption DEF Waiting, Awaits, Inside, InCall, Away, Types, KernelTypeOK
  <2>2. CASE u # t
    <3>1. /\ pc'[u] = pc[u] /\ then'[u] = then[u] /\ obj'[u] = obj[u]
          /\ state'[u] = state[u] /\ wakeReason'[u] = wakeReason[u]
      BY <1>2, <1>3, <2>2 DEF Types
    <3>2. QED BY <3>1, WaitingKept DEF SemInv
  <2>3. QED BY <2>1, <2>2
<1>9. Sound' /\ Counts'
  BY <1>1, <1>3, <1>7 DEF Sound, SemInv, Counts
<1>10. QED BY <1>3, <1>5, <1>6, <1>8, <1>9 DEF SemInv

(* sem_signal when somebody waits. *)
LEMMA GrantKeeps ==
  ASSUME SemInv, NEW t \in Tasks, NEW s \in Objects, SemSignal(t, s), Signal(s)
  PROVE  /\ SemInv' /\ Shorter(links', links, Apart, WaitQueue(s), 1)
         /\ Len(Chain(links, WaitQueue(s))) > 0
         /\ FirstWaiter(s) \in Tasks /\ FirstWaiter(s) = Chain(links, WaitQueue(s))[1]
         /\ Inside(FirstWaiter(s)) /\ obj[FirstWaiter(s)] = s
         /\ state[FirstWaiter(s)] = "BLOCKED"
         /\ state' = [state EXCEPT ![FirstWaiter(s)] = "READY"]
         /\ wakeReason' = [wakeReason EXCEPT ![FirstWaiter(s)] = "SIGNALED"]
         /\ UNCHANGED <<pc, then, obj, priority, count>>
<1> DEFINE w == FirstWaiter(s)
<1>1. PICK x \in Tasks \cup {Null} : KernelInv(x)
  BY DEF SemInv, Sound
<1>2. Types /\ Calls
  BY <1>1 DEF KernelInv, Control
<1>3. /\ Executes(t, "run") /\ state' = [state EXCEPT ![w] = "READY"]
      /\ wakeReason' = [wakeReason EXCEPT ![w] = "SIGNALED"] /\ switchPending' = TRUE
      /\ w # Null
      /\ UNCHANGED <<priority, basePriority, ticksLeft, currentTask, taskCount, pc, then, obj>>
  BY DEF SemSignal, Signal, callVars
<1>4. /\ x = Null /\ w \in Tasks /\ state[w] = "BLOCKED" /\ obj[w] = s
      /\ Len(Chain(links, WaitQueue(s))) > 0 /\ w = Chain(links, WaitQueue(s))[1]
      /\ Housed(links', ListNames, Home(Null, state', priority, obj))
      /\ Shorter(links', links, Apart, WaitQueue(s), 1)
  BY <1>1, SignalHouses
<1>5. UNCHANGED count
  BY <1>3 DEF SemSignal
<1>6. KernelInv(Null)'
  <2>1. "run" \in Places \ {"request", "ecall"} /\ Null \in {x, Null}
    BY DEF Places
  <2>2. Chain(links', Delayed) = Chain(links, Delayed)
    BY <1>4, Names DEF Shorter, Others, Apart
  <2>3. /\ state' \in [Tasks -> States] /\ switchPending' \in BOOLEAN
        /\ wakeReason' \in [Tasks -> {"NONE", "SIGNALED", "TIMEOUT"}]
        /\ \A u \in Tasks : state'[u] # state[u] => state[u] = "BLOCKED" /\ state'[u] = "READY"
    BY <1>2, <1>3, <1>4 DEF Types, KernelTypeOK, States
  <2>4. /\ pc' \in [Tasks -> Places] /\ then' \in [Tasks -> Places]
        /\ obj' \in [Tasks -> Objects \cup Tasks \cup {Null}] /\ priority' \in [Tasks -> Nat]
        /\ \A u \in Tasks : /\ pc'[u] = pc[u] /\ then'[u] = then[u] /\ obj'[u] = obj[u]
                            /\ priority'[u] = priority[u]
    BY <1>2, <1>3 DEF Types, KernelTypeOK
  <2>5. pc'[t] = "run" /\ then'[t] = "run" /\ obj'[t] = Null
    BY <1>2, <1>3 DEF Executes, Calls
  <2>6. Housed(links', ListNames, Home(Null, state', priority', obj'))
    BY <1>3, <1>4
  <2>7. UNCHANGED <<basePriority, ticksLeft, currentTask, taskCount>>
    BY <1>3
  <2>8. QED BY <1>1, <1>3, <2>1, <2>2, <2>3, <2>4, <2>5, <2>6, <2>7, CallKeeps
<1>7. ASSUME NEW u \in Tasks PROVE Waiting(u)'
  <2>1. /\ pc'[u] = pc[u] /\ then'[u] = then[u] /\ obj'[u] = obj[u]
        /\ \/ state'[u] = state[u] /\ wakeReason'[u] = wakeReason[u]
           \/ state'[u] = "READY" /\ wakeReason'[u] = "SIGNALED"
    BY <1>2, <1>3, <1>4 DEF Types, KernelTypeOK
  <2>2. QED BY <2>1, WaitingKept DEF SemInv
<1>8. Sound' /\ Counts'
  BY <1>5, <1>6 DEF Sound, SemInv, Counts
<1>9. Inside(w)
  BY <1>4 DEF SemInv, Waiting, Awaits, Inside
<1>10. QED BY <1>3, <1>4, <1>5, <1>7, <1>8, <1>9 DEF SemInv

(* The calls that leave the kernel alone. *)
LEMMA TokenKeeps ==
  ASSUME SemInv, UNCHANGED kernelVars, Counts'
  PROVE  SemInv'
<1>1. PICK x \in Tasks \cup {Null} : KernelInv(x)
  BY DEF SemInv, Sound
<1>2. KernelInv(x)'
  BY <1>1, StutterKeeps DEF Keeps
<1>3. ASSUME NEW u \in Tasks PROVE Waiting(u)'
  BY WaitingKept DEF SemInv, kernelVars, listVars, timeVars, callVars
<1>4. QED BY <1>2, <1>3 DEF SemInv, Sound

LEMMA TakeCounts ==
  ASSUME Counts, NEW t \in Tasks, NEW s \in Objects, SemTake(t, s)
  PROVE  Counts' /\ count[s] > 0 /\ count' = [count EXCEPT ![s] = @ - 1]
<1>1. count[s] > 0 /\ count' = [count EXCEPT ![s] = @ - 1]
  BY DEF SemTake
<1>2. count \in [Objects -> Nat] /\ MaxCount \in [Objects -> Nat]
      /\ \A o \in Objects : count[o] <= MaxCount[o]
  BY SemaphoreAssumption DEF Counts
<1>3. count[s] \in Nat /\ count[s] - 1 \in Nat /\ MaxCount[s] \in Nat /\ count[s] - 1 <= MaxCount[s]
  BY <1>1, <1>2
<1>4. QED BY <1>1, <1>2, <1>3 DEF Counts

LEMMA FreeCounts ==
  ASSUME Counts, NEW t \in Tasks, NEW s \in Objects, SemSignal(t, s), ~Signal(s)
  PROVE  /\ Counts' /\ UNCHANGED kernelVars /\ FirstWaiter(s) = Null
         /\ UNCHANGED count \/ (count[s] < MaxCount[s] /\ count' = [count EXCEPT ![s] = @ + 1])
<1>1. /\ FirstWaiter(s) = Null /\ count' = [count EXCEPT ![s] = RaisedCount(@, s)]
      /\ UNCHANGED kernelVars
  BY DEF SemSignal, kernelVars, listVars, schedVars, timeVars
<1>2. count \in [Objects -> Nat] /\ MaxCount \in [Objects -> Nat]
      /\ \A o \in Objects : count[o] <= MaxCount[o]
  BY SemaphoreAssumption DEF Counts
<1>3. CASE count[s] < MaxCount[s]
  <2>1. count' = [count EXCEPT ![s] = @ + 1]
    BY <1>1, <1>3 DEF RaisedCount
  <2>2. count[s] \in Nat /\ MaxCount[s] \in Nat /\ count[s] + 1 <= MaxCount[s]
    BY <1>2, <1>3
  <2>3. Counts'
    BY <1>2, <2>1, <2>2 DEF Counts
  <2>4. QED BY <1>1, <1>3, <2>1, <2>3
<1>4. CASE ~(count[s] < MaxCount[s])
  <2>1. count' = count
    BY <1>1, <1>2, <1>4 DEF RaisedCount
  <2>2. QED BY <1>1, <1>2, <2>1 DEF Counts
<1>5. QED BY <1>3, <1>4

-----------------------------------------------------------------------------
(* The theorems. *)

LEMMA SemInitSound == SemInit => SemInv
<1> SUFFICES ASSUME SemInit PROVE SemInv
  OBVIOUS
<1>1. Sound
  BY InitSound DEF SemInit, Sound
<1>2. Counts
  BY SemaphoreAssumption DEF SemInit, Counts
<1>3. \A t \in Tasks : Waiting(t)
  BY DEF SemInit, Init, Waiting, Awaits, Inside, InCall, Away
<1>4. QED BY <1>1, <1>2, <1>3 DEF SemInv

LEMMA SemStep ==
  ASSUME SemInv, Disciplined, NoTimeouts, [SemNext]_vars PROVE SemInv'
<1>1. CASE KernelNext /\ UNCHANGED count
  <2>1. Sound'
    BY <1>1, StepSound DEF SemInv
  <2>2. \A t \in Tasks : Waiting(t)'
    BY <1>1, KernelWaiting
  <2>3. QED BY <1>1, <2>1, <2>2 DEF SemInv, Counts
<1>2. ASSUME NEW t \in Tasks, SemCheck(t) PROVE SemInv'
  BY <1>2, SemCheckKeeps
<1>3. ASSUME NEW t \in Tasks, NEW s \in Objects, SemTake(t, s) PROVE SemInv'
  BY <1>3, TakeCounts, TokenKeeps DEF SemTake, SemInv
<1>4. ASSUME NEW t \in Tasks, NEW s \in Objects, SemBlock(t, s) PROVE SemInv'
  BY <1>4, SemBlockKeeps
<1>5. ASSUME NEW t \in Tasks, NEW s \in Objects, SemSignal(t, s) PROVE SemInv'
  <2>1. CASE Signal(s)
    BY <1>5, <2>1, GrantKeeps
  <2>2. CASE ~Signal(s)
    BY <1>5, <2>2, FreeCounts, TokenKeeps DEF SemInv
  <2>3. QED BY <2>1, <2>2
<1>6. CASE UNCHANGED vars
  BY <1>6, TokenKeeps DEF vars, SemInv, Counts
<1>7. QED BY <1>1, <1>2, <1>3, <1>4, <1>5, <1>6 DEF SemNext

(* The invariant of the semaphores and of the kernel below them. *)
LEMMA SemaphoresSound == ASSUME Disciplined, NoTimeouts PROVE SemSpec => []SemInv
<1>1. SemInit => SemInv
  BY SemInitSound
<1>2. SemInv /\ [SemNext]_vars => SemInv'
  BY SemStep
<1>3. QED BY <1>1, <1>2, PTL DEF SemSpec

(* A task blocked in sem_wait is in the wait queue of its semaphore, where *)
(* sem_signal looks, and nobody else is (waitqueue_add, waitqueue_pop).    *)
THEOREM SemaphoreWaitersQueued ==
  ASSUME Disciplined, NoTimeouts PROVE SemSpec => []WaitersQueued
<1>1. SemInv => WaitersQueued
  BY SoundWaiters DEF SemInv
<1>2. QED BY <1>1, SemaphoresSound, PTL

-----------------------------------------------------------------------------
(* Waiters are served by priority, and in the order they came. *)

LEMMA OrderedStep ==
  ASSUME SemInv, Ordered(links, priority), Disciplined, NoTimeouts, OwnPriority, [SemNext]_vars
  PROVE  Ordered(links', priority')
<1>1. PICK x \in Tasks \cup {Null} : KernelInv(x)
  BY DEF SemInv, Sound
<1>2. CASE KernelNext
  <2>1. Others(links', links, WaitNames)
    BY <1>1, <1>2, KernelStep DEF Goes, Keeps
  <2>2. \A t \in Tasks : state[t] = "BLOCKED" => priority'[t] = priority[t]
    BY <1>1, <1>2, PriorityKept DEF OwnPriority
  <2>3. QED BY <1>1, <2>1, <2>2, OrderedKept
<1>3. ASSUME NEW t \in Tasks, SemCheck(t) PROVE Ordered(links', priority')
  BY <1>3, SemCheckKeeps
<1>4. ASSUME NEW t \in Tasks, NEW s \in Objects, SemBlock(t, s) PROVE Ordered(links', priority')
  <2>1. /\ state[t] = "RUNNING" /\ priority' = priority /\ priority \in [Tasks -> Nat]
        /\ Longer(links', links, Apart, WaitQueue(s),
                  Passing(links, WaitQueue(s), {u \in Tasks : priority[u] >= priority[t]}), t)
    BY <1>1, <1>4, SemBlockKeeps DEF KernelInv, Types, KernelTypeOK
  <2>2. QED BY <1>1, <2>1, OrderedWait
<1>5. ASSUME NEW t \in Tasks, NEW s \in Objects, SemSignal(t, s) PROVE Ordered(links', priority')
  <2>1. CASE Signal(s)
    <3>1. /\ Shorter(links', links, Apart, WaitQueue(s), 1) /\ priority' = priority
          /\ Len(Chain(links, WaitQueue(s))) > 0
      BY <1>5, <2>1, GrantKeeps
    <3>2. QED BY <1>1, <3>1, OrderedSignal
  <2>2. CASE ~Signal(s)
    BY <1>5, <2>2, FreeCounts DEF SemInv, kernelVars, listVars
  <2>3. QED BY <2>1, <2>2
<1>6. CASE UNCHANGED kernelVars
  BY <1>6 DEF kernelVars, listVars
<1>7. QED BY <1>2, <1>3, <1>4, <1>5, <1>6 DEF SemNext, SemTake, vars

InOrder == SemInv /\ Ordered(links, priority)

LEMMA SemaphoresOrdered ==
  ASSUME Disciplined, NoTimeouts, OwnPriority PROVE SemSpec => []InOrder
<1>1. SemInit => InOrder
  <2> SUFFICES ASSUME SemInit PROVE InOrder
    OBVIOUS
  <2>1. SemInv
    BY SemInitSound
  <2>2. PICK x \in Tasks \cup {Null} : KernelInv(x)
    BY <2>1 DEF SemInv, Sound
  <2>3. ASSUME NEW o \in Objects PROVE Len(Chain(links, WaitQueue(o))) = 0
    <3>1. /\ Len(Chain(links, WaitQueue(o))) \in Nat
          /\ \A i \in 1..Len(Chain(links, WaitQueue(o))) : Chain(links, WaitQueue(o))[i] \in Tasks
      BY <2>2, Names, HousedList DEF KernelInv
    <3>2. \A t \in Tasks : state[t] # "BLOCKED"
      BY DEF SemInit, Init
    <3>3. \A t \in Tasks : ~On(links, WaitQueue(o), t)
      BY <2>1, <3>2, SoundWaiters DEF SemInv, WaitersQueued
    <3>4. QED BY <3>1, <3>3 DEF On
  <2>4. Ordered(links, priority)
    BY <2>3 DEF Ordered, Ascending
  <2>5. QED BY <2>1, <2>4 DEF InOrder
<1>2. InOrder /\ [SemNext]_vars => InOrder'
  BY SemStep, OrderedStep DEF InOrder
<1>3. QED BY <1>1, <1>2, PTL DEF SemSpec

(* A task that joins a wait queue gets in front of nobody of its priority. *)
LEMMA JoinsBehind ==
  ASSUME NEW x \in Tasks \cup {Null}, KernelInv(x), Ordered(links, priority),
         NEW o \in Objects, NEW v \in Tasks, state[v] = "RUNNING",
         Longer(links', links, Apart, WaitQueue(o),
                Passing(links, WaitQueue(o), {w \in Tasks : priority[w] >= priority[v]}), v),
         NEW t \in Tasks, NEW u \in Tasks, priority[t] = priority[u],
         On(links, WaitQueue(o), t), Ahead(links', o, u, t)
  PROVE  Ahead(links, o, u, t)
<1> DEFINE s == Chain(links, WaitQueue(o))
           passed == {w \in Tasks : priority[w] >= priority[v]}
           n == Passing(links, WaitQueue(o), passed)
           r == Inserted(s, n, v)
<1>1. Housed(links, ListNames, Home(x, state, priority, obj)) /\ WaitQueue(o) \in ListNames
      /\ priority \in [Tasks -> Nat]
  BY Names DEF KernelInv, Types, KernelTypeOK
<1>2. s \in Seq(Tasks) /\ Len(s) \in Nat /\ \A i \in 1..Len(s) : s[i] \in Tasks
  BY <1>1, HousedList
<1>3. n \in 0..Len(s) /\ (n < Len(s) => s[n + 1] \notin passed)
  <2> HIDE DEF passed
  <2>1. QED BY <1>1, PassingPlace
<1>4. state[t] = "BLOCKED"
  BY SoundWaiters DEF Sound, WaitersQueued
<1>5. Chain(links', WaitQueue(o)) = r
  BY DEF Longer
<1>6. Ascending(s, Urgency(priority))
  BY DEF Ordered
<1> HIDE DEF s, n
<1>7. /\ Len(r) = Len(s) + 1 /\ r[n + 1] = v
      /\ \A j \in 1..n : r[j] = s[j]
      /\ \A j \in n + 1..Len(s) : r[j + 1] = s[j]
  <2>1. /\ r \in Seq(Tasks)
        /\ Len(r) = Len(s) + 1
        /\ \A j \in 1..n : r[j] = s[j]
        /\ r[n + 1] = v
        /\ \A j \in n + 1..Len(s) : r[j + 1] = s[j]
        /\ \A w \in Tasks : Member(r, w) <=> w = v \/ Member(s, w)
    <3>1. s \in Seq(Tasks)
      BY <1>2
    <3>2. n \in 0..Len(s)
      BY <1>3
    <3>3. QED BY <3>1, <3>2, InsertedShape, Zenon
  <2>2. QED BY <2>1
<1> HIDE DEF r
<1>8. PICK i, j \in 1..Len(r) : i < j /\ r[i] = u /\ r[j] = t
  BY <1>5 DEF Ahead
<1>9. j # n + 1
  BY <1>4, <1>7, <1>8
<1>10. CASE i <= n
  <2>1. i \in 1..Len(s) /\ s[i] = u
    BY <1>2, <1>3, <1>7, <1>8, <1>10
  <2>2. CASE j <= n
    <3>1. j \in 1..Len(s) /\ s[j] = t
      BY <1>2, <1>3, <1>7, <1>8, <2>2
    <3>2. QED BY <1>8, <2>1, <3>1 DEF Ahead, s
  <2>3. CASE j > n + 1
    <3>1. j - 1 \in n + 1..Len(s) /\ j - 1 \in 1..Len(s) /\ (j - 1) + 1 = j /\ i < j - 1
      BY <1>2, <1>3, <1>7, <1>8, <1>10, <2>3
    <3>2. s[j - 1] = t
      BY <1>7, <1>8, <3>1
    <3>3. QED BY <2>1, <3>1, <3>2 DEF Ahead, s
  <2>4. QED BY <1>3, <1>8, <1>9, <2>2, <2>3
<1>11. CASE i > n
  <2>1. j - 1 \in n + 1..Len(s) /\ j - 1 \in 1..Len(s) /\ (j - 1) + 1 = j /\ i - 1 < j - 1
        /\ n < Len(s) /\ n + 1 \in 1..Len(s)
    BY <1>2, <1>3, <1>7, <1>8, <1>11
  <2>2. s[j - 1] = t
    BY <1>7, <1>8, <2>1
  <2>3. CASE i = n + 1
    <3>1. u = v /\ ~(priority[s[n + 1]] >= priority[v])
      BY <1>2, <1>3, <1>7, <1>8, <2>1, <2>3
    <3>2. n + 1 = j - 1 \/ n + 1 < j - 1
      BY <1>3, <2>1
    <3>3. Urgency(priority)[s[n + 1]] <= Urgency(priority)[t]
      <4>1. CASE n + 1 = j - 1
        BY <1>1, <2>1, <2>2, <4>1 DEF Urgency
      <4>2. CASE n + 1 < j - 1
        BY <1>6, <2>1, <2>2, <4>2 DEF Ascending
      <4>3. QED BY <3>2, <4>1, <4>2
    <3>4. priority[t] <= priority[s[n + 1]]
      <4>1. \A w \in Tasks : Urgency(priority)[w] = 0 - priority[w] /\ priority[w] \in Nat
        BY <1>1 DEF Urgency
      <4>2. s[n + 1] \in Tasks
        BY <1>2, <2>1
      <4>3. QED BY <3>3, <4>1, <4>2
    <3>5. QED BY <1>1, <1>2, <2>1, <3>1, <3>4
  <2>4. CASE i > n + 1
    <3>1. i - 1 \in n + 1..Len(s) /\ i - 1 \in 1..Len(s) /\ (i - 1) + 1 = i
      BY <1>2, <1>3, <1>7, <1>8, <2>1, <2>4
    <3>2. s[i - 1] = u
      BY <1>7, <1>8, <3>1
    <3>3. QED BY <2>1, <2>2, <3>1, <3>2 DEF Ahead, s
  <2>5. QED BY <1>3, <1>8, <1>11, <2>3, <2>4
<1>12. QED BY <1>3, <1>8, <1>10, <1>11

(* Nor does anybody when the first one leaves. *)
LEMMA LeavesOrder ==
  ASSUME NEW x \in Tasks \cup {Null}, KernelInv(x), NEW o \in Objects,
         Shorter(links', links, Apart, WaitQueue(o), 1), Len(Chain(links, WaitQueue(o))) > 0,
         NEW t, NEW u, Ahead(links', o, u, t)
  PROVE  Ahead(links, o, u, t)
<1> DEFINE s == Chain(links, WaitQueue(o))
           r == Without(s, 1)
<1>1. Housed(links, ListNames, Home(x, state, priority, obj)) /\ WaitQueue(o) \in ListNames
  BY Names DEF KernelInv
<1>2. s \in Seq(Tasks) /\ Len(s) \in Nat /\ NoTwice(s) /\ 1 \in 1..Len(s)
  BY <1>1, HousedList
<1>3. Chain(links', WaitQueue(o)) = r
  BY DEF Shorter
<1> HIDE DEF s
<1>4. Len(r) = Len(s) - 1 /\ \A j \in 1..Len(s) - 1 : r[j] = s[j + 1]
  BY <1>2, WithoutShape
<1> HIDE DEF r
<1>5. PICK i, j \in 1..Len(r) : i < j /\ r[i] = u /\ r[j] = t
  BY <1>3 DEF Ahead
<1>6. /\ i + 1 \in 1..Len(s) /\ j + 1 \in 1..Len(s) /\ i + 1 < j + 1
      /\ s[i + 1] = u /\ s[j + 1] = t
  BY <1>2, <1>4, <1>5
<1>7. QED BY <1>6 DEF Ahead, s

LEMMA StepKeepsOrder ==
  ASSUME InOrder, Disciplined, NoTimeouts, SemNext,
         NEW o \in Objects, NEW t \in Tasks, NEW u \in Tasks, priority[t] = priority[u],
         On(links, WaitQueue(o), t), Ahead(links', o, u, t)
  PROVE  Ahead(links, o, u, t)
<1>1. PICK x \in Tasks \cup {Null} : KernelInv(x)
  BY DEF InOrder, SemInv, Sound
<1>2. SemInv /\ Ordered(links, priority)
  BY DEF InOrder
<1>3. CASE Chain(links', WaitQueue(o)) = Chain(links, WaitQueue(o))
  BY <1>3 DEF Ahead
<1>4. CASE KernelNext
  <2>1. Others(links', links, WaitNames)
    BY <1>1, <1>4, KernelStep DEF Goes, Keeps
  <2>2. QED BY <1>3, <2>1 DEF Others, WaitNames
<1>5. ASSUME NEW v \in Tasks, SemCheck(v) PROVE Ahead(links, o, u, t)
  BY <1>2, <1>3, <1>5, SemCheckKeeps
<1>6. ASSUME NEW v \in Tasks, NEW s \in Objects, SemTake(v, s) PROVE Ahead(links, o, u, t)
  BY <1>3, <1>6 DEF SemTake, kernelVars, listVars
<1>7. ASSUME NEW v \in Tasks, NEW s \in Objects, SemBlock(v, s) PROVE Ahead(links, o, u, t)
  <2>1. /\ state[v] = "RUNNING"
        /\ Longer(links', links, Apart, WaitQueue(s),
                  Passing(links, WaitQueue(s), {w \in Tasks : priority[w] >= priority[v]}), v)
    BY <1>2, <1>7, SemBlockKeeps
  <2>2. CASE s = o
    BY <1>1, <1>2, <2>1, <2>2, JoinsBehind
  <2>3. CASE s # o
    BY <1>3, <2>1, <2>3, Names DEF Longer, Others, Apart, WaitNames
  <2>4. QED BY <2>2, <2>3
<1>8. ASSUME NEW v \in Tasks, NEW s \in Objects, SemSignal(v, s) PROVE Ahead(links, o, u, t)
  <2>1. CASE Signal(s)
    <3>1. /\ Shorter(links', links, Apart, WaitQueue(s), 1)
          /\ Len(Chain(links, WaitQueue(s))) > 0
      BY <1>2, <1>8, <2>1, GrantKeeps
    <3>2. CASE s = o
      BY <1>1, <3>1, <3>2, LeavesOrder
    <3>3. CASE s # o
      BY <1>3, <3>1, <3>3, Names DEF Shorter, Others, Apart, WaitNames
    <3>4. QED BY <3>2, <3>3
  <2>2. CASE ~Signal(s)
    BY <1>2, <1>3, <1>8, <2>2, FreeCounts DEF SemInv, kernelVars, listVars
  <2>3. QED BY <2>1, <2>2
<1>9. QED BY <1>4, <1>5, <1>6, <1>7, <1>8 DEF SemNext

(* Nobody who comes to a semaphore later gets in front of a waiter of his  *)
(* priority, whatever wakes, stops or resumes the others (waitqueue_add).  *)
THEOREM WaitersInOrder ==
  ASSUME Disciplined, NoTimeouts, OwnPriority PROVE SemSpec => NotOvertaken
<1>1. InOrder /\ [SemNext]_vars =>
        [\A o \in Objects, t, u \in Tasks :
           t # u /\ priority[t] = priority[u] /\ On(links, WaitQueue(o), t)
             /\ ~Ahead(links, o, u, t) => ~Ahead(links', o, u, t)]_kernelVars
  BY StepKeepsOrder DEF vars
<1>2. QED BY <1>1, SemaphoresOrdered, PTL DEF SemSpec, NotOvertaken

-----------------------------------------------------------------------------
(* The refinement: who waits is inside a call and blocked, who was granted *)
(* a token is inside a call and not blocked.                               *)

In(s) == {t \in Tasks : Inside(t) /\ obj[t] = s}
Blocked(s) == {t \in In(s) : state[t] = "BLOCKED"}
Waiters == [s \in Objects |-> Blocked(s)]
Given == [s \in Objects |-> In(s) \ Blocked(s)]

LEMMA Mapping ==
  ASSUME SemInv
  PROVE  /\ [s \in Objects |-> InWait(s) \ Granted(s)] = Waiters
         /\ [s \in Objects |-> Granted(s)] = Given
<1>1. ASSUME NEW s \in Objects
      PROVE  InWait(s) \ Granted(s) = Blocked(s) /\ Granted(s) = In(s) \ Blocked(s)
  <2>1. InWait(s) = In(s)
    BY DEF InWait, In, Inside, InCall
  <2>2. \A t \in In(s) : state[t] # "BLOCKED" => wakeReason[t] = "SIGNALED"
    BY DEF SemInv, Waiting, Awaits, Inside, In
  <2>3. Granted(s) = {t \in In(s) : state[t] # "BLOCKED" /\ wakeReason[t] = "SIGNALED"}
    BY <2>1 DEF Granted
  <2>4. Granted(s) = In(s) \ Blocked(s)
    BY <2>2, <2>3 DEF Blocked
  <2>5. QED BY <2>1, <2>4 DEF Blocked
<1>2. QED BY <1>1 DEF Waiters, Given

(* When no task has entered or left a call, or was woken in one.           *)
LEMMA SameWaiters ==
  ASSUME \A t \in Tasks : /\ Inside(t)' <=> Inside(t)
                          /\ Inside(t) => /\ obj'[t] = obj[t]
                                          /\ state'[t] = "BLOCKED" <=> state[t] = "BLOCKED"
  PROVE  Waiters' = Waiters /\ Given' = Given
<1>1. ASSUME NEW s \in Objects PROVE In(s)' = In(s) /\ Blocked(s)' = Blocked(s)
  <2>1. In(s)' = In(s)
    BY DEF In
  <2>2. \A t \in In(s) : state'[t] = "BLOCKED" <=> state[t] = "BLOCKED"
    BY DEF In
  <2>3. QED BY <2>1, <2>2 DEF Blocked
<1>2. QED BY <1>1 DEF Waiters, Given

(* When task t alone has.                                                  *)
LEMMA OneMoves ==
  ASSUME NEW t \in Tasks, NEW s \in Objects,
         Inside(t) => obj[t] = s, Inside(t)' => obj'[t] = s,
         \A u \in Tasks \ {t} : /\ Inside(u)' <=> Inside(u)
                                /\ obj'[u] = obj[u]
                                /\ state'[u] = "BLOCKED" <=> state[u] = "BLOCKED"
  PROVE  /\ Waiters' = [Waiters EXCEPT ![s] = IF Inside(t)' /\ state'[t] = "BLOCKED"
                                                THEN @ \cup {t} ELSE @ \ {t}]
         /\ Given' = [Given EXCEPT ![s] = IF Inside(t)' /\ state'[t] # "BLOCKED"
                                            THEN @ \cup {t} ELSE @ \ {t}]
<1>1. ASSUME NEW q \in Objects, q # s PROVE In(q)' = In(q) /\ Blocked(q)' = Blocked(q)
  <2>1. t \notin In(q) /\ t \notin In(q)'
    BY <1>1 DEF In
  <2>2. In(q)' = In(q)
    <3>1. \A u \in Tasks \ {t} : u \in In(q)' <=> u \in In(q)
      BY DEF In
    <3>2. In(q) \subseteq Tasks /\ In(q)' \subseteq Tasks
      BY DEF In
    <3>3. QED BY <2>1, <3>1, <3>2
  <2>3. \A u \in In(q) : u \in Tasks \ {t}
    BY <2>1 DEF In
  <2>4. QED BY <2>2, <2>3 DEF Blocked
<1>2. \A u \in Tasks \ {t} : /\ u \in Blocked(s)' <=> u \in Blocked(s)
                             /\ u \in In(s)' <=> u \in In(s)
  BY DEF Blocked, In
<1>3. /\ t \in Blocked(s)' <=> Inside(t)' /\ state'[t] = "BLOCKED"
      /\ t \in In(s)' <=> Inside(t)'
  BY DEF Blocked, In
<1>4. /\ Blocked(s) \subseteq Tasks /\ Blocked(s)' \subseteq Tasks
      /\ In(s) \subseteq Tasks /\ In(s)' \subseteq Tasks
  BY DEF Blocked, In
<1>5. Blocked(s)' = IF Inside(t)' /\ state'[t] = "BLOCKED"
                      THEN Blocked(s) \cup {t} ELSE Blocked(s) \ {t}
  BY <1>2, <1>3, <1>4
<1>6. (In(s) \ Blocked(s))' = IF Inside(t)' /\ state'[t] # "BLOCKED"
                                THEN (In(s) \ Blocked(s)) \cup {t} ELSE (In(s) \ Blocked(s)) \ {t}
  BY <1>2, <1>3, <1>4
<1>7. \A q \in Objects \ {s} : In(q)' = In(q) /\ Blocked(q)' = Blocked(q)
  BY <1>1
<1>8. QED BY <1>5, <1>6, <1>7 DEF Waiters, Given

(* The abstract variables, under their own names. *)
Mapped == /\ [s \in Objects |-> InWait(s) \ Granted(s)] = Waiters
          /\ [s \in Objects |-> Granted(s)] = Given

LEMMA SetsPriority ==
  ASSUME Mapped, Mapped', Waiters' = Waiters, Given' = Given, count' = count,
         priority' \in [Tasks -> Nat]
  PROVE  Promise!Next
<1>1. Promise!SetPriority
  BY DEF Promise!SetPriority, Mapped
<1>2. QED BY <1>1 DEF Promise!Next

LEMMA Takes ==
  ASSUME Mapped, Mapped', Waiters' = Waiters, Given' = Given, priority' = priority,
         NEW s \in Objects, count[s] > 0, count' = [count EXCEPT ![s] = @ - 1]
  PROVE  Promise!Next
<1>1. Promise!Take(s)
  BY DEF Promise!Take, Mapped
<1>2. QED BY <1>1 DEF Promise!Next

LEMMA Frees ==
  ASSUME Mapped, Mapped', Waiters' = Waiters, Given' = Given, priority' = priority,
         NEW s \in Objects, Waiters[s] = {}, count[s] < MaxCount[s],
         count' = [count EXCEPT ![s] = @ + 1]
  PROVE  Promise!Next
<1>1. Promise!Free(s)
  BY DEF Promise!Free, Mapped
<1>2. QED BY <1>1 DEF Promise!Next

LEMMA Waits1 ==
  ASSUME Mapped, Mapped', Given' = Given, priority' = priority, count' = count,
         NEW s \in Objects, NEW t \in Tasks, count[s] = 0, t \notin Waiters[s] \cup Given[s],
         Waiters' = [Waiters EXCEPT ![s] = @ \cup {t}]
  PROVE  Promise!Next
<1>1. Promise!Wait(s, t)
  BY DEF Promise!Wait, Mapped
<1>2. QED BY <1>1 DEF Promise!Next

LEMMA Grants ==
  ASSUME Mapped, Mapped', priority' = priority, count' = count,
         NEW s \in Objects, NEW t \in Tasks, t \in Waiters[s],
         \A u \in Waiters[s] : priority[u] <= priority[t],
         Waiters' = [Waiters EXCEPT ![s] = @ \ {t}],
         Given' = [Given EXCEPT ![s] = @ \cup {t}]
  PROVE  Promise!Next
<1>1. Promise!Grant(s, t)
  BY DEF Promise!Grant, Mapped
<1>2. QED BY <1>1 DEF Promise!Next

LEMMA Returned ==
  ASSUME Mapped, Mapped', priority' = priority, count' = count, Waiters' = Waiters,
         NEW s \in Objects, NEW t \in Tasks, t \in Given[s],
         Given' = [Given EXCEPT ![s] = @ \ {t}]
  PROVE  Promise!Next
<1>1. Promise!Return(s, t)
  BY DEF Promise!Return, Mapped
<1>2. QED BY <1>1 DEF Promise!Next

LEMMA NothingMoves ==
  ASSUME Mapped, Mapped', Waiters' = Waiters, Given' = Given, UNCHANGED <<count, priority>>
  PROVE  UNCHANGED Promise!vars
BY DEF Mapped, Promise!vars

(* Every step is one of the abstract semaphores, or changes none of them.  *)
LEMMA PromiseStep ==
  ASSUME InOrder, Mapped, Mapped', Disciplined, NoTimeouts, BootOnly, [SemNext]_vars
  PROVE  [Promise!Next]_(Promise!vars)
<1>1. PICK x \in Tasks \cup {Null} : KernelInv(x)
  BY DEF InOrder, SemInv, Sound
<1>2. SemInv /\ Ordered(links, priority) /\ SemInv' /\ Counts
  BY SemStep DEF InOrder, SemInv
<1>3. /\ Types /\ Calls /\ Booting /\ priority' \in [Tasks -> Nat]
      /\ \A t \in Tasks : Waiting(t)
  BY <1>1, <1>2 DEF KernelInv, Control, SemInv, Sound, Types, KernelTypeOK
<1>4. CASE KernelNext /\ UNCHANGED count
  <2>1. ASSUME NEW t \in Tasks
        PROVE  /\ Inside(t)' <=> Inside(t)
               /\ Inside(t) => /\ obj'[t] = obj[t]
                               /\ state'[t] = "BLOCKED" <=> state[t] = "BLOCKED"
    BY <1>1, <1>3, <1>4, CheckPlace, CallsStay DEF Waiting, Inside
  <2>2. Waiters' = Waiters /\ Given' = Given
    BY <2>1, SameWaiters
  <2>3. QED BY <1>3, <1>4, <2>2, SetsPriority
<1>5. CASE UNCHANGED vars
  <2>1. Waiters' = Waiters /\ Given' = Given
    BY <1>5, SameWaiters DEF vars, kernelVars, listVars, callVars, Inside, InCall
  <2>2. QED BY <1>5, <2>1, NothingMoves DEF vars, kernelVars, listVars
<1>6. ASSUME NEW t \in Tasks, SemCheck(t) PROVE Promise!Next
  <2>1. /\ Inside(t) /\ state[t] = "RUNNING" /\ pc' = [pc EXCEPT ![t] = "run"] /\ then[t] = "run"
        /\ obj' = [obj EXCEPT ![t] = Null] /\ UNCHANGED <<state, priority, then, count>>
    BY <1>2, <1>6, SemCheckKeeps
  <2>2. obj[t] \in Objects
    BY <1>3, <2>1 DEF Waiting, Awaits, Inside
  <2>3. ~Inside(t)'
    BY <1>3, <2>1 DEF Inside, InCall, Types
  <2>4. \A u \in Tasks \ {t} : /\ Inside(u)' <=> Inside(u)
                               /\ obj'[u] = obj[u]
                               /\ state'[u] = "BLOCKED" <=> state[u] = "BLOCKED"
    BY <1>3, <2>1 DEF Inside, InCall, Types
  <2>5. /\ Waiters' = [Waiters EXCEPT ![obj[t]] = @ \ {t}]
        /\ Given' = [Given EXCEPT ![obj[t]] = @ \ {t}]
    <3> DEFINE s == obj[t]
    <3>1. s \in Objects /\ (Inside(t) => obj[t] = s) /\ (Inside(t)' => obj'[t] = s)
      BY <2>2, <2>3
    <3> HIDE DEF s
    <3>2. /\ Waiters' = [Waiters EXCEPT ![s] = IF Inside(t)' /\ state'[t] = "BLOCKED"
                                                 THEN @ \cup {t} ELSE @ \ {t}]
          /\ Given' = [Given EXCEPT ![s] = IF Inside(t)' /\ state'[t] # "BLOCKED"
                                             THEN @ \cup {t} ELSE @ \ {t}]
      BY <2>4, <3>1, OneMoves
    <3>3. /\ Waiters' = [Waiters EXCEPT ![s] = @ \ {t}]
          /\ Given' = [Given EXCEPT ![s] = @ \ {t}]
      BY <2>3, <3>2
    <3>4. QED BY <3>3 DEF s
  <2>6. t \notin Waiters[obj[t]] /\ t \in Given[obj[t]]
    BY <2>1, <2>2 DEF Waiters, Given, Blocked, In
  <2>7. Waiters' = Waiters
    <3>1. Waiters[obj[t]] \ {t} = Waiters[obj[t]]
      BY <2>6
    <3>2. Waiters = [Waiters EXCEPT ![obj[t]] = Waiters[obj[t]]]
      BY DEF Waiters
    <3>3. QED BY <2>5, <3>1, <3>2
  <2>8. QED BY <2>1, <2>2, <2>5, <2>6, <2>7, Returned
<1>7. ASSUME NEW t \in Tasks, NEW s \in Objects, SemTake(t, s) PROVE Promise!Next
  <2>1. count[s] > 0 /\ count' = [count EXCEPT ![s] = @ - 1] /\ UNCHANGED kernelVars
    BY <1>7 DEF SemTake
  <2>2. Waiters' = Waiters /\ Given' = Given
    BY <2>1, SameWaiters DEF kernelVars, listVars, callVars, Inside, InCall
  <2>3. priority' = priority
    BY <2>1 DEF kernelVars, listVars
  <2>4. QED BY <2>1, <2>2, <2>3, Takes
<1>8. ASSUME NEW t \in Tasks, NEW s \in Objects, SemBlock(t, s) PROVE Promise!Next
  <2>1. /\ count[s] = 0 /\ Away(t)
        /\ pc' = [pc EXCEPT ![t] = "request"] /\ then' = [then EXCEPT ![t] = "semCheck"]
        /\ obj' = [obj EXCEPT ![t] = s] /\ state' = [state EXCEPT ![t] = "BLOCKED"]
        /\ UNCHANGED <<priority, count>>
    BY <1>2, <1>8, SemBlockKeeps
  <2>2. ~Inside(t) /\ Inside(t)' /\ obj'[t] = s /\ state'[t] = "BLOCKED"
    BY <1>3, <2>1 DEF Inside, InCall, Away, Types, KernelTypeOK
  <2>3. \A u \in Tasks \ {t} : /\ Inside(u)' <=> Inside(u)
                               /\ obj'[u] = obj[u]
                               /\ state'[u] = "BLOCKED" <=> state[u] = "BLOCKED"
    BY <1>3, <2>1 DEF Inside, InCall, Types, KernelTypeOK
  <2>4. /\ Waiters' = [Waiters EXCEPT ![s] = IF Inside(t)' /\ state'[t] = "BLOCKED"
                                               THEN @ \cup {t} ELSE @ \ {t}]
        /\ Given' = [Given EXCEPT ![s] = IF Inside(t)' /\ state'[t] # "BLOCKED"
                                           THEN @ \cup {t} ELSE @ \ {t}]
    BY <2>2, <2>3, OneMoves
  <2>5. t \notin Waiters[s] \cup Given[s]
    BY <2>2 DEF Waiters, Given, Blocked, In
  <2>6. Given' = Given
    <3>1. Given[s] \ {t} = Given[s]
      BY <2>5
    <3>2. Given = [Given EXCEPT ![s] = Given[s]]
      BY DEF Given
    <3>3. QED BY <2>2, <2>4, <3>1, <3>2
  <2>7. Waiters' = [Waiters EXCEPT ![s] = @ \cup {t}]
    BY <2>2, <2>4
  <2>8. QED BY <2>1, <2>5, <2>6, <2>7, Waits1
<1>9. ASSUME NEW t \in Tasks, NEW s \in Objects, SemSignal(t, s), Signal(s) PROVE Promise!Next
  <2> DEFINE q == Chain(links, WaitQueue(s))
  <2>1. PICK w \in Tasks :
          /\ Len(q) > 0 /\ w = q[1] /\ Inside(w) /\ obj[w] = s /\ state[w] = "BLOCKED"
          /\ state' = [state EXCEPT ![w] = "READY"] /\ UNCHANGED <<pc, then, obj, priority, count>>
    BY <1>2, <1>9, GrantKeeps
  <2>2. state'[w] = "READY" /\ Inside(w)' /\ obj'[w] = s
    BY <1>3, <2>1 DEF Inside, InCall, Types, KernelTypeOK
  <2>3. \A u \in Tasks \ {w} : /\ Inside(u)' <=> Inside(u)
                               /\ obj'[u] = obj[u]
                               /\ state'[u] = "BLOCKED" <=> state[u] = "BLOCKED"
    BY <1>3, <2>1 DEF Inside, InCall, Types, KernelTypeOK
  <2>4. /\ Waiters' = [Waiters EXCEPT ![s] = IF Inside(w)' /\ state'[w] = "BLOCKED"
                                               THEN @ \cup {w} ELSE @ \ {w}]
        /\ Given' = [Given EXCEPT ![s] = IF Inside(w)' /\ state'[w] # "BLOCKED"
                                           THEN @ \cup {w} ELSE @ \ {w}]
    <3>1. (Inside(w) => obj[w] = s) /\ (Inside(w)' => obj'[w] = s) /\ w \in Tasks
      BY <2>1, <2>2
    <3>2. QED BY <2>3, <3>1, OneMoves
  <2>5. Waiters' = [Waiters EXCEPT ![s] = @ \ {w}] /\ Given' = [Given EXCEPT ![s] = @ \cup {w}]
    BY <2>2, <2>4
  <2>6. w \in Waiters[s]
    BY <2>1 DEF Waiters, Blocked, In
  <2>7. ASSUME NEW u \in Waiters[s] PROVE priority[u] <= priority[w]
    <3>1. u \in Tasks /\ state[u] = "BLOCKED" /\ obj[u] = s
      BY <2>7 DEF Waiters, Blocked, In
    <3>2. Ordered(links, priority)
      BY <1>2
    <3>3. QED BY <1>1, <2>1, <3>1, <3>2, FirstIsBest
  <2>8. QED BY <2>1, <2>5, <2>6, <2>7, Grants
<1>10. ASSUME NEW t \in Tasks, NEW s \in Objects, SemSignal(t, s), ~Signal(s)
       PROVE  [Promise!Next]_(Promise!vars)
  <2>1. /\ UNCHANGED kernelVars /\ FirstWaiter(s) = Null
        /\ UNCHANGED count \/ (count[s] < MaxCount[s] /\ count' = [count EXCEPT ![s] = @ + 1])
    BY <1>2, <1>10, FreeCounts
  <2>2. Waiters' = Waiters /\ Given' = Given
    BY <2>1, SameWaiters DEF kernelVars, listVars, callVars, Inside, InCall
  <2>3. priority' = priority
    BY <2>1 DEF kernelVars, listVars
  <2>4. Waiters[s] = {}
    <3>1. \A t1 \in Tasks : ~(state[t1] = "BLOCKED" /\ obj[t1] = s)
      BY <1>2, <2>1, NobodyWaits DEF SemInv
    <3>2. QED BY <3>1 DEF Waiters, Blocked, In
  <2>5. CASE UNCHANGED count
    BY <2>2, <2>3, <2>5, NothingMoves
  <2>6. CASE count[s] < MaxCount[s] /\ count' = [count EXCEPT ![s] = @ + 1]
    BY <2>2, <2>3, <2>4, <2>6, Frees
  <2>7. QED BY <2>1, <2>5, <2>6
<1>11. QED BY <1>4, <1>5, <1>6, <1>7, <1>8, <1>9, <1>10 DEF SemNext

LEMMA PromiseInit == SemInit => Promise!Init
<1> SUFFICES ASSUME SemInit PROVE Promise!Init
  OBVIOUS
<1>1. Mapped
  BY SemInitSound, Mapping DEF Mapped
<1>2. priority \in [Tasks -> Nat]
  BY NanoAssumption DEF SemInit, Init
<1>3. \A t \in Tasks : ~Inside(t)
  BY DEF SemInit, Init, Inside, InCall
<1>4. Waiters = [s \in Objects |-> {}] /\ Given = [s \in Objects |-> {}]
  BY <1>3 DEF Waiters, Given, Blocked, In
<1>5. QED BY <1>1, <1>2, <1>4 DEF Promise!Init, Mapped, SemInit

(* The semaphores implement CountingSemaphore: a token is taken by one     *)
(* call, a signal wakes the waiter of the highest priority and its token   *)
(* is its own (sem_wait, sem_signal).                                      *)
THEOREM SemaphoresKeepPromise ==
  ASSUME Disciplined, NoTimeouts, OwnPriority, BootOnly PROVE SemSpec => SemaphoresPromise
<1>1. InOrder => Mapped
  BY Mapping DEF InOrder, Mapped
<1>2. InOrder /\ Mapped /\ Mapped' /\ [SemNext]_vars => [Promise!Next]_(Promise!vars)
  BY PromiseStep
<1>3. SemInit => Promise!Init
  BY PromiseInit
<1>4. QED BY <1>1, <1>2, <1>3, SemaphoresOrdered, PTL DEF SemSpec, SemaphoresPromise, Promise!Spec
=============================================================================
