----------------------------- MODULE NanoMutex ------------------------------
(***************************************************************************)
(* The recursive mutexes with priority inheritance of v0-nano (mutex.c,    *)
(* the same in v1-secure) on the kernel of NanoKernel.                     *)
(***************************************************************************)
EXTENDS NanoWaiting

CONSTANTS Locks,      \* Locks[t]: the mutexes the code of t locks
          CountValues, \* values of lock_count, a uint8_t: 256
          MaxDepth,   \* bound: how deep a task locks one mutex
          MaxHeld     \* how many mutexes a task holds at a time

ASSUME MutexAssumption == CountValues \in Nat \ {0, 1} /\ MaxDepth \in Nat \ {0}

VARIABLES owner,      \* mtx->owner
          lockCount,  \* mtx->lock_count
          held        \* held[t][m]: lock calls on m that returned true to t,
                      \* less the unlocks it made since: what t believes
mutexVars == <<owner, lockCount, held>>
vars == <<kernelVars, mutexVars>>

MutexInit == /\ Init
             /\ owner = [m \in Objects |-> Null]
             /\ lockCount = [m \in Objects |-> 0]
             /\ held = [t \in Tasks |-> [m \in Objects |-> 0]]

Holds(t) == {m \in Objects : held[t][m] > 0}
MayLock(t, m) == /\ Executes(t, "run") /\ m \in Locks[t]
                 /\ held[t][m] < MaxDepth
                 /\ m \in Holds(t) \/ Cardinality(Holds(t)) < MaxHeld

(* mutex_lock of a free mutex, or of the task's own. *)
MutexTake(t, m) ==
  /\ MayLock(t, m)
  /\ owner[m] \in {t, Null}
  /\ owner' = [owner EXCEPT ![m] = t]
  /\ lockCount' = [lockCount EXCEPT ![m] =
                     IF owner[m] = t THEN (@ + 1) % CountValues ELSE 1]
  /\ held' = [held EXCEPT ![t][m] = @ + 1]
  /\ UNCHANGED kernelVars

(* Mutant: no inheritance. *)
NoBoost(o, t) == priority
(* Mutant: the owner gets the priority of the last to wait. *)
LastBoost(o, t) == [priority EXCEPT ![o] = priority[t]]
(* The priorities after task t waits for owner o. *)
Boosted(o, t) ==
  IF priority[o] < priority[t] THEN [priority EXCEPT ![o] = priority[t]] ELSE priority

(* "Re-sort owner in ready queue" *)
Resorted(o, pr) ==
  IF pr # priority /\ state[o] = "READY" THEN Requeued(links, pr, o) ELSE links

(* mutex_lock of another task's mutex: the owner inherits the priority, and *)
(* is queued anew if it is ready; the caller blocks.                        *)
MutexBlock(t, m) ==
  LET o == owner[m]
      pr == Boosted(o, t)
  IN  /\ MayLock(t, m)
      /\ owner[m] \notin {t, Null}
      /\ priority' = pr
      /\ Block(t, Resorted(o, pr), pr, m, m, "mutexCheck")
      /\ UNCHANGED <<basePriority, schedVars, mutexVars>>

(* Back from the yield: the reason tells whether the mutex was handed over. *)
MutexCheck(t) ==
  /\ Executes(t, "mutexCheck")
  /\ held' = IF wakeReason[t] = "SIGNALED" THEN [held EXCEPT ![t][obj[t]] = 1] ELSE held
  /\ LeaveQueue(t, obj[t], wakeReason[t] = "TIMEOUT")
  /\ obj' = [obj EXCEPT ![t] = Null]
  /\ Goto(t, "run")
  /\ UNCHANGED <<state, priority, basePriority, schedVars, timeVars, then,
                 owner, lockCount>>

(* Mutant: the priority is not restored. *)
KeepPriority(t) == priority
(* "current->priority = current->base_priority" *)
Restored(t) == [priority EXCEPT ![t] = basePriority[t]]

(* Mutant: the mutex is left without an owner when it is handed over. *)
HandNobody(m) == Null
NewOwner(m) == FirstWaiter(m)

(* Mutant: the first unlock releases, however often it was locked. *)
LastAlways(m) == TRUE
LastUnlock(m) == lockCount[m] <= 1

(* mutex_unlock by a task that believes it holds the mutex. *)
MutexUnlock(t, m) ==
  /\ Executes(t, "run") /\ m \in Holds(t)
  /\ held' = [held EXCEPT ![t][m] = @ - 1]
  /\ \/ /\ owner[m] # t
        /\ UNCHANGED <<links, state, wakeReason, switchPending, priority, owner, lockCount>>
     \/ /\ owner[m] = t /\ ~LastUnlock(m)
        /\ lockCount' = [lockCount EXCEPT ![m] = @ - 1]
        /\ UNCHANGED <<links, state, wakeReason, switchPending, priority, owner>>
     \/ /\ owner[m] = t /\ LastUnlock(m)
        /\ priority' = Restored(t)
        /\ owner' = [owner EXCEPT ![m] = NewOwner(m)]
        /\ lockCount' = [lockCount EXCEPT ![m] = IF FirstWaiter(m) = Null THEN 0 ELSE 1]
        /\ \/ Signal(m)
           \/ FirstWaiter(m) = Null /\ UNCHANGED <<links, state, wakeReason, switchPending>>
  /\ UNCHANGED <<basePriority, ticksLeft, currentTask, taskCount, callVars>>

MutexStep(t) == \/ MutexCheck(t)
                \/ \E m \in Objects : MutexTake(t, m) \/ MutexBlock(t, m) \/ MutexUnlock(t, m)
MutexNext == \/ KernelNext /\ UNCHANGED mutexVars
             \/ \E t \in Tasks : MutexStep(t)

MutexSpec == MutexInit /\ [][MutexNext]_vars

(* Ticks keep coming; a task goes on with the call it is in whenever it    *)
(* has the hart, and one that holds a mutex gives it back sooner or later. *)
(* Nothing else is assumed of tasks: they may keep the hart for ever.      *)
GoesOn(t) == \/ pc[t] # "run" /\ (TaskYield(t) \/ Ecall(t)) /\ UNCHANGED mutexVars
             \/ MutexCheck(t)
FairMutexSpec ==
  /\ MutexSpec
  /\ WF_vars(SchedStart /\ UNCHANGED mutexVars)
  /\ WF_vars(Tick /\ UNCHANGED mutexVars)
  /\ \A t \in Tasks \ {Idle} :
       /\ SF_vars(GoesOn(t))
       /\ SF_vars(\E m \in Objects : held[t][m] > 1 /\ MutexUnlock(t, m))
       /\ SF_vars(\E m \in Objects : held[t][m] = 1 /\ MutexUnlock(t, m))

-----------------------------------------------------------------------------
(* No two tasks hold a mutex at a time: a lock call returns true only to   *)
(* the owner, however often it locked it, and it stays the owner until its *)
(* last unlock.                                                            *)
MutualExclusion ==
  \A m \in Objects, t \in Tasks : held[t][m] > 0 => owner[m] = t

(* A mutex that has an owner is held by it, or has just been handed to it  *)
(* in a call that will return true: no mutex is left locked for ever by a  *)
(* task that does not know it.                                             *)
OwnerKnows ==
  \A m \in Objects : owner[m] # Null =>
    LET t == owner[m]
    IN  \/ held[t][m] = lockCount[m]
        \/ obj[t] = m /\ wakeReason[t] = "SIGNALED" /\ state[t] # "BLOCKED"

(* The owner of a mutex runs at no less a priority than any task waiting   *)
(* for it, and a free mutex has no waiters: a task of middle priority      *)
(* cannot keep the owner, and so the waiter, from the hart.                *)
PriorityInherited ==
  \A m \in Objects, w \in Tasks :
    On(links, WaitQueue(m), w) =>
      owner[m] # Null /\ priority[owner[m]] >= priority[w]

(* A task that holds no mutex, nor has just been given one, is back at its *)
(* own priority.                                                           *)
BoostUndone ==
  \A t \in Tasks : priority[t] # basePriority[t] => \E m \in Objects : owner[m] = t

(* The task of the highest priority gets a mutex it waits for, whatever    *)
(* the tasks of middle priority do (priority inversion is bounded).        *)
TopTasks == {t \in Tasks : \A u \in Tasks \ {t} : InitPriority[u] < InitPriority[t]}
TopWaiterServed == \A t \in TopTasks, m \in Objects : obj[t] = m ~> held[t][m] > 0
=============================================================================
