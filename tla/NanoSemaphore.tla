--------------------------- MODULE NanoSemaphore ----------------------------
(***************************************************************************)
(* The semaphores of v0-nano (semaphore.c, the same in v1-secure) on the   *)
(* kernel of NanoKernel.                                                   *)
(***************************************************************************)
EXTENDS NanoWaiting

CONSTANTS Waits,        \* Waits[t]: the semaphores the code of t waits for
          Signals,      \* ... signals
          MaxCount,     \* sem->max_count of each semaphore
          InitialCount  \* the count each is initialised with

ASSUME SemaphoreAssumption == /\ MaxCount \in [Objects -> Nat \ {0}]
                              /\ InitialCount \in [Objects -> Nat]
                              /\ \A s \in Objects : InitialCount[s] <= MaxCount[s]

VARIABLE count  \* sem->count

vars == <<kernelVars, count>>

SemInit == Init /\ count = InitialCount

(* sem_wait that finds a token; one that does not, with NO_WAIT, changes   *)
(* nothing.                                                                *)
SemTake(t, s) == /\ Executes(t, "run") /\ s \in Waits[t]
                 /\ count[s] > 0
                 /\ count' = [count EXCEPT ![s] = @ - 1]
                 /\ UNCHANGED kernelVars

(* sem_wait that finds none and may wait. *)
SemBlock(t, s) ==
  /\ Executes(t, "run") /\ s \in Waits[t]
  /\ count[s] <= 0
  /\ Block(t, links, priority, s, s, "semCheck")
  /\ UNCHANGED <<priority, basePriority, schedVars, count>>

(* Back from the yield: the reason tells whether the token was given; a    *)
(* task that timed out leaves the wait queue.                              *)
SemCheck(t) ==
  /\ Executes(t, "semCheck")
  /\ LeaveQueue(t, obj[t], wakeReason[t] = "TIMEOUT")
  /\ obj' = [obj EXCEPT ![t] = Null]
  /\ Goto(t, "run")
  /\ UNCHANGED <<state, priority, basePriority, schedVars, timeVars, then, count>>

RaisedCount(c, s) == IF c < MaxCount[s] THEN c + 1 ELSE c

(* sem_signal: the first waiter gets the token, or it becomes free.        *)
SemSignal(t, s) ==
  /\ Executes(t, "run") /\ s \in Signals[t]
  /\ \/ Signal(s) /\ UNCHANGED count
     \/ /\ FirstWaiter(s) = Null
        /\ count' = [count EXCEPT ![s] = RaisedCount(@, s)]
        /\ UNCHANGED <<links, state, wakeReason, switchPending>>
  /\ UNCHANGED <<priority, basePriority, ticksLeft, currentTask, taskCount, callVars>>

SemNext == \/ KernelNext /\ UNCHANGED count
           \/ \E t \in Tasks : SemCheck(t)
           \/ \E t \in Tasks, s \in Objects : SemTake(t, s) \/ SemBlock(t, s) \/ SemSignal(t, s)

SemSpec == SemInit /\ [][SemNext]_vars

-----------------------------------------------------------------------------
(* The semaphores keep the promise of CountingSemaphore: nobody waits      *)
(* while there are tokens, the highest waiter is woken, with a token that  *)
(* no other call gets, and there are never more than the maximum.          *)
InWait(s) == {t \in Tasks : obj[t] = s /\ (pc[t] = "semCheck" \/ then[t] = "semCheck")}
Granted(s) == {t \in InWait(s) : state[t] # "BLOCKED" /\ wakeReason[t] = "SIGNALED"}
Promise == INSTANCE CountingSemaphore
             WITH Sems <- Objects,
                  waiting <- [s \in Objects |-> InWait(s) \ Granted(s)],
                  granted <- [s \in Objects |-> Granted(s)]
SemaphoresPromise == Promise!Spec
=============================================================================
