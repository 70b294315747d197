---------------------------- MODULE NanoWaiting -----------------------------
(***************************************************************************)
(* What semaphore.c, mutex.c and queue.c of v0-nano share: wait queues     *)
(* ordered by priority, blocking for good or with a timeout, and waking.   *)
(***************************************************************************)
EXTENDS NanoKernel

CONSTANT Timed  \* the tasks whose calls may give a timeout; the others wait
                \* for ever, and any call may be made with NO_WAIT

(* Mutant: ">" instead of ">=". *)
AddBeforeEquals(lk, pr, o, t) ==
  Insert(lk, WaitQueue(o), t, {u \in Tasks : pr[u] > pr[t]})
(* Mutant: lowest priority first. *)
AddReversed(lk, pr, o, t) ==
  Insert(lk, WaitQueue(o), t, {u \in Tasks : pr[u] <= pr[t]})
(* Mutant: the queue behind the task is dropped. *)
AddAndCut(lk, pr, o, t) ==
  InsertCut(lk, WaitQueue(o), t, {u \in Tasks : pr[u] >= pr[t]})

(* waitqueue_add: behind the tasks of at least its priority. *)
WaitqueueAdd(lk, pr, o, t) ==
  Insert(lk, WaitQueue(o), t, {u \in Tasks : pr[u] >= pr[t]})

(* The task that runs joins a wait queue, with the lists lk and priorities *)
(* pr: waitqueue_add, task_block and, with a timeout, delay_add.           *)
Block(t, lk, pr, o, queue, at) ==
  LET waiting == RemoveReady(WaitqueueAdd(lk, pr, queue, t), pr, t)
  IN  /\ \/ links' = waiting /\ UNCHANGED timeVars
         \/ /\ t \in Timed
            /\ \E ticks \in 1..MaxDelay : /\ links' = DelayAdd(waiting, t, ticks)
                                          /\ ticksLeft' = [ticksLeft EXCEPT ![t] = ticks]
            /\ wakeReason' = [wakeReason EXCEPT ![t] = "NONE"]
      /\ state' = [state EXCEPT ![t] = "BLOCKED"]
      /\ obj' = [obj EXCEPT ![t] = o]
      /\ Goto(t, "request")
      /\ then' = [then EXCEPT ![t] = at]

FirstWaiter(o) == links.head[WaitQueue(o)]

(* The first waiter is taken off the queue and made ready. *)
Signal(o) ==
  LET w == FirstWaiter(o)
  IN  /\ w # Null
      /\ links' = AddReady(Pop(links, WaitQueue(o)), priority, w)
      /\ state' = [state EXCEPT ![w] = "READY"]
      /\ wakeReason' = [wakeReason EXCEPT ![w] = "SIGNALED"]
      /\ switchPending' = TRUE

(* After the yield: waitqueue_remove by a call that was not signalled.     *)
LeaveQueue(t, queue, timedOut) ==
  links' = IF timedOut THEN Remove(links, WaitQueue(queue), t) ELSE links

-----------------------------------------------------------------------------
(* A task that is blocked in a call on an object is in the object's wait   *)
(* queue, so that a signal will find it.                                   *)
NoWaiterLost ==
  \A t \in Tasks, o \in Objects :
    state[t] = "BLOCKED" /\ obj[t] = o => On(links, WaitQueue(o), t)

(* Besides, a wait queue holds nobody else: no task is woken for a call    *)
(* that it is not in.                                                      *)
WaitersQueued ==
  /\ NoWaiterLost
  /\ \A t \in Tasks, o \in Objects :
       On(links, WaitQueue(o), t) => state[t] = "BLOCKED" /\ obj[t] = o

(* Waiters of one priority are served in the order they came: nobody who   *)
(* comes later gets in front of them.                                      *)
Ahead(lk, o, t, u) == LET s == Chain(lk, WaitQueue(o))
                      IN  \E i, j \in 1..Len(s) : i < j /\ s[i] = t /\ s[j] = u
NotOvertaken ==
  [][\A o \in Objects, t, u \in Tasks :
       t # u /\ priority[t] = priority[u] /\ On(links, WaitQueue(o), t)
         /\ ~Ahead(links, o, u, t) => ~Ahead(links', o, u, t)]_kernelVars
=============================================================================
