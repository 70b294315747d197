----------------------------- MODULE NanoQueue ------------------------------
(***************************************************************************)
(* The message queues of v0-nano (queue.c, the same in v1-secure) on the   *)
(* kernel of NanoKernel: a ring buffer with a wait queue of senders and    *)
(* one of receivers.  A task that was woken tries once more, in a critical *)
(* section of its own and without waiting.                                 *)
(***************************************************************************)
EXTENDS NanoWaiting

CONSTANTS Queues,       \* queue_t objects
          Items,        \* what a message may be
          Capacity,     \* q->capacity
          Senders,      \* tasks whose code calls queue_send
          FrontSenders, \* ... queue_send_front
          Receivers,    \* ... queue_receive and queue_peek
          Resetters     \* ... queue_reset

SendWait(q) == <<q, "send">>
RecvWait(q) == <<q, "recv">>

ASSUME QueueAssumption == /\ Objects = Queues \X {"send", "recv"}
                          /\ Capacity \in Nat \ {0} /\ Items # {}

VARIABLES buffer,    \* q->buffer
          head,      \* q->head
          tail,      \* q->tail
          count,     \* q->count
          message,   \* the item of the send call each task is in
          delivered  \* the item each queue has handed out last
ringVars == <<buffer, head, tail, count>>
queueVars == <<ringVars, message, delivered>>
vars == <<kernelVars, queueVars>>

(* queue_init; the content of the buffer does not matter. *)
QueueInit == LET any == CHOOSE i \in Items : TRUE
             IN  /\ Init
                 /\ buffer = [q \in Queues |-> [i \in 0..Capacity - 1 |-> any]]
                 /\ head = [q \in Queues |-> 0]
                 /\ tail = [q \in Queues |-> 0]
                 /\ count = [q \in Queues |-> 0]
                 /\ message = [t \in Tasks |-> any]
                 /\ delivered = [q \in Queues |-> any]

(* Mutant: nobody is woken. *)
WakeNobody(o) == UNCHANGED <<links, state, wakeReason, switchPending>>
(* A task waiting on o, if there is one, is signalled. *)
WakeOne(o) == \/ Signal(o)
              \/ FirstWaiter(o) = Null /\ UNCHANGED <<links, state, wakeReason, switchPending>>
Returns(t) == /\ Goto(t, "run")
              /\ obj' = [obj EXCEPT ![t] = Null]
              /\ UNCHANGED <<priority, basePriority, ticksLeft, currentTask, taskCount, then>>

Next1(i) == (i + 1) % Capacity
(* Mutant: the index wraps one place too early. *)
WrapShort(i) == IF i <= 1 THEN Capacity - 1 ELSE i - 1
Previous1(i) == IF i = 0 THEN Capacity - 1 ELSE i - 1

(* The successful part of queue_send. *)
Deposit(t, q, item) ==
  /\ count[q] < Capacity
  /\ buffer' = [buffer EXCEPT ![q][tail[q]] = item]
  /\ tail' = [tail EXCEPT ![q] = Next1(@)]
  /\ count' = [count EXCEPT ![q] = @ + 1]
  /\ WakeOne(RecvWait(q))
  /\ Returns(t)
  /\ UNCHANGED <<head, message, delivered>>

(* The successful part of queue_receive. *)
Withdraw(t, q) ==
  /\ count[q] > 0
  /\ delivered' = [delivered EXCEPT ![q] = buffer[q][head[q]]]
  /\ head' = [head EXCEPT ![q] = Next1(@)]
  /\ count' = [count EXCEPT ![q] = @ - 1]
  /\ WakeOne(SendWait(q))
  /\ Returns(t)
  /\ UNCHANGED <<buffer, tail, message>>

(* A call of queue_send, also the one that queue_send_front ends in: the   *)
(* item is deposited, or the task blocks; with NO_WAIT nothing happens.    *)
QueueSend(t, q, item) ==
  /\ \/ Executes(t, "run") /\ t \in Senders
     \/ Executes(t, "send") /\ obj[t] = SendWait(q) /\ message[t] = item
  /\ \/ Deposit(t, q, item)
     \/ /\ count[q] >= Capacity
        /\ Block(t, links, priority, SendWait(q), SendWait(q), "sendCheck")
        /\ message' = [message EXCEPT ![t] = item]
        /\ UNCHANGED <<priority, basePriority, schedVars, ringVars, delivered>>

QueueSendFront(t, q, item) ==
  /\ Executes(t, "run") /\ t \in FrontSenders
  /\ \/ /\ count[q] < Capacity
        /\ head' = [head EXCEPT ![q] = Previous1(@)]
        /\ buffer' = [buffer EXCEPT ![q][head'[q]] = item]
        /\ count' = [count EXCEPT ![q] = @ + 1]
        /\ WakeOne(RecvWait(q))
        /\ Returns(t)
        /\ UNCHANGED <<tail, message, delivered>>
     \/ /\ count[q] >= Capacity
        /\ Goto(t, "send")
        /\ obj' = [obj EXCEPT ![t] = SendWait(q)]
        /\ message' = [message EXCEPT ![t] = item]
        /\ UNCHANGED <<listVars, schedVars, timeVars, then, ringVars, delivered>>

QueueReceive(t, q) ==
  /\ Executes(t, "run") /\ t \in Receivers
  /\ \/ Withdraw(t, q)
     \/ /\ count[q] = 0
        /\ Block(t, links, priority, RecvWait(q), RecvWait(q), "recvCheck")
        /\ UNCHANGED <<priority, basePriority, schedVars, queueVars>>

(* Back from the yield: a task that was not signalled leaves its wait      *)
(* queue and returns false.                                                *)
QueueCheck(t, at, retry) ==
  LET signalled == wakeReason[t] = "SIGNALED"
  IN  /\ Executes(t, at)
      /\ LeaveQueue(t, obj[t], ~signalled)
      /\ Goto(t, IF signalled THEN retry ELSE "run")
      /\ obj' = [obj EXCEPT ![t] = IF signalled THEN @ ELSE Null]
      /\ UNCHANGED <<state, priority, basePriority, schedVars, timeVars, then, queueVars>>
SendCheck(t) == QueueCheck(t, "sendCheck", "sendRetry")
RecvCheck(t) == QueueCheck(t, "recvCheck", "recvRetry")

(* The second attempt, with NO_WAIT; what was signalled may be gone. *)
SendRetry(t, q) ==
  /\ Executes(t, "sendRetry") /\ obj[t] = SendWait(q)
  /\ \/ Deposit(t, q, message[t])
     \/ /\ count[q] >= Capacity
        /\ Returns(t)
        /\ UNCHANGED <<links, state, wakeReason, switchPending, queueVars>>
RecvRetry(t, q) ==
  /\ Executes(t, "recvRetry") /\ obj[t] = RecvWait(q)
  /\ \/ Withdraw(t, q)
     \/ /\ count[q] = 0
        /\ Returns(t)
        /\ UNCHANGED <<links, state, wakeReason, switchPending, queueVars>>

QueuePeek(t, q) == /\ Executes(t, "run") /\ t \in Receivers
                   /\ count[q] > 0
                   /\ delivered' = [delivered EXCEPT ![q] = buffer[q][head[q]]]
                   /\ UNCHANGED <<kernelVars, ringVars, message>>

ResetReason == "TIMEOUT"

(* queue_reset: every waiter is woken as if its time were over. *)
WakeAll(q) ==
  LET waiters == Chain(links, WaitQueue(SendWait(q))) \o Chain(links, WaitQueue(RecvWait(q)))
      woken == {waiters[i] : i \in 1..Len(waiters)}
      wake[n \in 0..Len(waiters)] ==
        IF n = 0 THEN links
        ELSE LET lk == wake[n - 1]
                 o == IF lk.head[WaitQueue(SendWait(q))] # Null THEN SendWait(q) ELSE RecvWait(q)
             IN  AddReady(Pop(lk, WaitQueue(o)), priority, waiters[n])
  IN  /\ links' = wake[Len(waiters)]
      /\ state' = [t \in Tasks |-> IF t \in woken THEN "READY" ELSE state[t]]
      /\ wakeReason' = [t \in Tasks |-> IF t \in woken THEN ResetReason ELSE wakeReason[t]]

QueueReset(t, q) ==
  /\ Executes(t, "run") /\ t \in Resetters
  /\ count' = [count EXCEPT ![q] = 0]
  /\ head' = [head EXCEPT ![q] = 0]
  /\ tail' = [tail EXCEPT ![q] = 0]
  /\ WakeAll(q)
  /\ UNCHANGED <<priority, basePriority, ticksLeft, schedVars, callVars,
                 buffer, message, delivered>>

QueueStep(t) ==
  \/ SendCheck(t) \/ RecvCheck(t)
  \/ \E q \in Queues :
       \/ QueueReceive(t, q) \/ SendRetry(t, q) \/ RecvRetry(t, q)
       \/ QueuePeek(t, q) \/ QueueReset(t, q)
       \/ \E item \in Items : QueueSend(t, q, item) \/ QueueSendFront(t, q, item)
QueueNext == \/ KernelNext /\ UNCHANGED queueVars
             \/ \E t \in Tasks : QueueStep(t)

QueueSpec == QueueInit /\ [][QueueNext]_vars

-----------------------------------------------------------------------------
(* The ring buffers are the bounded queues of BoundedFifo.                 *)
Contents(q) == [i \in 1..count[q] |-> buffer[q][(head[q] + i - 1) % Capacity]]
Fifo == INSTANCE BoundedFifo WITH contents <- [q \in Queues |-> Contents(q)]
KeepsFifo == Fifo!Spec

(* The tasks that were signalled and have not made their second attempt.   *)
OnTheWay(o) ==
  {t \in Tasks : obj[t] = o /\ wakeReason[t] = "SIGNALED" /\ state[t] # "BLOCKED"
                   /\ pc[t] # "send"}

(* While receivers wait, every item in the queue has a signalled receiver  *)
(* coming for it, and while senders wait, every free place has a sender:   *)
(* no wakeup is lost, however the calls interleave.                        *)
NobodyStranded ==
  \A q \in Queues :
    /\ FirstWaiter(RecvWait(q)) # Null =>
         count[q] <= Cardinality(OnTheWay(RecvWait(q)))
    /\ FirstWaiter(SendWait(q)) # Null =>
         Capacity - count[q] <= Cardinality(OnTheWay(SendWait(q)))

(* A call that waits for ever succeeds: a woken task finds the item or the *)
(* place it was woken for.                                                 *)
ForeverSucceeds ==
  \A t \in Tasks, q \in Queues :
    /\ Executes(t, "sendRetry") /\ obj[t] = SendWait(q) => count[q] < Capacity
    /\ Executes(t, "recvRetry") /\ obj[t] = RecvWait(q) => count[q] > 0
=============================================================================
