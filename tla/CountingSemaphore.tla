------------------------- MODULE CountingSemaphore --------------------------
(***************************************************************************)
(* What semaphores promise their callers (semaphore.h): a bounded number   *)
(* of tokens, each taken by one wait; a signal wakes the waiting task of   *)
(* the highest priority and gives it the token, which nobody else takes.   *)
(***************************************************************************)
EXTENDS Integers

CONSTANTS Tasks, Sems, MaxCount, InitialCount

VARIABLES count,     \* the free tokens of each semaphore
          waiting,   \* the tasks that wait for it
          granted,   \* those woken with a token, whose call has not returned
          priority   \* the priority of each task

vars == <<count, waiting, granted, priority>>

Init == /\ count = InitialCount
        /\ waiting = [s \in Sems |-> {}]
        /\ granted = [s \in Sems |-> {}]
        /\ priority \in [Tasks -> Nat]

Take(s) == /\ count[s] > 0
           /\ count' = [count EXCEPT ![s] = @ - 1]
           /\ UNCHANGED <<waiting, granted, priority>>

Wait(s, t) == /\ count[s] = 0 /\ t \notin waiting[s] \cup granted[s]
              /\ waiting' = [waiting EXCEPT ![s] = @ \cup {t}]
              /\ UNCHANGED <<count, granted, priority>>

(* Nobody waits: one more free token, up to the maximum. *)
Free(s) == /\ waiting[s] = {} /\ count[s] < MaxCount[s]
           /\ count' = [count EXCEPT ![s] = @ + 1]
           /\ UNCHANGED <<waiting, granted, priority>>

Grant(s, t) == /\ t \in waiting[s]
               /\ \A u \in waiting[s] : priority[u] <= priority[t]
               /\ waiting' = [waiting EXCEPT ![s] = @ \ {t}]
               /\ granted' = [granted EXCEPT ![s] = @ \cup {t}]
               /\ UNCHANGED <<count, priority>>

(* A granted call returns true ... *)
Return(s, t) == /\ t \in granted[s]
                /\ granted' = [granted EXCEPT ![s] = @ \ {t}]
                /\ UNCHANGED <<count, waiting, priority>>

(* ... and a call whose time is over, false. *)
TimeOut(s, t) == /\ t \in waiting[s]
                 /\ waiting' = [waiting EXCEPT ![s] = @ \ {t}]
                 /\ UNCHANGED <<count, granted, priority>>

SetPriority == /\ priority' \in [Tasks -> Nat]
               /\ UNCHANGED <<count, waiting, granted>>

Next == \/ SetPriority
        \/ \E s \in Sems : Take(s) \/ Free(s)
        \/ \E s \in Sems, t \in Tasks :
             Wait(s, t) \/ Grant(s, t) \/ Return(s, t) \/ TimeOut(s, t)

Spec == Init /\ [][Next]_vars
=============================================================================
