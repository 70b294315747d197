----------------------------- MODULE CpuSharing -----------------------------
(***************************************************************************)
(* What any scheduler of several cores promises, without its queues: tasks *)
(* become runnable and stop being so, and a core goes over to a runnable   *)
(* task that it may run and that no other core has.                        *)
(***************************************************************************)
CONSTANTS Tasks, Cores, Affinity, None

VARIABLES running,  \* the task each core has, None before its first
          runnable  \* the tasks that may be given to a core

vars == <<running, runnable>>

Init == /\ running = [c \in Cores |-> None]
        /\ runnable \subseteq Tasks

Start(t) == /\ t \notin runnable
            /\ runnable' = runnable \cup {t}
            /\ UNCHANGED running

Stop(t) == /\ t \in runnable
           /\ runnable' = runnable \ {t}
           /\ UNCHANGED running

Switch(c, t) == /\ t \in runnable /\ c \in Affinity[t]
                /\ \A d \in Cores \ {c} : running[d] # t
                /\ running' = [running EXCEPT ![c] = t]
                /\ UNCHANGED runnable

Next == \/ \E t \in Tasks : Start(t) \/ Stop(t)
        \/ \E c \in Cores, t \in Tasks : Switch(c, t)

Spec == Init /\ [][Next]_vars
=============================================================================
