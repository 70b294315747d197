---------------------------- MODULE MCNanoMutex -----------------------------
(* The idle task and three others with one or two mutexes. *)
EXTENDS NanoMutex, TLC

CONSTANTS idle, t1, t2, t3, m1, m2

MCTasks == {idle, t1, t2, t3}
Nobody == [t \in MCTasks |-> {}]
TopFirst == (idle :> 0) @@ (t1 :> 2) @@ (t2 :> 1) @@ (t3 :> 1)
Steps == (idle :> 0) @@ (t1 :> 3) @@ (t2 :> 2) @@ (t3 :> 1)

AllLock == [t \in MCTasks |-> Objects]
OneLocks == [t \in MCTasks |-> IF t = t1 THEN Objects ELSE {}]
(* t2 suspends and resumes t1. *)
SecondActs == [Nobody EXCEPT ![t2] = {t1}]
=============================================================================
