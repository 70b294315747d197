---------------------------- MODULE MCNanoQueue -----------------------------
(* The idle task and three others with one queue. *)
EXTENDS NanoQueue, TLC

CONSTANTS idle, t1, t2, t3, q1, a, b

MCTasks == {idle, t1, t2, t3}
MCObjects == {q1} \X {"send", "recv"}
Nobody == [t \in MCTasks |-> {}]
TopFirst == (idle :> 0) @@ (t1 :> 2) @@ (t2 :> 1) @@ (t3 :> 1)
=============================================================================
