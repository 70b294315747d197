---------------------------- MODULE MCNanoKernel ----------------------------
(* The idle task and three others; a .cfg chooses what each of them calls. *)
EXTENDS NanoKernel, TLC

CONSTANTS idle, t1, t2, t3

MCTasks == {idle, t1, t2, t3}
Nobody == [t \in MCTasks |-> {}]

(* The first task alone at the highest level, as in the demos. *)
TopFirst == (idle :> 0) @@ (t1 :> 2) @@ (t2 :> 1) @@ (t3 :> 1)
AllEqual == (idle :> 0) @@ (t1 :> 1) @@ (t2 :> 1) @@ (t3 :> 1)

(* t1 manages t3; t3 may suspend itself or return. *)
ManagerSuspends == [Nobody EXCEPT ![t1] = {t3}, ![t3] = {t3}]
ManagerResumes == [Nobody EXCEPT ![t1] = {t3}]
(* t2 changes its own priority and that of t3. *)
Retuning == [Nobody EXCEPT ![t2] = {t2, t3}]
=============================================================================
