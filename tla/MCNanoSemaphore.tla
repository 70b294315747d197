-------------------------- MODULE MCNanoSemaphore ---------------------------
(* The idle task and three others with one or two semaphores. *)
EXTENDS NanoSemaphore, TLC

CONSTANTS idle, t1, t2, t3, s1, s2

MCTasks == {idle, t1, t2, t3}
Nobody == [t \in MCTasks |-> {}]
TopFirst == (idle :> 0) @@ (t1 :> 2) @@ (t2 :> 1) @@ (t3 :> 1)
Ones == [s \in Objects |-> 1]
TwoAndOne == [s \in Objects |-> IF s = s1 THEN 2 ELSE 1]
OneAndNone == [s \in Objects |-> IF s = s1 THEN 1 ELSE 0]
Zeros == [s \in Objects |-> 0]

(* Every task waits for and signals every semaphore. *)
AllUse == [t \in MCTasks |-> Objects]
(* t1 and t2 wait, t3 signals. *)
TwoWait == [Nobody EXCEPT ![t1] = Objects, ![t2] = Objects]
ThirdSignals == [Nobody EXCEPT ![t3] = Objects]
SelfRetune == [Nobody EXCEPT ![t2] = {t2}]
ThirdRetunes == [Nobody EXCEPT ![t3] = {t1}]
=============================================================================
