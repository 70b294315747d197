---------------------------- MODULE MCUserKernel ----------------------------
(* An idle task, a machine-mode task and two user tasks, of which the one  *)
(* at the top waits with timeouts.                                         *)
EXTENDS UserKernel, TLC

CONSTANTS idle, m1, u1, u2

MCTasks == {idle, m1, u1, u2}
MCUsers == {u1, u2}
Bases == (0 :> 32) @@ (1 :> 48) @@ (m1 :> 64) @@ (idle :> 80) @@ (Null :> 96)
NoTls == [t \in MCUsers |-> "zero"]
OneTls == (u1 :> "tls") @@ (u2 :> "zero")
Priorities == (idle :> 0) @@ (m1 :> 2) @@ (u1 :> 3) @@ (u2 :> 1)

Do(op, ticks) == [op |-> op, ticks |-> ticks]
MCCalls ==
  (idle :> {}) @@
  (m1 :> {Do("sendFront", Forever), Do("receive", Forever), Do("peek", 0), Do("reset", 0),
          Do("delay", 1), Do("return", 0), Do("yield", 0)}) @@
  (u1 :> {Do("semWait", 1), Do("lock", Forever), Do("unlock", 0)}) @@
  (u2 :> {Do("semSignal", 0), Do("send", Forever),
          Do("lock", Forever), Do("unlock", 0), Do("info", 0), Do("semTry", 0),
          Do("yield", 0), Do("exit", 0), Do("fault", 0)})
MCManages == [t \in MCTasks |-> IF t = m1 THEN {u2} ELSE {}]
=============================================================================
