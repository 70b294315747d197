--------------------------- MODULE MCSecureKernel ---------------------------
(* Three tasks and the idle task, in both builds; the first one is alone   *)
(* at its level.  The memory map is that of linker.ld, one byte for a      *)
(* kilobyte from 0x80000000 on.                                            *)
EXTENDS SecureKernel, TLC

CONSTANTS idle, a, b, c

MCTasks == {idle, a, b, c}
UserTasks == {a, b, c}
OneMachineTask == {b, c}
Priorities == (idle :> 0) @@ (a :> 2) @@ (b :> 1) @@ (c :> 1)
UserMap == [base |-> 128, size |-> 384]
SharedMap == [base |-> 512, size |-> 64]
StacksMap == [base |-> 576, size |-> 448]
InUserMap == (idle :> 0) @@ (a :> 192) @@ (b :> 200) @@ (c :> 208)
Do(op, ticks) == [op |-> op, ticks |-> ticks]
Both(ops) == {Do("yield", 0), Do("delay", 1), Do("exit", 0), Do("info", 0)} \cup ops
MCCalls ==
  (idle :> {}) @@
  (a :> Both({Do("delayTicks", 1), Do("suspend", 0), Do("delete", 0), Do("create", 0),
              Do("retune", 0), Do("resume", 0), Do("semSignal", 0), Do("lock", 0),
              Do("unlock", 0)})) @@
  (b :> Both({Do("delay", 0), Do("fault", 0), Do("semWait", 0), Do("lock", 0),
              Do("unlock", 0)})) @@
  (c :> Both({Do("delay", 2), Do("delayTicks", 2), Do("suspend", 0), Do("return", 0),
              Do("semWait", 0)}))
MCManages == (idle :> {}) @@ (a :> {c}) @@ (b :> {}) @@ (c :> {c})
TwoResume == [MCCalls EXCEPT ![b] = @ \cup {Do("resume", 0)}]
TwoManage == [MCManages EXCEPT ![b] = {c}]

(* The tasks of this run are among those that the theorems are about. *)
ASSUME WithinScope == Disciplined
=============================================================================
