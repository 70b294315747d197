----------------------------- MODULE ReadyLists -----------------------------
(***************************************************************************)
(* The ready queues: one task list for each level of priority.  The code   *)
(* is the same in v0-nano, v1-secure and v3-smp.                           *)
(***************************************************************************)
EXTENDS TaskLists

CONSTANT MaxPriority   \* CONFIG_MAX_PRIORITY

Levels == 0..MaxPriority - 1
Level(prio) == IF prio < MaxPriority THEN prio ELSE MaxPriority - 1
Ready(p) == <<"ready", p>>

(* sched_add_ready and sched_remove_ready: the level of the task's present *)
(* priority pr[t], else the lowest level that holds it.                    *)
AddReady(lk, pr, t) == LinkLast(lk, Ready(Level(pr[t])), t)
RemoveReady(lk, pr, t) ==
  LET hits == {p \in Levels : On(lk, Ready(p), t)}
      own == Level(pr[t])
  IN  IF hits = {} THEN lk
      ELSE Remove(lk, Ready(IF own \in hits THEN own
                            ELSE CHOOSE p \in hits : \A q \in hits : p <= q), t)
=============================================================================
