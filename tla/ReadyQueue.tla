----------------------------- MODULE ReadyQueue -----------------------------
(***************************************************************************)
(* The ready queue of src/kernel/scheduler.c (v2-msmp, v3-smp): one singly *)
(* linked list of TCBs per priority level, searched by affinity.  A list   *)
(* is the sequence of the tasks reached from its head through tcb->next.   *)
(***************************************************************************)
EXTENDS Integers, Sequences

CONSTANTS Tasks,       \* TCBs
          Cores,       \* harts
          MaxPriority, \* CONFIG_MAX_PRIORITY
          Affinity,    \* tcb->affinity_mask, as a set of cores
          Idle         \* g_idle_tasks: the idle task of each core

ASSUME QueueAssumption == /\ MaxPriority \in Nat \ {0}
                          /\ Affinity \in [Tasks -> SUBSET Cores]
                          /\ Idle \in [Cores -> Tasks]

Levels == 0..MaxPriority - 1
Queues == [Levels -> Seq(Tasks)]
EmptyQueues == [p \in Levels |-> <<>>]

(* "if (prio >= CONFIG_MAX_PRIORITY) prio = CONFIG_MAX_PRIORITY - 1" *)
Level(prio) == IF prio < MaxPriority THEN prio ELSE MaxPriority - 1

InList(s, t) == \E i \in 1..Len(s) : s[i] = t
Before(s, i, t) == \A j \in 1..i : s[j] # t
Position(s, t) == CHOOSE i \in 1..Len(s) : s[i] = t /\ Before(s, i - 1, t)

(* Mutant: the task is put in front. *)
LinkFirst(s, t) == <<t>> \o s
(* Mutant: the walk to the end of the list is forgotten. *)
LinkOnly(s, t) == <<t>>

(* A task is linked behind the last one and its own next cleared.  Doing   *)
(* that to a task already in the list cuts off whatever followed it.       *)
LinkLast(s, t) == IF InList(s, t) THEN SubSeq(s, 1, Position(s, t)) ELSE Append(s, t)

(* The list without the first link to t. *)
Unlink(s, t) == IF InList(s, t)
                  THEN [i \in 1..Len(s) - 1 |-> IF Before(s, i, t) THEN s[i] ELSE s[i + 1]]
                  ELSE s

(* sched_add_ready of a task of priority prio. *)
AddReady(rq, t, prio) == [rq EXCEPT ![Level(prio)] = LinkLast(@, t)]

(* Mutant: the task is left where it is. *)
KeepReady(rq, t, prio) == rq

(* sched_remove_ready: the level of the task's priority is searched first, *)
(* then every level from the lowest; only the first hit is unlinked.       *)
RemoveReady(rq, t, prio) ==
  LET hits == {p \in Levels : InList(rq[p], t)}
      p == IF Level(prio) \in hits THEN Level(prio)
           ELSE CHOOSE q \in hits : \A r \in hits : q <= r
  IN  IF hits = {} THEN rq ELSE [rq EXCEPT ![p] = Unlink(@, t)]

(* Mutant: the affinity mask is not looked at. *)
EligibleAnywhere(s, c) == 1..Len(s)

(* The tasks of a list that may run on core c, by their positions. *)
Eligible(s, c) == {i \in 1..Len(s) : c \in Affinity[s[i]]}

(* Mutant: the levels are searched from the lowest. *)
LowLevel(levels) == CHOOSE p \in levels : \A q \in levels : p <= q

(* The search runs from the highest level down. *)
TopLevel(levels) == CHOOSE p \in levels : \A q \in levels : q <= p

(* select_next_task_for_core: the first eligible task of the highest level *)
(* that has one, else the core's idle task.                                *)
SelectNext(rq, c) ==
  LET levels == {p \in Levels : Eligible(rq[p], c) # {}}
      top == TopLevel(levels)
      first == CHOOSE i \in Eligible(rq[top], c) :
                  \A j \in Eligible(rq[top], c) : i <= j
  IN  IF levels = {} THEN Idle[c] ELSE rq[top][first]
=============================================================================
