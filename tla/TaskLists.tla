----------------------------- MODULE TaskLists ------------------------------
(***************************************************************************)
(* The singly linked task lists of v0-nano (v1-secure has the same code):  *)
(* every ready queue, the delay list and every wait queue are chained      *)
(* through the one field tcb->next.  A state of the lists is a record:     *)
(*   head[l]   the pointer that list l starts from                         *)
(*   next[t]   tcb->next of task t                                         *)
(* so an operation on one list may be seen to damage another.  On a cyclic *)
(* chain a walk ends after as many steps as there are tasks, where the     *)
(* code's would not end: no property survives a cycle (ListsSound).        *)
(***************************************************************************)
EXTENDS Integers, Sequences, FiniteSets

CONSTANTS Tasks,   \* TCBs
          Null     \* the null pointer

ASSUME ListAssumption == IsFiniteSet(Tasks) /\ Null \notin Tasks

(* The pointers read while walking list l, null ones last. *)
Pointers(links, l) ==
  LET pointer[n \in 0..Cardinality(Tasks)] ==
        IF n = 0 THEN links.head[l]
        ELSE LET p == pointer[n - 1] IN IF p = Null THEN Null ELSE links.next[p]
  IN  [n \in 1..Cardinality(Tasks) + 1 |-> pointer[n - 1]]

Chain(links, l) ==
  IF links.head[l] = Null THEN <<>>
  ELSE LET p == Pointers(links, l) IN [i \in {j \in DOMAIN p : p[j] # Null} |-> p[i]]
Acyclic(links, l) == Len(Chain(links, l)) < Len(Pointers(links, l))
On(links, l, t) == LET s == Chain(links, l) IN \E i \in 1..Len(s) : s[i] = t

(* The place of t in a list that holds it: its first one. *)
Place(links, l, t) ==
  LET s == Chain(links, l)
  IN  CHOOSE i \in 1..Len(s) : s[i] = t /\ \A j \in 1..i - 1 : s[j] # t

(* "*pp = t", with pp the head of l or the next of its i-th task. *)
SetLink(links, l, i, t) ==
  IF i = 0 THEN [links EXCEPT !.head[l] = t]
  ELSE [links EXCEPT !.next[Chain(links, l)[i]] = t]

SetNext(links, t, u) == [links EXCEPT !.next[t] = u]

(* To the end of the list, as in sched_add_ready. *)
LinkLast(links, l, t) ==
  SetNext(SetLink(links, l, Len(Chain(links, l)), t), t, Null)

(* What the i-th link of a list points to; the 0-th is its head. *)
Target(links, l, i) == IF i = 0 THEN links.head[l] ELSE links.next[Chain(links, l)[i]]

(* How many tasks from the head on are in passed. *)
StopsAt(s, passed, n) == /\ \A j \in 1..n : s[j] \in passed
                         /\ n < Len(s) => s[n + 1] \notin passed
Passing(links, l, passed) ==
  LET s == Chain(links, l) IN CHOOSE n \in 0..Len(s) : StopsAt(s, passed, n)

(* Mutant: "task->next = *pp" is missing. *)
InsertCut(links, l, t, passed) ==
  SetNext(SetLink(links, l, Passing(links, l, passed), t), t, Null)

(* Behind the first tasks of the list that are in passed, as in            *)
(* waitqueue_add and delay_add: "task->next = *pp; *pp = task".            *)
Insert(links, l, t, passed) ==
  LET i == Passing(links, l, passed)
      linked == SetLink(links, l, i, t)
      after == Target(links, l, i)
  IN  IF i > 0 /\ Chain(links, l)[i] = t THEN linked ELSE SetNext(linked, t, after)

(* Off the list, if it is on it: waitqueue_remove, sched_remove_ready. *)
Remove(links, l, t) ==
  IF On(links, l, t)
    THEN SetNext(SetLink(links, l, Place(links, l, t) - 1, links.next[t]), t, Null)
    ELSE links

(* The first one off a non-empty list: waitqueue_pop. *)
Pop(links, l) ==
  LET t == links.head[l]
  IN  SetNext([links EXCEPT !.head[l] = links.next[t]], t, Null)
=============================================================================
