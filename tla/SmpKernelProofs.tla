--------------------------- MODULE SmpKernelProofs --------------------------
(***************************************************************************)
(* For any number of harts, tasks and priority levels, and delays of any   *)
(* length: no task is current on two harts if every task that calls        *)
(* delay_ticks or task_suspend is pinned to one hart, and no two harts     *)
(* share a stack if every task is.  If moreover the tasks that may return  *)
(* are pinned, and no task is resumed by two others, then the ready queue  *)
(* holds exactly the ready tasks, a task that waits stops, the sleepers    *)
(* are all in the delay list in the order of their wake-up, and each       *)
(* switch goes to the best task.                                           *)
(***************************************************************************)
EXTENDS SmpKernel, WellFoundedInduction, SequenceTheorems, TLAPS

-----------------------------------------------------------------------------
(* Least and greatest numbers, for the searches and orders of the proofs.  *)

(* A non-empty set of naturals has a least element ... *)
LEMMA LeastNat ==
  ASSUME NEW T, T \subseteq Nat, T # {}
  PROVE  \E x \in T : \A y \in T : x <= y
<1>1. PICK x \in T : \A y \in T : ~ (<<y, x>> \in OpToRel(<, Nat))
  BY WFMin, NatLessThanWellFounded
<1>2. \A y \in T : ~ (y < x)
  BY <1>1 DEF OpToRel
<1>3. QED BY <1>2

(* ... and one that is bounded has a greatest. *)
LEMMA GreatestNat ==
  ASSUME NEW n \in Nat, NEW T, T \subseteq 0..n - 1, T # {}
  PROVE  \E x \in T : \A y \in T : y <= x
<1> DEFINE D == {n - x : x \in T}
<1>1. D \subseteq Nat /\ D # {}
  OBVIOUS
<1>2. PICK d \in D : \A e \in D : d <= e
  BY <1>1, LeastNat
<1>3. PICK x \in T : d = n - x
  OBVIOUS
<1>4. \A y \in T : n - x <= n - y
  BY <1>2, <1>3
<1>5. QED BY <1>4

-----------------------------------------------------------------------------
(* What the operations of scheduler.c on the ready queue do.  Sound is the *)
(* shape they keep: no task twice in a list, and each at the level of its  *)
(* priority.                                                               *)

NoTwice(s) == \A i, j \in 1..Len(s) : s[i] = s[j] => i = j
Sound(rq, prio) == \A p \in Levels : /\ NoTwice(rq[p])
                                     /\ \A t \in Tasks : InList(rq[p], t) => Level(prio[t]) = p
Queued(rq, t) == \E p \in Levels : InList(rq[p], t)

LEMMA LevelType == ASSUME NEW prio \in Nat PROVE Level(prio) \in Levels
BY QueueAssumption DEF Level, Levels

(* Position finds the first place of a task that is in the list. *)
LEMMA PositionFirst ==
  ASSUME NEW s \in Seq(Tasks), NEW t \in Tasks, InList(s, t)
  PROVE  /\ Position(s, t) \in 1..Len(s)
         /\ s[Position(s, t)] = t
<1> DEFINE T == {i \in 1..Len(s) : s[i] = t}
<1>1. Len(s) \in Nat
  BY LenProperties
<1>2. T \subseteq Nat /\ T # {}
  BY <1>1 DEF InList
<1>3. PICK x \in T : \A y \in T : x <= y
  BY <1>2, LeastNat
<1>4. x \in 1..Len(s) /\ s[x] = t /\ Before(s, x - 1, t)
  BY <1>1, <1>3 DEF Before
<1>5. QED BY <1>4 DEF Position

(* sched_add_ready's linking: the task is in the list, nobody else has     *)
(* come, nobody is in it twice.                                            *)
LEMMA LinkLastKeeps ==
  ASSUME NEW s \in Seq(Tasks), NEW t \in Tasks, NoTwice(s)
  PROVE  /\ LinkLast(s, t) \in Seq(Tasks)
         /\ NoTwice(LinkLast(s, t))
         /\ \A u \in Tasks : InList(LinkLast(s, t), u) => u = t \/ InList(s, u)
<1>1. Len(s) \in Nat /\ \A i \in 1..Len(s) : s[i] \in Tasks
  BY LenProperties, ElementOfSeq
<1>2. CASE InList(s, t)
  <2> DEFINE n == Position(s, t)
  <2>1. n \in 1..Len(s)
    BY <1>2, PositionFirst
  <2>2. n \in Int /\ n >= 1 /\ \A i \in 1..n : s[i] \in Tasks
    BY <1>1, <2>1
  <2> HIDE DEF n
  <2>3. \A m \in Int : (\A i \in m..n : s[i] \in Tasks) =>
          /\ SubSeq(s, m, n) \in Seq(Tasks)
          /\ Len(SubSeq(s, m, n)) = IF m <= n THEN n - m + 1 ELSE 0
          /\ \A i \in 1..n - m + 1 : SubSeq(s, m, n)[i] = s[m + i - 1]
    BY <2>2, SubSeqProperties
  <2>4. /\ SubSeq(s, 1, n) \in Seq(Tasks)
        /\ Len(SubSeq(s, 1, n)) = n
        /\ \A i \in 1..n : SubSeq(s, 1, n)[i] = s[i]
    BY <2>2, <2>3
  <2>5. LinkLast(s, t) = SubSeq(s, 1, n)
    BY <1>2 DEF LinkLast, n
  <2>6. NoTwice(SubSeq(s, 1, n))
    BY <1>1, <2>1, <2>4 DEF NoTwice
  <2>7. \A u \in Tasks : InList(SubSeq(s, 1, n), u) => InList(s, u)
    BY <1>1, <2>1, <2>4 DEF InList
  <2>8. QED BY <2>4, <2>5, <2>6, <2>7
<1>3. CASE ~InList(s, t)
  <2>1. /\ Append(s, t) \in Seq(Tasks)
        /\ Len(Append(s, t)) = Len(s) + 1
        /\ \A i \in 1..Len(s) : Append(s, t)[i] = s[i]
        /\ Append(s, t)[Len(s) + 1] = t
    BY AppendProperties
  <2>2. LinkLast(s, t) = Append(s, t)
    BY <1>3 DEF LinkLast
  <2>3. NoTwice(Append(s, t))
    <3>1. \A i \in 1..Len(s) : s[i] # t
      BY <1>3 DEF InList
    <3>2. QED BY <1>1, <2>1, <3>1 DEF NoTwice
  <2>4. \A u \in Tasks : InList(Append(s, t), u) => u = t \/ InList(s, u)
    BY <1>1, <2>1 DEF InList
  <2>5. QED BY <2>1, <2>2, <2>3, <2>4
<1>4. QED BY <1>2, <1>3

(* Unlinking takes the task, and nobody else, off a list. *)
LEMMA UnlinkKeeps ==
  ASSUME NEW s \in Seq(Tasks), NEW t \in Tasks, NoTwice(s)
  PROVE  /\ Unlink(s, t) \in Seq(Tasks)
         /\ NoTwice(Unlink(s, t))
         /\ \A u \in Tasks : InList(Unlink(s, t), u) <=> u # t /\ InList(s, u)
<1>1. Len(s) \in Nat /\ \A i \in 1..Len(s) : s[i] \in Tasks
  BY LenProperties, ElementOfSeq
<1>2. CASE ~InList(s, t)
  BY <1>2 DEF Unlink
<1>3. CASE InList(s, t)
  <2>1. PICK k \in 1..Len(s) : s[k] = t
    BY <1>3 DEF InList
  <2> DEFINE n == Len(s) - 1
             r == [i \in 1..n |-> IF i < k THEN s[i] ELSE s[i + 1]]
  <2>2. n \in Nat
    BY <1>1, <2>1
  <2>3. \A i \in 1..n : Before(s, i, t) <=> i < k
    BY <1>1, <2>1 DEF Before, NoTwice
  <2>4. Unlink(s, t) = r
    BY <1>3, <2>3 DEF Unlink
  <2>5. \A i \in 1..n : r[i] \in Tasks
    BY <1>1, <2>1
  <2>6. r \in Seq(Tasks) /\ Len(r) = n
    BY <2>2, <2>5, SeqDef, LenProperties
  <2>7. NoTwice(r)
    BY <1>1, <2>1, <2>2, <2>6 DEF NoTwice
  <2>8. ASSUME NEW u \in Tasks
        PROVE  InList(r, u) <=> u # t /\ InList(s, u)
    <3>1. ASSUME NEW i \in 1..n, r[i] = u PROVE u # t /\ InList(s, u)
      BY <1>1, <2>1, <2>2, <3>1 DEF NoTwice, InList
    <3>2. ASSUME NEW i \in 1..Len(s), s[i] = u, u # t PROVE InList(r, u)
      <4>1. CASE i < k
        <5>1. i \in 1..n /\ r[i] = u BY <1>1, <2>1, <3>2, <4>1
        <5>2. QED BY <2>6, <5>1 DEF InList
      <4>2. CASE i > k
        <5>1. i - 1 \in 1..n /\ r[i - 1] = u BY <1>1, <2>1, <3>2, <4>2
        <5>2. QED BY <2>6, <5>1 DEF InList
      <4>3. QED BY <1>1, <2>1, <3>2, <4>1, <4>2
    <3>3. QED BY <2>6, <3>1, <3>2 DEF InList
  <2>9. QED BY <2>4, <2>6, <2>7, <2>8
<1>4. QED BY <1>2, <1>3

-----------------------------------------------------------------------------
(* sched_add_ready keeps the queue sound and queues nobody but the task.   *)
LEMMA AddReadyKeeps ==
  ASSUME NEW prio \in [Tasks -> Nat], NEW rq \in Queues, Sound(rq, prio), NEW t \in Tasks
  PROVE  /\ AddReady(rq, t, prio[t]) \in Queues
         /\ Sound(AddReady(rq, t, prio[t]), prio)
         /\ \A u \in Tasks : Queued(AddReady(rq, t, prio[t]), u) => u = t \/ Queued(rq, u)
<1> DEFINE l == Level(prio[t])
           q == AddReady(rq, t, prio[t])
<1>1. l \in Levels
  BY LevelType
<1>2. q = [rq EXCEPT ![l] = LinkLast(rq[l], t)]
  BY DEF AddReady
<1>3. rq[l] \in Seq(Tasks) /\ NoTwice(rq[l])
  BY <1>1 DEF Queues, Sound
<1>4. /\ LinkLast(rq[l], t) \in Seq(Tasks)
      /\ NoTwice(LinkLast(rq[l], t))
      /\ \A u \in Tasks : InList(LinkLast(rq[l], t), u) => u = t \/ InList(rq[l], u)
  BY <1>3, LinkLastKeeps
<1>5. q[l] = LinkLast(rq[l], t) /\ \A p \in Levels : p # l => q[p] = rq[p]
  BY <1>1, <1>2 DEF Queues
<1>6. q \in Queues
  BY <1>2, <1>4 DEF Queues
<1>7. Sound(q, prio)
  <2> HIDE DEF q
  <2>1. ASSUME NEW p \in Levels
        PROVE  NoTwice(q[p]) /\ \A u \in Tasks : InList(q[p], u) => Level(prio[u]) = p
    <3>1. CASE p = l BY <1>4, <1>5, <3>1 DEF Sound
    <3>2. CASE p # l BY <1>5, <3>2 DEF Sound
    <3>3. QED BY <3>1, <3>2
  <2>2. QED BY <2>1 DEF Sound
<1>8. \A u \in Tasks : Queued(q, u) => u = t \/ Queued(rq, u)
  <2> HIDE DEF q
  <2>1. QED BY <1>1, <1>4, <1>5 DEF Queued
<1>9. QED BY <1>6, <1>7, <1>8

(* A task that no list holds is linked behind the others, which stay.      *)
LEMMA AddReadyQueues ==
  ASSUME NEW prio \in [Tasks -> Nat], NEW rq \in Queues, NEW t \in Tasks, ~Queued(rq, t)
  PROVE  \A u \in Tasks : Queued(AddReady(rq, t, prio[t]), u) <=> u = t \/ Queued(rq, u)
<1> DEFINE l == Level(prio[t])
           q == AddReady(rq, t, prio[t])
<1>1. l \in Levels
  BY LevelType
<1>2. rq[l] \in Seq(Tasks) /\ ~InList(rq[l], t)
  BY <1>1 DEF Queues, Queued
<1>3. q[l] = Append(rq[l], t) /\ \A p \in Levels : p # l => q[p] = rq[p]
  BY <1>1, <1>2 DEF AddReady, LinkLast, Queues
<1>4. \A u \in Tasks : InList(Append(rq[l], t), u) <=> u = t \/ InList(rq[l], u)
  <2>1. /\ Len(rq[l]) \in Nat
        /\ Len(Append(rq[l], t)) = Len(rq[l]) + 1
        /\ \A i \in 1..Len(rq[l]) : Append(rq[l], t)[i] = rq[l][i]
        /\ Append(rq[l], t)[Len(rq[l]) + 1] = t
    BY <1>2, AppendProperties, LenProperties
  <2> HIDE DEF l
  <2>2. QED BY <2>1 DEF InList
<1> HIDE DEF q, l
<1>5. \A u \in Tasks : Queued(q, u) <=> u = t \/ Queued(rq, u)
  BY <1>1, <1>3, <1>4 DEF Queued
<1>6. QED BY <1>5 DEF q

(* sched_remove_ready keeps the queue sound; the task, and nobody else, is *)
(* in no list any more.                                                    *)
LEMMA RemoveReadyKeeps ==
  ASSUME NEW prio \in [Tasks -> Nat], NEW rq \in Queues, Sound(rq, prio), NEW t \in Tasks
  PROVE  /\ RemoveReady(rq, t, prio[t]) \in Queues
         /\ Sound(RemoveReady(rq, t, prio[t]), prio)
         /\ \A u \in Tasks : Queued(RemoveReady(rq, t, prio[t]), u) <=> u # t /\ Queued(rq, u)
<1> DEFINE l == Level(prio[t])
           q == RemoveReady(rq, t, prio[t])
           hits == {p \in Levels : InList(rq[p], t)}
<1>1. l \in Levels
  BY LevelType
<1>2. hits \subseteq {l}
  BY DEF Sound
<1>3. CASE hits = {}
  <2>1. q = rq
    BY <1>3 DEF RemoveReady
  <2>2. ~Queued(rq, t)
    BY <1>3 DEF Queued
  <2>3. QED BY <2>1, <2>2
<1>4. CASE l \in hits
  <2>1. q = [rq EXCEPT ![l] = Unlink(rq[l], t)]
    BY <1>4 DEF RemoveReady
  <2>2. rq[l] \in Seq(Tasks) /\ NoTwice(rq[l])
    BY <1>1 DEF Queues, Sound
  <2>3. /\ Unlink(rq[l], t) \in Seq(Tasks)
        /\ NoTwice(Unlink(rq[l], t))
        /\ \A u \in Tasks : InList(Unlink(rq[l], t), u) <=> u # t /\ InList(rq[l], u)
    BY <2>2, UnlinkKeeps
  <2>4. q[l] = Unlink(rq[l], t) /\ \A p \in Levels : p # l => q[p] = rq[p]
    BY <1>1, <2>1 DEF Queues
  <2>5. q \in Queues
    BY <2>1, <2>3 DEF Queues
  <2>6. \A p \in Levels : \A u \in Tasks : InList(q[p], u) <=> u # t /\ InList(rq[p], u)
    <3>1. \A p \in Levels : p # l => ~InList(rq[p], t)
      BY <1>2
    <3> HIDE DEF q
    <3>2. QED BY <2>3, <2>4, <3>1
  <2> HIDE DEF q
  <2>7. \A p \in Levels : NoTwice(q[p])
    BY <2>3, <2>4 DEF Sound
  <2>8. Sound(q, prio)
    BY <2>6, <2>7 DEF Sound
  <2>9. \A u \in Tasks : Queued(q, u) <=> u # t /\ Queued(rq, u)
    BY <2>6 DEF Queued
  <2>10. QED BY <2>5, <2>8, <2>9 DEF q
<1>5. QED BY <1>2, <1>3, <1>4

(* select_next_task_for_core returns a task that may run on the core: one  *)
(* that is queued, or the core's idle task.                                *)
LEMMA SelectNextEligible ==
  ASSUME NEW rq \in Queues, NEW c \in Cores
  PROVE  /\ SelectNext(rq, c) \in Tasks
         /\ \/ SelectNext(rq, c) = Idle[c]
            \/ Queued(rq, SelectNext(rq, c)) /\ c \in Affinity[SelectNext(rq, c)]
<1> DEFINE levels == {p \in Levels : Eligible(rq[p], c) # {}}
           top == TopLevel(levels)
           E == Eligible(rq[top], c)
           first == CHOOSE i \in E : \A j \in E : i <= j
<1>1. CASE levels = {}
  BY <1>1, QueueAssumption DEF SelectNext
<1>2. CASE levels # {}
  <2>1. SelectNext(rq, c) = rq[top][first]
    BY <1>2 DEF SelectNext
  <2>2. top \in levels
    <3>1. \E x \in levels : \A y \in levels : y <= x
      BY <1>2, QueueAssumption, GreatestNat DEF Levels
    <3>2. QED BY <3>1 DEF TopLevel
  <2>3. rq[top] \in Seq(Tasks) /\ E # {}
    BY <2>2 DEF Queues
  <2>4. Len(rq[top]) \in Nat /\ \A i \in 1..Len(rq[top]) : rq[top][i] \in Tasks
    BY <2>3, LenProperties, ElementOfSeq
  <2>5. E \subseteq Nat
    BY <2>4 DEF Eligible
  <2>6. first \in E
    <3>1. \E x \in E : \A y \in E : x <= y
      BY <2>3, <2>5, LeastNat
    <3>2. QED BY <3>1
  <2>7. first \in 1..Len(rq[top]) /\ c \in Affinity[rq[top][first]]
    BY <2>6 DEF Eligible
  <2>8. QED BY <2>1, <2>2, <2>4, <2>7 DEF Queued, InList
<1>3. QED BY <1>1, <1>2
(* ... and no other that may run there is of a higher level.               *)
LEMMA SelectNextBest ==
  ASSUME NEW prio \in [Tasks -> Nat], NEW rq \in Queues, Sound(rq, prio), NEW c \in Cores,
         NEW p \in Levels, NEW u \in Tasks, InList(rq[p], u), c \in Affinity[u]
  PROVE  p <= Level(prio[SelectNext(rq, c)])
<1> DEFINE levels == {q \in Levels : Eligible(rq[q], c) # {}}
           top == TopLevel(levels)
           E == Eligible(rq[top], c)
           first == CHOOSE i \in E : \A j \in E : i <= j
<1>1. p \in levels
  BY DEF Eligible, InList
<1>2. SelectNext(rq, c) = rq[top][first]
  BY <1>1 DEF SelectNext
<1>3. top \in levels /\ p <= top
  <2>1. \E x \in levels : \A y \in levels : y <= x
    BY <1>1, QueueAssumption, GreatestNat DEF Levels
  <2>2. QED BY <1>1, <2>1 DEF TopLevel
<1>4. rq[top] \in Seq(Tasks) /\ E # {}
  BY <1>3 DEF Queues
<1>5. Len(rq[top]) \in Nat /\ \A i \in 1..Len(rq[top]) : rq[top][i] \in Tasks
  BY <1>4, LenProperties, ElementOfSeq
<1>6. E \subseteq Nat
  BY <1>5 DEF Eligible
<1>7. first \in E
  <2>1. \E x \in E : \A y \in E : x <= y
    BY <1>4, <1>6, LeastNat
  <2>2. QED BY <2>1
<1>8. rq[top][first] \in Tasks /\ InList(rq[top], rq[top][first])
  BY <1>5, <1>7 DEF Eligible, InList
<1>9. Level(prio[rq[top][first]]) = top
  BY <1>3, <1>8 DEF Sound
<1>10. QED BY <1>2, <1>3, <1>9

-----------------------------------------------------------------------------
(* The sharing of the harts.                                               *)
(*                                                                         *)
(* The argument: a pinned task is only ever selected by its own hart, so   *)
(* it may even be queued while it is still current.  A task that migrates  *)
(* must not: it is queued only when it is preempted, by the hart it leaves *)
(* in the same section under g_sched_lock, and a section that selects it   *)
(* takes it off its only place in the queue.                               *)

(* The part of TypeOK that the argument needs, with the tasks of the delay *)
(* list known to be sleepers.                                              *)
Typed == /\ readyQueue \in Queues
         /\ state \in [Tasks -> States]
         /\ currentTask \in [Cores -> Tasks \cup {None}]
         /\ delayList \in Seq(Sleepers)
         /\ woken \in [Cores -> Sleepers \cup {None}]
         /\ pc \in [Cores -> CorePcs]
         /\ stack \in [Cores -> Tasks \cup {None}]
         /\ call \in [Tasks -> CallPcs]
         /\ cpuAt \in [Tasks -> Cores]
         /\ target \in [Tasks -> Tasks \cup {None}]

QueueSound == Sound(readyQueue, Priority)

(* A task that may migrate is not current while it is queued. *)
MigrantsLeave ==
  \A t \in Tasks, c \in Cores : Queued(readyQueue, t) /\ ~Pinned(t) => currentTask[c] # t

FreeNotCurrent == \A c \in Cores : currentTask[c] # None => state[currentTask[c]] # "FREE"

(* Between its switches a core is on the stack of its current task. *)
StackMatches ==
  \A c \in Cores : pc[c] # "boot" =>
    /\ currentTask[c] \in Tasks
    /\ pc[c] # "switched" => stack[c] = currentTask[c]

(* A core that adds to the delay list does so for a sleeper. *)
AddsSleepers == \A c \in Cores : pc[c] = "delayAdd" => currentTask[c] \in Sleepers

(* Only a task whose code suspends itself is ever suspended, or the target *)
(* of a resumer that has tested its state; a call that ends a task has     *)
(* read a hart that runs one.                                              *)
CallsSound ==
  \A t \in Tasks :
    /\ state[t] = "SUSPENDED" => t \in Suspenders
    /\ call[t] = "resume" => target[t] \in Suspenders
    /\ call[t] = "exit" => currentTask[cpuAt[t]] \in Tasks
    /\ call[t] = "suspend" => t \in Suspenders /\ cpuAt[t] \in Affinity[t]

IInv == /\ Typed /\ QueueSound /\ TaskOnOneCore /\ MigrantsLeave /\ FreeNotCurrent
        /\ StackMatches /\ AddsSleepers /\ CallsSound

-----------------------------------------------------------------------------
(* An idle task is pinned to its core. *)
LEMMA IdlePinned ==
  ASSUME NEW c \in Cores
  PROVE  Idle[c] \in Tasks /\ Affinity[Idle[c]] = {c} /\ Pinned(Idle[c])
BY QueueAssumption, KernelAssumption DEF Pinned

(* What dispatching does, on a queue whose migrating tasks are current     *)
(* nowhere else and with task states in which no current task is free.     *)
LEMMA DispatchKeeps ==
  ASSUME IInv, NEW c \in Cores, NEW rq \in Queues, NEW st \in [Tasks -> States],
         Sound(rq, Priority),
         \A t \in Tasks, d \in Cores \ {c} :
           Queued(rq, t) /\ ~Pinned(t) => currentTask[d] # t,
         \A d \in Cores : currentTask[d] # None => st[currentTask[d]] # "FREE",
         \A t \in Tasks : st[t] = "SUSPENDED" => t \in Suspenders,
         Dispatch(c, rq, st),
         UNCHANGED <<delayVars, stack, callVars>>
  PROVE  IInv'
<1> DEFINE next == SelectNext(rq, c)
<1>1. Priority \in [Tasks -> Nat] /\ None \notin Tasks /\ Affinity \in [Tasks -> SUBSET Cores]
  BY KernelAssumption, QueueAssumption
<1>2. /\ next \in Tasks
      /\ c \in Affinity[next]
      /\ Queued(rq, next) \/ Pinned(next)
  BY SelectNextEligible, IdlePinned
<1>3. /\ readyQueue' = RemoveReady(rq, next, Priority[next])
      /\ state' = [st EXCEPT ![next] = "RUNNING"]
      /\ currentTask' = [currentTask EXCEPT ![c] = next]
      /\ pc' = [pc EXCEPT ![c] = "switched"]
  BY DEF Dispatch
<1> HIDE DEF next
<1>4. /\ readyQueue' \in Queues
      /\ Sound(readyQueue', Priority)
      /\ \A u \in Tasks : Queued(readyQueue', u) <=> u # next /\ Queued(rq, u)
  BY <1>1, <1>2, <1>3, RemoveReadyKeeps
<1>5. /\ currentTask'[c] = next
      /\ \A d \in Cores \ {c} : currentTask'[d] = currentTask[d]
      /\ pc'[c] = "switched"
      /\ \A d \in Cores \ {c} : pc'[d] = pc[d]
  BY <1>3 DEF IInv, Typed
<1>6. \A d \in Cores \ {c} : currentTask[d] # next
  <2> SUFFICES ASSUME NEW d \in Cores \ {c}, currentTask[d] = next PROVE FALSE
    OBVIOUS
  <2>1. d \in Affinity[next]
    BY <1>1, <1>2 DEF IInv, TaskOnOneCore
  <2>2. ~Pinned(next)
    BY <1>2, <2>1 DEF Pinned
  <2>3. QED BY <1>2, <2>2
<1>7. Typed'
  BY <1>2, <1>3, <1>4 DEF IInv, Typed, States, CorePcs, delayVars, callVars
<1>8. QueueSound'
  BY <1>4 DEF QueueSound
<1>9. TaskOnOneCore'
  BY <1>2, <1>5, <1>6 DEF IInv, TaskOnOneCore
<1>10. MigrantsLeave'
  BY <1>4, <1>5 DEF MigrantsLeave
<1>11. FreeNotCurrent'
  BY <1>1, <1>2, <1>3, <1>5 DEF FreeNotCurrent, IInv, Typed
<1>12. StackMatches'
  BY <1>2, <1>5 DEF IInv, StackMatches
<1>13. AddsSleepers'
  BY <1>5 DEF IInv, AddsSleepers
<1>14. CallsSound'
  BY <1>2, <1>3, <1>5 DEF IInv, Typed, CallsSound, callVars
<1>15. QED BY <1>7, <1>8, <1>9, <1>10, <1>11, <1>12, <1>13, <1>14 DEF IInv

LEMMA InitIInv == Init => IInv
<1> SUFFICES ASSUME Init PROVE IInv
  OBVIOUS
<1>1. None \notin Tasks /\ BSP \in Cores
  BY KernelAssumption
<1>2. EmptyQueues \in Queues /\ \A p \in Levels : Len(EmptyQueues[p]) = 0
  BY EmptySeq DEF EmptyQueues, Queues
<1>3. \A t \in Tasks : ~Queued(readyQueue, t)
  <2>1. \A p \in Levels : 1..Len(EmptyQueues[p]) = {}
    BY <1>2
  <2>2. readyQueue = EmptyQueues
    BY DEF Init
  <2>3. QED BY <2>1, <2>2 DEF Queued, InList
<1>4. Typed
  BY <1>1, <1>2, EmptySeq DEF Init, Typed, States, CorePcs, CallPcs
<1>5. QueueSound
  BY <1>2 DEF Init, QueueSound, Sound, NoTwice, InList
<1>6. TaskOnOneCore /\ FreeNotCurrent
  BY DEF Init, TaskOnOneCore, FreeNotCurrent
<1>7. MigrantsLeave
  BY <1>3 DEF MigrantsLeave
<1>8. StackMatches /\ AddsSleepers /\ CallsSound
  BY DEF Init, StackMatches, AddsSleepers, CallsSound
<1>9. QED BY <1>4, <1>5, <1>6, <1>7, <1>8 DEF IInv

(* The steps that dispatch. *)
LEMMA DispatchSteps ==
  ASSUME IInv, NEW c \in Cores, SchedStart(c) \/ Schedule(c)
  PROVE  IInv'
<1>1. CASE SchedStart(c)
  <2>1. /\ Dispatch(c, readyQueue, state)
        /\ UNCHANGED <<delayVars, stack, callVars>>
    BY <1>1 DEF SchedStart
  <2>2. QED
    BY <2>1, DispatchKeeps DEF IInv, Typed, QueueSound, MigrantsLeave, FreeNotCurrent, CallsSound
<1>2. CASE Schedule(c)
  <2> DEFINE cur == currentTask[c]
             requeue == Requeued(cur)
             rq == IF requeue THEN AddReady(readyQueue, cur, Priority[cur]) ELSE readyQueue
             st == IF requeue THEN [state EXCEPT ![cur] = "READY"] ELSE state
  <2>1. /\ Dispatch(c, rq, st)
        /\ UNCHANGED <<delayVars, stack, callVars>>
        /\ pc[c] = "trap"
    BY <1>2 DEF Schedule
  <2>2. cur \in Tasks /\ cur # None
    BY <2>1, KernelAssumption DEF IInv, StackMatches
  <2>3. /\ rq \in Queues
        /\ Sound(rq, Priority)
        /\ \A u \in Tasks : Queued(rq, u) => u = cur \/ Queued(readyQueue, u)
    BY <2>2, AddReadyKeeps, KernelAssumption DEF IInv, Typed, QueueSound
  <2>4. st \in [Tasks -> States]
    BY <2>2 DEF IInv, Typed, States
  <2>5. \A t \in Tasks, d \in Cores \ {c} :
           Queued(rq, t) /\ ~Pinned(t) => currentTask[d] # t
    <3> SUFFICES ASSUME NEW t \in Tasks, NEW d \in Cores \ {c},
                        Queued(rq, t), ~Pinned(t)
                 PROVE  currentTask[d] # t
      OBVIOUS
    <3> HIDE DEF rq
    <3>1. CASE t = cur
      BY <2>2, <3>1 DEF IInv, TaskOnOneCore
    <3>2. CASE t # cur
      BY <2>3, <3>2 DEF IInv, MigrantsLeave
    <3>3. QED BY <3>1, <3>2
  <2>6. \A d \in Cores : currentTask[d] # None => st[currentTask[d]] # "FREE"
    BY <2>2 DEF IInv, FreeNotCurrent, Typed
  <2>7. \A t \in Tasks : st[t] = "SUSPENDED" => t \in Suspenders
    BY <2>2 DEF IInv, CallsSound, Typed
  <2> HIDE DEF rq, st
  <2>8. QED
    BY <2>1, <2>3, <2>4, <2>5, <2>6, <2>7, DispatchKeeps
<1>3. QED BY <1>1, <1>2

(* The steps that make a pinned or a new task ready. *)
LEMMA ReadySteps ==
  ASSUME IInv, NEW t \in Tasks,
         readyQueue' = AddReady(readyQueue, t, Priority[t]),
         state' = [state EXCEPT ![t] = "READY"],
         UNCHANGED currentTask,
         Pinned(t) \/ state[t] = "FREE"
  PROVE  QueueSound' /\ TaskOnOneCore' /\ MigrantsLeave' /\ FreeNotCurrent'
         /\ readyQueue' \in Queues /\ state' \in [Tasks -> States]
<1>1. Priority \in [Tasks -> Nat] /\ None \notin Tasks
  BY KernelAssumption
<1>2. /\ readyQueue' \in Queues
      /\ Sound(readyQueue', Priority)
      /\ \A u \in Tasks : Queued(readyQueue', u) => u = t \/ Queued(readyQueue, u)
  BY <1>1, AddReadyKeeps DEF IInv, Typed, QueueSound
<1>3. state' \in [Tasks -> States]
  BY DEF IInv, Typed, States
<1>4. \A d \in Cores : currentTask[d] = t => Pinned(t)
  BY <1>1 DEF IInv, FreeNotCurrent
<1>5. MigrantsLeave'
  BY <1>2, <1>4 DEF IInv, MigrantsLeave
<1>6. FreeNotCurrent'
  BY <1>1 DEF IInv, FreeNotCurrent, Typed
<1>7. QueueSound' /\ TaskOnOneCore'
  BY <1>2 DEF IInv, QueueSound, TaskOnOneCore
<1>8. QED BY <1>2, <1>3, <1>5, <1>6, <1>7

(* The steps that take a task off the queue and stop it. *)
LEMMA StopSteps ==
  ASSUME IInv, NEW t \in Tasks, NEW new \in States \ {"FREE"},
         readyQueue' = RemoveReady(readyQueue, t, Priority[t]),
         state' = [state EXCEPT ![t] = new],
         UNCHANGED currentTask
  PROVE  QueueSound' /\ TaskOnOneCore' /\ MigrantsLeave' /\ FreeNotCurrent'
         /\ readyQueue' \in Queues /\ state' \in [Tasks -> States]
<1>1. Priority \in [Tasks -> Nat]
  BY KernelAssumption
<1>2. /\ readyQueue' \in Queues
      /\ Sound(readyQueue', Priority)
      /\ \A u \in Tasks : Queued(readyQueue', u) <=> u # t /\ Queued(readyQueue, u)
  BY <1>1, RemoveReadyKeeps DEF IInv, Typed, QueueSound
<1>3. state' \in [Tasks -> States]
  BY DEF IInv, Typed
<1>4. MigrantsLeave'
  BY <1>2 DEF IInv, MigrantsLeave
<1>5. FreeNotCurrent'
  BY DEF IInv, FreeNotCurrent, Typed
<1>6. QueueSound' /\ TaskOnOneCore'
  BY <1>2 DEF IInv, QueueSound, TaskOnOneCore
<1>7. QED BY <1>2, <1>3, <1>4, <1>5, <1>6

-----------------------------------------------------------------------------
(* What remains of IInv when the scheduler's variables have been seen to. *)
Rest == StackMatches /\ AddsSleepers /\ CallsSound

LEMMA Unscheduled ==
  ASSUME IInv, UNCHANGED <<readyQueue, state, currentTask>>
  PROVE  QueueSound' /\ TaskOnOneCore' /\ MigrantsLeave' /\ FreeNotCurrent'
BY DEF IInv, QueueSound, TaskOnOneCore, MigrantsLeave, FreeNotCurrent

(* A task that executes is its core's current task, and may be there. *)
LEMMA ExecutesCurrent ==
  ASSUME IInv, NEW c \in Cores, NEW t \in Tasks, NEW at, Executes(c, t, at)
  PROVE  currentTask[c] = t /\ c \in Affinity[t]
BY KernelAssumption DEF IInv, StackMatches, TaskOnOneCore, Executes

LEMMA BootSteps ==
  ASSUME IInv, KernelStart \/ \E t \in Tasks : TaskCreate(t)
  PROVE  IInv'
<1>1. CASE KernelStart
  <2>1. QueueSound' /\ TaskOnOneCore' /\ MigrantsLeave' /\ FreeNotCurrent'
    BY <1>1, Unscheduled DEF KernelStart, schedVars
  <2>2. Typed' /\ Rest'
    BY <1>1 DEF KernelStart, schedVars, delayVars, callVars, IInv, Typed, Rest,
                StackMatches, AddsSleepers, CallsSound
  <2>3. QED BY <2>1, <2>2 DEF IInv, Rest
<1>2. ASSUME NEW t \in Tasks, TaskCreate(t) PROVE IInv'
  <2>1. /\ QueueSound' /\ TaskOnOneCore' /\ MigrantsLeave' /\ FreeNotCurrent'
        /\ readyQueue' \in Queues /\ state' \in [Tasks -> States]
    BY <1>2, ReadySteps DEF TaskCreate
  <2>2. Typed' /\ Rest'
    BY <1>2, <2>1 DEF TaskCreate, delayVars, callVars, IInv, Typed, Rest,
                      StackMatches, AddsSleepers, CallsSound
  <2>3. QED BY <2>1, <2>2 DEF IInv, Rest
<1>3. QED BY <1>1, <1>2

(* The steps of the kernel that leave the scheduler's variables alone. *)
LEMMA TrapSteps ==
  ASSUME IInv, NEW c \in Cores,
         Timer(c) \/ CheckWakeups(c) \/ NoSwitch(c) \/ TrapExit(c) \/ DelayUnlock(c)
  PROVE  IInv'
<1>1. QueueSound' /\ TaskOnOneCore' /\ MigrantsLeave' /\ FreeNotCurrent'
  BY Unscheduled DEF Timer, CheckWakeups, NoSwitch, TrapExit, DelayUnlock, schedVars
<1>2. CASE Timer(c) \/ NoSwitch(c)
  <2>1. Typed'
    BY <1>2 DEF Timer, NoSwitch, schedVars, delayVars, callVars, IInv, Typed, CorePcs
  <2>2. Rest'
    BY <1>2 DEF Timer, NoSwitch, schedVars, delayVars, callVars, IInv, Typed, Rest,
                StackMatches, AddsSleepers, CallsSound
  <2>3. QED BY <1>1, <2>1, <2>2 DEF IInv, Rest
<1>3. CASE CheckWakeups(c)
  <2>1. delayList # <<>> => Head(delayList) \in Sleepers /\ Tail(delayList) \in Seq(Sleepers)
    BY HeadTailProperties DEF IInv, Typed
  <2>2. Typed'
    BY <1>3, <2>1 DEF CheckWakeups, schedVars, callVars, IInv, Typed, CorePcs
  <2>3. Rest'
    BY <1>3 DEF CheckWakeups, schedVars, callVars, IInv, Typed, Rest,
                StackMatches, AddsSleepers, CallsSound
  <2>4. QED BY <1>1, <2>2, <2>3 DEF IInv, Rest
<1>4. CASE TrapExit(c)
  <2>1. Typed'
    BY <1>4 DEF TrapExit, schedVars, delayVars, callVars, IInv, Typed, CorePcs
  <2>2. Rest'
    BY <1>4 DEF TrapExit, schedVars, delayVars, callVars, IInv, Typed, Rest,
                StackMatches, AddsSleepers, CallsSound
  <2>3. QED BY <1>1, <2>1, <2>2 DEF IInv, Rest
<1>5. CASE DelayUnlock(c)
  <2>1. currentTask[c] \in Tasks
    BY <1>5 DEF DelayUnlock, IInv, StackMatches
  <2>2. Typed'
    BY <1>5, <2>1 DEF DelayUnlock, schedVars, IInv, Typed, CorePcs, CallPcs
  <2>3. Rest'
    BY <1>5, <2>1 DEF DelayUnlock, schedVars, IInv, Typed, Rest,
                      StackMatches, AddsSleepers, CallsSound
  <2>4. QED BY <1>1, <2>2, <2>3 DEF IInv, Rest
<1>6. QED BY <1>2, <1>3, <1>4, <1>5

(* delay_add_locked inserts the sleeper and keeps the others. *)
LEMMA InsertType ==
  ASSUME NEW dl \in Seq(Sleepers), NEW t \in Sleepers, NEW w
  PROVE  DelayInsert(dl, t, w) \in Seq(Sleepers)
<1> DEFINE Passed(i) == i <= Len(dl) /\ \A j \in 1..i : ticksLeft[dl[j]] <= w
<1>1. Len(dl) \in Nat /\ \A i \in 1..Len(dl) : dl[i] \in Sleepers
  BY LenProperties, ElementOfSeq
<1>2. Passed(0)
  BY <1>1
<1> HIDE DEF Passed
<1>3. ASSUME NEW i \in 1..Len(dl) + 1
      PROVE  (IF Passed(i) THEN dl[i] ELSE IF Passed(i - 1) THEN t ELSE dl[i - 1]) \in Sleepers
  <2>1. Passed(i) => i \in 1..Len(dl)
    BY <1>1 DEF Passed
  <2>2. ~Passed(i - 1) => i - 1 \in 1..Len(dl)
    BY <1>1, <1>2
  <2>3. QED BY <1>1, <2>1, <2>2
<1>4. DelayInsert(dl, t, w) =
        [i \in 1..Len(dl) + 1 |-> IF Passed(i) THEN dl[i]
                                  ELSE IF Passed(i - 1) THEN t ELSE dl[i - 1]]
  BY DEF DelayInsert, Passed
<1>5. Len(dl) + 1 \in Nat
  BY <1>1
<1>6. QED BY <1>3, <1>4, <1>5, SeqDef

LEMMA DelaySteps ==
  ASSUME IInv, WaitersPinned, NEW c \in Cores,
         DelayAddLocked(c) \/ DelayBlock(c) \/ WakeReady(c)
  PROVE  IInv'
<1>1. CASE DelayAddLocked(c)
  <2>1. QueueSound' /\ TaskOnOneCore' /\ MigrantsLeave' /\ FreeNotCurrent'
    BY <1>1, Unscheduled DEF DelayAddLocked, schedVars
  <2>2. currentTask[c] \in Sleepers
    BY <1>1 DEF DelayAddLocked, IInv, AddsSleepers
  <2>3. delayList' \in Seq(Sleepers)
    BY <1>1, <2>2, InsertType DEF DelayAddLocked, IInv, Typed
  <2>4. Typed'
    BY <1>1, <2>3 DEF DelayAddLocked, schedVars, callVars, IInv, Typed, CorePcs
  <2>5. Rest'
    BY <1>1 DEF DelayAddLocked, schedVars, callVars, IInv, Typed, Rest,
                StackMatches, AddsSleepers, CallsSound
  <2>6. QED BY <2>1, <2>4, <2>5 DEF IInv, Rest
<1>2. CASE DelayBlock(c)
  <2>1. currentTask[c] \in Tasks
    BY <1>2 DEF DelayBlock, IInv, StackMatches
  <2>2. /\ QueueSound' /\ TaskOnOneCore' /\ MigrantsLeave' /\ FreeNotCurrent'
        /\ readyQueue' \in Queues /\ state' \in [Tasks -> States]
    BY <1>2, <2>1, StopSteps DEF DelayBlock, States
  <2>3. Typed'
    BY <1>2, <2>2 DEF DelayBlock, delayVars, callVars, IInv, Typed, CorePcs
  <2>4. Rest'
    BY <1>2, <2>1 DEF DelayBlock, delayVars, callVars, IInv, Typed, Rest,
                      StackMatches, AddsSleepers, CallsSound
  <2>5. QED BY <2>2, <2>3, <2>4 DEF IInv, Rest
<1>3. CASE WakeReady(c)
  <2>1. woken[c] \in Sleepers /\ woken[c] \in Tasks /\ Pinned(woken[c])
    BY <1>3, KernelAssumption DEF WakeReady, IInv, Typed, WaitersPinned
  <2>2. /\ QueueSound' /\ TaskOnOneCore' /\ MigrantsLeave' /\ FreeNotCurrent'
        /\ readyQueue' \in Queues /\ state' \in [Tasks -> States]
    BY <1>3, <2>1, ReadySteps DEF WakeReady, MakeReady
  <2>3. Typed'
    BY <1>3, <2>2 DEF WakeReady, callVars, IInv, Typed
  <2>4. Rest'
    BY <1>3, <2>1 DEF WakeReady, MakeReady, callVars, IInv, Typed, Rest,
                      StackMatches, AddsSleepers, CallsSound
  <2>5. QED BY <2>2, <2>3, <2>4 DEF IInv, Rest
<1>4. QED BY <1>1, <1>2, <1>3

(* The steps of task code that leave the scheduler's variables alone. *)
LEMMA CallSteps ==
  ASSUME IInv, NEW c \in Cores, NEW t \in Tasks,
         \/ YieldCall(c, t) \/ RequestSwitch(c, t) \/ Ecall(c, t) \/ DelayTicks(c, t)
         \/ TaskSuspend(c, t) \/ TaskExitHandler(c, t)
         \/ YieldIfCurrent(c, t) \/ TaskResume(c, t)
  PROVE  IInv'
<1>1. UNCHANGED <<readyQueue, state, currentTask, delayList, woken, stack>>
  BY DEF YieldCall, RequestSwitch, Ecall, DelayTicks, TaskSuspend, TaskExitHandler,
         SelfCall, YieldIfCurrent, TaskResume, schedVars, delayVars, callVars
<1>2. QueueSound' /\ TaskOnOneCore' /\ MigrantsLeave' /\ FreeNotCurrent'
  BY <1>1, Unscheduled
<1>3. currentTask[c] = t /\ c \in Affinity[t]
  BY ExecutesCurrent DEF YieldCall, RequestSwitch, Ecall, DelayTicks, TaskSuspend,
     TaskExitHandler, SelfCall, YieldIfCurrent, TaskResume
<1>4. CASE DelayTicks(c, t)
  <2>1. Typed'
    BY <1>1, <1>4 DEF DelayTicks, callVars, IInv, Typed, CorePcs
  <2>2. Rest'
    BY <1>1, <1>3, <1>4 DEF DelayTicks, Executes, callVars, IInv, Typed, Rest,
       StackMatches, AddsSleepers, CallsSound
  <2>3. QED BY <1>2, <2>1, <2>2 DEF IInv, Rest
<1>5. CASE YieldCall(c, t) \/ RequestSwitch(c, t) \/ Ecall(c, t)
  <2>1. Typed'
    BY <1>1, <1>5 DEF YieldCall, RequestSwitch, Ecall, callVars, IInv, Typed, CorePcs, CallPcs
  <2>2. Rest'
    BY <1>1, <1>5 DEF YieldCall, RequestSwitch, Ecall, Executes, callVars, IInv, Typed, Rest,
       StackMatches, AddsSleepers, CallsSound
  <2>3. QED BY <1>2, <2>1, <2>2 DEF IInv, Rest
<1>6. CASE TaskSuspend(c, t) \/ TaskExitHandler(c, t)
  <2>1. Typed'
    BY <1>1, <1>6 DEF TaskSuspend, TaskExitHandler, SelfCall, IInv, Typed, CallPcs
  <2>2. Rest'
    BY <1>1, <1>3, <1>6 DEF TaskSuspend, TaskExitHandler, SelfCall, IInv, Typed, Rest,
       StackMatches, AddsSleepers, CallsSound
  <2>3. QED BY <1>2, <2>1, <2>2 DEF IInv, Rest
<1>7. CASE YieldIfCurrent(c, t)
  <2>1. Typed'
    BY <1>1, <1>7 DEF YieldIfCurrent, IInv, Typed, CallPcs
  <2>2. Rest'
    BY <1>1, <1>7 DEF YieldIfCurrent, IInv, Typed, Rest,
       StackMatches, AddsSleepers, CallsSound
  <2>3. QED BY <1>2, <2>1, <2>2 DEF IInv, Rest
<1>8. CASE TaskResume(c, t)
  <2>1. PICK u \in Resumes[t] : state[u] = "SUSPENDED" /\ target' = [target EXCEPT ![t] = u]
    BY <1>8 DEF TaskResume
  <2>2. u \in Tasks
    BY KernelAssumption
  <2>3. Typed'
    BY <1>1, <1>8, <2>1, <2>2 DEF TaskResume, IInv, Typed, CallPcs
  <2>4. Rest'
    BY <1>1, <1>8, <2>1, <2>2 DEF TaskResume, IInv, Typed, Rest,
       StackMatches, AddsSleepers, CallsSound
  <2>5. QED BY <1>2, <2>3, <2>4 DEF IInv, Rest
<1>9. QED BY <1>4, <1>5, <1>6, <1>7, <1>8

(* task_suspend(NULL), task_delete(NULL) and task_resume change the queue.  *)
(* A pinned task still finds itself current on the core it has read.       *)
LEMMA StopAndResumeSteps ==
  ASSUME IInv, WaitersPinned, NEW c \in Cores, NEW t \in Tasks,
         SuspendStop(c, t) \/ TaskDelete(c, t) \/ ResumeReady(c, t)
  PROVE  IInv'
<1>1. currentTask[c] = t /\ c \in Affinity[t]
  BY ExecutesCurrent DEF SuspendStop, TaskDelete, SelfStop, ResumeReady
<1>2. CASE SuspendStop(c, t)
  <2>1. t \in Suspenders /\ cpuAt[t] \in Affinity[t]
    BY <1>2 DEF SuspendStop, SelfStop, Executes, IInv, CallsSound
  <2>2. cpuAt[t] = c
    BY <1>1, <2>1 DEF WaitersPinned, Pinned
  <2>3. /\ readyQueue' = RemoveReady(readyQueue, t, Priority[t])
        /\ state' = [state EXCEPT ![t] = "SUSPENDED"]
        /\ target' = [target EXCEPT ![t] = t]
        /\ call' = [call EXCEPT ![t] = "check"]
        /\ UNCHANGED <<currentTask, needReschedule, delayVars, bootFlag, pc, stack, cpuAt>>
    BY <1>1, <1>2, <2>2 DEF SuspendStop, SelfStop
  <2>4. /\ QueueSound' /\ TaskOnOneCore' /\ MigrantsLeave' /\ FreeNotCurrent'
        /\ readyQueue' \in Queues /\ state' \in [Tasks -> States]
    BY <2>3, StopSteps DEF States
  <2>5. Typed'
    BY <2>3, <2>4 DEF delayVars, IInv, Typed, CallPcs
  <2>6. Rest'
    BY <2>1, <2>3 DEF IInv, Typed, Rest, StackMatches, AddsSleepers, CallsSound
  <2>7. QED BY <2>4, <2>5, <2>6 DEF IInv, Rest
<1>3. CASE TaskDelete(c, t)
  <2> DEFINE victim == currentTask[cpuAt[t]]
  <2>1. victim \in Tasks
    BY <1>3 DEF TaskDelete, SelfStop, Executes, IInv, CallsSound
  <2>2. /\ readyQueue' = RemoveReady(readyQueue, victim, Priority[victim])
        /\ state' = [state EXCEPT ![victim] = "DELETED"]
        /\ target' = [target EXCEPT ![t] = victim]
        /\ call' = [call EXCEPT ![t] = "check"]
        /\ cpuAt' = [cpuAt EXCEPT ![t] = c]
        /\ UNCHANGED <<currentTask, needReschedule, delayVars, bootFlag, pc, stack>>
    BY <1>3 DEF TaskDelete, SelfStop
  <2> HIDE DEF victim
  <2>3. /\ QueueSound' /\ TaskOnOneCore' /\ MigrantsLeave' /\ FreeNotCurrent'
        /\ readyQueue' \in Queues /\ state' \in [Tasks -> States]
    BY <2>1, <2>2, StopSteps DEF States
  <2>4. Typed'
    BY <2>1, <2>2, <2>3 DEF delayVars, IInv, Typed, CallPcs
  <2>5. Rest'
    BY <2>1, <2>2 DEF IInv, Typed, Rest, StackMatches, AddsSleepers, CallsSound
  <2>6. QED BY <2>3, <2>4, <2>5 DEF IInv, Rest
<1>4. CASE ResumeReady(c, t)
  <2>1. target[t] \in Suspenders /\ target[t] \in Tasks /\ Pinned(target[t])
    BY <1>4, KernelAssumption DEF ResumeReady, Executes, IInv, CallsSound, WaitersPinned
  <2>2. /\ QueueSound' /\ TaskOnOneCore' /\ MigrantsLeave' /\ FreeNotCurrent'
        /\ readyQueue' \in Queues /\ state' \in [Tasks -> States]
    BY <1>4, <2>1, ReadySteps DEF ResumeReady, MakeReady
  <2>3. Typed'
    BY <1>4, <2>2 DEF ResumeReady, delayVars, IInv, Typed, CallPcs
  <2>4. Rest'
    BY <1>4, <2>1 DEF ResumeReady, MakeReady, IInv, Typed, Rest,
                      StackMatches, AddsSleepers, CallsSound
  <2>5. QED BY <2>2, <2>3, <2>4 DEF IInv, Rest
<1>5. QED BY <1>2, <1>3, <1>4

LEMMA NextIInv == WaitersPinned /\ IInv /\ [Next]_vars => IInv'
<1> SUFFICES ASSUME WaitersPinned, IInv, [Next]_vars PROVE IInv'
  OBVIOUS
<1>1. CASE KernelStart \/ \E t \in Tasks : TaskCreate(t)
  BY <1>1, BootSteps
<1>2. ASSUME NEW c \in Cores, KernelStep(c) \/ Timer(c) PROVE IInv'
  BY <1>2, DispatchSteps, TrapSteps, DelaySteps DEF KernelStep
<1>3. ASSUME NEW c \in Cores, NEW t \in Tasks, TaskStep(c, t) PROVE IInv'
  BY <1>3, CallSteps, StopAndResumeSteps DEF TaskStep
<1>4. CASE UNCHANGED vars
  <2>1. QueueSound' /\ TaskOnOneCore' /\ MigrantsLeave' /\ FreeNotCurrent'
    BY <1>4, Unscheduled DEF vars, schedVars
  <2>2. Typed' /\ Rest'
    BY <1>4 DEF vars, schedVars, delayVars, callVars, IInv, Typed, Rest,
                StackMatches, AddsSleepers, CallsSound
  <2>3. QED BY <2>1, <2>2 DEF IInv, Rest
<1>5. QED BY <1>1, <1>2, <1>3, <1>4 DEF Next

-----------------------------------------------------------------------------
(* If every task that calls delay_ticks or task_suspend is pinned to one   *)
(* hart, no task is ever current on two harts, nor on one that its         *)
(* affinity mask excludes: the others may migrate, be preempted, yield,    *)
(* resume tasks and return.                                                *)
THEOREM PinnedWaitersShareCores == WaitersPinned => (Spec => []TaskOnOneCore)
<1> SUFFICES ASSUME WaitersPinned PROVE Spec => []TaskOnOneCore
  OBVIOUS
<1>1. IInv => TaskOnOneCore
  BY DEF IInv
<1>2. IInv /\ [Next]_vars => IInv'
  BY NextIInv
<1>3. QED BY InitIInv, <1>1, <1>2, PTL DEF Spec

(* If every task is pinned, no two harts are ever on one stack, although   *)
(* sched_schedule lets a task go before the hart has left its stack.       *)
StacksPinned == \A c \in Cores : stack[c] # None => stack[c] \in Tasks /\ c \in Affinity[stack[c]]

LEMMA NextStacksPinned == IInv /\ StacksPinned /\ [Next]_vars => StacksPinned'
<1> SUFFICES ASSUME IInv, StacksPinned, [Next]_vars PROVE StacksPinned'
  OBVIOUS
<1>1. CASE UNCHANGED stack
  BY <1>1 DEF StacksPinned
<1>2. ASSUME NEW c \in Cores, TrapExit(c) PROVE StacksPinned'
  <2>1. currentTask[c] \in Tasks /\ c \in Affinity[currentTask[c]]
    BY <1>2, KernelAssumption DEF TrapExit, IInv, StackMatches, TaskOnOneCore
  <2>2. stack' = [stack EXCEPT ![c] = currentTask[c]]
    BY <1>2 DEF TrapExit
  <2>3. QED BY <2>1, <2>2 DEF StacksPinned, IInv, Typed
<1>3. CASE Next
  <2>1. UNCHANGED stack \/ \E c \in Cores : TrapExit(c)
    BY <1>3, ZenonT(60) DEF Next, TaskCreate, KernelStart, KernelStep, Timer, TaskStep, SchedStart,
       CheckWakeups, WakeReady, Schedule, NoSwitch, DelayAddLocked, DelayBlock, DelayUnlock,
       YieldCall, RequestSwitch, Ecall, DelayTicks, TaskSuspend, SuspendStop, TaskExitHandler,
       TaskDelete, SelfCall, SelfStop, YieldIfCurrent, TaskResume, ResumeReady
  <2>2. QED BY <1>1, <1>2, <2>1
<1>4. QED BY <1>1, <1>3 DEF vars

THEOREM PinnedTasksOwnStacks == (\A t \in Tasks : Pinned(t)) => (Spec => []StackExclusive)
<1> SUFFICES ASSUME \A t \in Tasks : Pinned(t) PROVE Spec => []StackExclusive
  OBVIOUS
<1>1. WaitersPinned
  BY KernelAssumption DEF WaitersPinned
<1>2. Init => IInv /\ StacksPinned
  BY InitIInv DEF Init, StacksPinned
<1>3. IInv /\ StacksPinned /\ [Next]_vars => (IInv /\ StacksPinned)'
  BY <1>1, NextIInv, NextStacksPinned
<1>4. StacksPinned => StackExclusive
  BY DEF StacksPinned, StackExclusive, Pinned
<1>5. QED BY <1>2, <1>3, <1>4, PTL DEF Spec

-----------------------------------------------------------------------------
(* The exact queue.                                                        *)
(*                                                                         *)
(* The argument: whatever is queued is READY, so a task made ready, which  *)
(* was not, is appended to a list that does not hold it, and never cuts    *)
(* one (LinkLast).  For the tasks that make others ready this needs that a *)
(* task found SUSPENDED still is when it is resumed.  For a task that      *)
(* blocks itself it needs that it is RUNNING then: a current task that is  *)
(* not RUNNING is always on its way to a trap that will switch (Stopping). *)

Waiters == Sleepers \cup Suspenders \cup Leavers

Disciplined ==
  /\ \A t \in Waiters : Pinned(t) /\ t \notin IdleTasks
  /\ \A t, u \in Tasks : t # u => Resumes[t] \cap Resumes[u] = {}

(* The variables that Typed leaves out, but for the times.                 *)
Flags == /\ needReschedule \in [Cores -> BOOLEAN]
         /\ delayLock \in Cores \cup {None}
         /\ bootFlag \in BOOLEAN

(* What is queued is READY, and what is READY is queued. *)
Exact(rq, st) ==
  \A t \in Tasks : /\ Queued(rq, t) => st[t] = "READY"
                   /\ st[t] = "READY" => t \in IdleTasks \/ Queued(rq, t)

RunningCurrent == \A t \in Tasks : state[t] = "RUNNING" => \E c \in Cores : currentTask[c] = t

IdlesRun(st) == \A c \in Cores : st[Idle[c]] \in {"READY", "RUNNING"}

QueueExact == Exact(readyQueue, state) /\ RunningCurrent /\ IdlesRun(state)

(* A task is SUSPENDED until its only resumer, which has seen it so, makes *)
(* it ready; only a task that may return deletes itself.                   *)
CallsPinned ==
  \A t \in Tasks :
    /\ call[t] = "exit" => t \in Leavers /\ cpuAt[t] \in Affinity[t]
    /\ call[t] = "resume" => target[t] \in Resumes[t] /\ state[target[t]] = "SUSPENDED"

(* The current task of core c has stopped itself and is on its way to the  *)
(* switch, through preemptions that find it in the middle of task_yield.   *)
Stopping(c, t) ==
  /\ t \in Waiters
  /\ \/ pc[c] = "delayUnlock"
     \/ pc[c] = "trap" /\ needReschedule[c]
     \/ /\ pc[c] \in {"task", "wakeups", "trap"}
        /\ \/ call[t] = "yield"
           \/ call[t] = "check" /\ target[t] = t /\ cpuAt[t] = c
           \/ call[t] = "request" /\ cpuAt[t] = c
           \/ call[t] = "ecall" /\ needReschedule[c]

RunsOrStops ==
  \A c \in Cores : pc[c] # "boot" =>
    state[currentTask[c]] = "RUNNING" \/ Stopping(c, currentTask[c])

(* Who is where in the kernel. *)
SectionsHeld ==
  \A c \in Cores :
    /\ pc[c] = "boot" => currentTask[c] = None
    /\ pc[c] \in {"delayAdd", "delayBlock", "delayUnlock"} =>
         delayLock = c /\ currentTask[c] \in Sleepers
    /\ pc[c] = "wakeups" => c = BSP
    /\ woken[c] # None => pc[c] = "wakeups"

(* The delay list holds the blocked tasks, each once, but for the one that *)
(* is about to block and the one that has just been taken off.             *)
Blocking(t) == \E c \in Cores : currentTask[c] = t /\ pc[c] = "delayBlock"

DelaySound ==
  /\ NoTwice(delayList)
  /\ \A t \in Tasks : InList(delayList, t) => state[t] = "BLOCKED" \/ Blocking(t)
  /\ \A c \in Cores : pc[c] = "delayBlock" => InList(delayList, currentTask[c])
  /\ \A t \in Tasks : state[t] = "BLOCKED" =>
       InList(delayList, t) \/ \E c \in Cores : woken[c] = t
  /\ \A c \in Cores : woken[c] # None =>
       state[woken[c]] = "BLOCKED" /\ ~InList(delayList, woken[c])

(* The delays: the list is sorted, and but for the ticks that hart 0 is    *)
(* handling nobody in it, and nobody who is about to enter it, is due.     *)
Ticks ==
  /\ ticksLeft \in [Tasks -> 0..MaxTicks]
  /\ wake \in [Cores -> 0..MaxTicks]
  /\ \A i, j \in 1..Len(delayList) : i < j => ticksLeft[delayList[i]] <= ticksLeft[delayList[j]]
  /\ pc[BSP] # "wakeups" =>
       /\ \A i \in 1..Len(delayList) : ticksLeft[delayList[i]] > 0
       /\ \A c \in Cores : pc[c] = "delayAdd" => wake[c] > 0

SInv == /\ IInv /\ Flags /\ QueueExact /\ CallsPinned /\ RunsOrStops
        /\ SectionsHeld /\ DelaySound

-----------------------------------------------------------------------------
LEMMA DisciplinedPinned == Disciplined => WaitersPinned
BY DEF Disciplined, Waiters, WaitersPinned

LEMMA Constants ==
  /\ Priority \in [Tasks -> Nat] /\ None \notin Tasks /\ None \notin Cores /\ BSP \in Cores
  /\ Waiters \subseteq Tasks
  /\ \A t \in Tasks : Resumes[t] \subseteq Tasks
BY KernelAssumption DEF Waiters

(* A task in the delay list is BLOCKED, or RUNNING on the hart that is     *)
(* about to block it.                                                      *)
LEMMA ListedWaits ==
  ASSUME SInv, NEW t \in Tasks, InList(delayList, t)
  PROVE  /\ state[t] \in {"BLOCKED", "RUNNING"}
         /\ \A c \in Cores : currentTask[c] = t /\ state[t] = "RUNNING" => pc[c] = "delayBlock"
<1>1. state[t] = "BLOCKED" \/ Blocking(t)
  BY DEF SInv, DelaySound
<1>2. ASSUME NEW c \in Cores, currentTask[c] = t, pc[c] = "delayBlock"
      PROVE  state[t] = "RUNNING" /\ \A d \in Cores : currentTask[d] = t => d = c
  <2>1. state[t] = "RUNNING"
    BY <1>2 DEF SInv, RunsOrStops, Stopping
  <2>2. QED BY <1>2, <2>1, Constants DEF SInv, IInv, TaskOnOneCore
<1>3. QED BY <1>1, <1>2 DEF Blocking

(* What executes is RUNNING, unless it is on its way to a switch. *)
LEMMA ExecutesRunning ==
  ASSUME SInv, NEW c \in Cores, NEW t \in Tasks, NEW at, Executes(c, t, at),
         at \in SUBSET {"run", "suspend", "exit", "resume"}
  PROVE  state[t] = "RUNNING"
<1>1. currentTask[c] = t /\ pc[c] = "task" /\ call[t] \in at
  BY ExecutesCurrent DEF SInv, Executes
<1>2. ~Stopping(c, t)
  BY <1>1 DEF Stopping
<1>3. QED BY <1>1, <1>2 DEF SInv, RunsOrStops

LEMMA InitSInv == Init => SInv
<1> SUFFICES ASSUME Init PROVE SInv
  OBVIOUS
<1>1. IInv /\ Flags
  BY InitIInv DEF Init, Flags
<1>2. \A t \in Tasks : ~Queued(readyQueue, t)
  <2>1. \A p \in Levels : 1..Len(EmptyQueues[p]) = {}
    BY EmptySeq DEF EmptyQueues
  <2>2. readyQueue = EmptyQueues
    BY DEF Init
  <2>3. QED BY <2>1, <2>2 DEF Queued, InList
<1>3. QueueExact
  BY <1>2, QueueAssumption DEF Init, QueueExact, Exact, RunningCurrent, IdlesRun, IdleTasks
<1>4. CallsPinned /\ RunsOrStops /\ SectionsHeld
  BY DEF Init, CallsPinned, RunsOrStops, SectionsHeld
<1>5. DelaySound
  <2>1. \A t \in Tasks : ~InList(<<>>, t)
    BY EmptySeq DEF InList
  <2>2. NoTwice(<<>>)
    BY EmptySeq DEF NoTwice
  <2>3. QED BY <2>1, <2>2 DEF Init, DelaySound
<1>6. QED BY <1>1, <1>3, <1>4, <1>5 DEF SInv
-----------------------------------------------------------------------------
(* Parts of SInv that most steps keep for the same reason.                 *)

LEMMA ExactKept ==
  ASSUME SInv, UNCHANGED <<readyQueue, state, currentTask>>
  PROVE  QueueExact'
BY DEF SInv, QueueExact, RunningCurrent

LEMMA DelayKept ==
  ASSUME SInv, UNCHANGED <<delayList, woken>>,
         \A t \in Tasks : state'[t] = "BLOCKED" <=> state[t] = "BLOCKED",
         \A c \in Cores : (pc'[c] = "delayBlock") = (pc[c] = "delayBlock"),
         \A c \in Cores : pc[c] = "delayBlock" => currentTask'[c] = currentTask[c]
  PROVE  DelaySound'
<1>1. \A t \in Tasks : Blocking(t)' <=> Blocking(t)
  BY DEF Blocking
<1>2. \A d \in Cores : woken[d] # None => woken[d] \in Tasks
  BY Constants DEF SInv, IInv, Typed, Waiters
<1>3. QED BY <1>1, <1>2 DEF SInv, DelaySound

(* A step of core c, or of its current task t, leaves the other current    *)
(* tasks running or stopping.                                              *)
LEMMA OthersRun ==
  ASSUME SInv, NEW c \in Cores, NEW t \in Tasks, currentTask[c] = t, UNCHANGED currentTask,
         \A d \in Cores \ {c} :
           pc'[d] = pc[d] /\ (needReschedule[d] => needReschedule'[d]),
         \A u \in Tasks \ {t} :
           /\ call'[u] = call[u] /\ target'[u] = target[u] /\ cpuAt'[u] = cpuAt[u]
           /\ state[u] = "RUNNING" => state'[u] = "RUNNING",
         state'[t] = "RUNNING" \/ Stopping(c, t)'
  PROVE  RunsOrStops'
<1>1. ASSUME NEW d \in Cores \ {c}, NEW u \in Tasks \ {t}, currentTask[d] = u,
             state[u] = "RUNNING" \/ Stopping(d, u)
      PROVE  state'[u] = "RUNNING" \/ Stopping(d, u)'
  <2>1. CASE state[u] = "RUNNING"
    BY <2>1
  <2>2. CASE Stopping(d, u)
    <3>1. /\ pc'[d] = pc[d] /\ (needReschedule[d] => needReschedule'[d])
          /\ call'[u] = call[u] /\ target'[u] = target[u] /\ cpuAt'[u] = cpuAt[u]
      OBVIOUS
    <3>2. QED BY <2>2, <3>1 DEF Stopping
  <2>3. QED BY <1>1, <2>1, <2>2
<1>2. ASSUME NEW d \in Cores \ {c}, pc'[d] # "boot"
      PROVE  state'[currentTask'[d]] = "RUNNING" \/ Stopping(d, currentTask[d])'
  <2>1. currentTask[d] \in Tasks \ {t} /\ pc[d] # "boot"
    BY <1>2, Constants DEF SInv, IInv, StackMatches, TaskOnOneCore
  <2>2. state[currentTask[d]] = "RUNNING" \/ Stopping(d, currentTask[d])
    BY <2>1 DEF SInv, RunsOrStops
  <2>3. QED BY <1>1, <2>1, <2>2
<1>3. QED BY <1>2 DEF RunsOrStops

-----------------------------------------------------------------------------
(* Dispatching from an exact queue whose RUNNING tasks are current on the  *)
(* other harts: the selected task was ready, and is all that changes.      *)
LEMMA DispatchExact ==
  ASSUME SInv, NEW c \in Cores, NEW rq \in Queues, NEW st \in [Tasks -> States],
         Sound(rq, Priority), Exact(rq, st), IdlesRun(st),
         \A t \in Tasks : st[t] = "RUNNING" => \E d \in Cores \ {c} : currentTask[d] = t,
         Dispatch(c, rq, st)
  PROVE  /\ QueueExact'
         /\ \E next \in Tasks :
              /\ next = SelectNext(rq, c) /\ st[next] = "READY"
              /\ state' = [st EXCEPT ![next] = "RUNNING"]
              /\ currentTask' = [currentTask EXCEPT ![c] = next]
              /\ pc' = [pc EXCEPT ![c] = "switched"]
<1> DEFINE next == SelectNext(rq, c)
<1>1. /\ next \in Tasks
      /\ next = Idle[c] \/ Queued(rq, next)
  BY SelectNextEligible
<1>2. /\ readyQueue' = RemoveReady(rq, next, Priority[next])
      /\ state' = [st EXCEPT ![next] = "RUNNING"]
      /\ currentTask' = [currentTask EXCEPT ![c] = next]
      /\ pc' = [pc EXCEPT ![c] = "switched"]
  BY DEF Dispatch
<1> HIDE DEF next
<1>3. st[next] = "READY"
  <2>1. CASE Queued(rq, next)
    BY <1>1, <2>1 DEF Exact
  <2>2. CASE next = Idle[c]
    <3>1. st[next] = "RUNNING" => \E d \in Cores \ {c} : currentTask[d] = next
      BY <1>1
    <3>2. \A d \in Cores : currentTask[d] = next => d = c
      BY <1>1, <2>2, IdlePinned, Constants DEF SInv, IInv, TaskOnOneCore
    <3>3. QED BY <2>2, <3>1, <3>2 DEF IdlesRun
  <2>3. QED BY <1>1, <2>1, <2>2
<1>4. \A u \in Tasks : Queued(readyQueue', u) <=> u # next /\ Queued(rq, u)
  BY <1>1, <1>2, RemoveReadyKeeps, Constants
<1>5. Exact(readyQueue', state')
  BY <1>1, <1>2, <1>4 DEF Exact
<1>6. RunningCurrent'
  <2>1. currentTask'[c] = next /\ \A d \in Cores \ {c} : currentTask'[d] = currentTask[d]
    BY <1>2 DEF SInv, IInv, Typed
  <2>2. \A t \in Tasks \ {next} : state'[t] = st[t]
    BY <1>2
  <2>3. QED BY <2>1, <2>2 DEF RunningCurrent
<1>7. IdlesRun(state')
  BY <1>1, <1>2, QueueAssumption DEF IdlesRun
<1>8. QED BY <1>1, <1>2, <1>3, <1>5, <1>6, <1>7 DEF QueueExact, next

(* What a dispatching step dispatches from. *)
LEMMA DispatchFrom ==
  ASSUME SInv, NEW c \in Cores, SchedStart(c) \/ Schedule(c)
  PROVE  \E rq \in Queues, st \in [Tasks -> States] :
           /\ Sound(rq, Priority) /\ Exact(rq, st) /\ IdlesRun(st)
           /\ \A t \in Tasks : st[t] = "RUNNING" => \E d \in Cores \ {c} : currentTask[d] = t
           /\ \A t \in Tasks : st[t] # state[t] =>
                 state[t] = "RUNNING" /\ st[t] = "READY" /\ currentTask[c] = t
           /\ Dispatch(c, rq, st)
<1>1. CASE SchedStart(c)
  <2>1. Dispatch(c, readyQueue, state) /\ currentTask[c] = None
    BY <1>1 DEF SchedStart, SInv, SectionsHeld
  <2>2. \A t \in Tasks : state[t] = "RUNNING" => \E d \in Cores \ {c} : currentTask[d] = t
    BY <2>1, Constants DEF SInv, QueueExact, RunningCurrent
  <2>3. QED BY <2>1, <2>2 DEF SInv, IInv, Typed, QueueSound, QueueExact
<1>2. CASE Schedule(c)
  <2> DEFINE cur == currentTask[c]
  <2>1. cur \in Tasks
    BY <1>2 DEF Schedule, SInv, IInv, StackMatches
  <2>2. CASE state[cur] # "RUNNING"
    <3>1. Dispatch(c, readyQueue, state)
      BY <1>2, <2>2 DEF Schedule, Requeued
    <3>2. \A t \in Tasks : state[t] = "RUNNING" => \E d \in Cores \ {c} : currentTask[d] = t
      BY <2>2 DEF SInv, QueueExact, RunningCurrent
    <3>3. QED BY <3>1, <3>2 DEF SInv, IInv, Typed, QueueSound, QueueExact
  <2>3. CASE state[cur] = "RUNNING"
    <3> DEFINE rq == AddReady(readyQueue, cur, Priority[cur])
               st == [state EXCEPT ![cur] = "READY"]
    <3>1. Dispatch(c, rq, st)
      BY <1>2, <2>3 DEF Schedule, Requeued
    <3>2. rq \in Queues /\ Sound(rq, Priority)
      BY <2>1, AddReadyKeeps, Constants DEF SInv, IInv, Typed, QueueSound
    <3>3. \A u \in Tasks : Queued(rq, u) <=> u = cur \/ Queued(readyQueue, u)
      <4>1. ~Queued(readyQueue, cur)
        BY <2>1, <2>3 DEF SInv, QueueExact, Exact
      <4>2. QED BY <2>1, <4>1, AddReadyQueues, Constants DEF SInv, IInv, Typed
    <3>4. /\ st \in [Tasks -> States]
          /\ st[cur] = "READY" /\ \A t \in Tasks \ {cur} : st[t] = state[t]
      BY <2>1 DEF SInv, IInv, Typed, States
    <3> HIDE DEF rq, st
    <3>5. Exact(rq, st) /\ IdlesRun(st)
      BY <3>3, <3>4, QueueAssumption DEF SInv, QueueExact, Exact, IdlesRun
    <3>6. \A t \in Tasks : st[t] = "RUNNING" => \E d \in Cores \ {c} : currentTask[d] = t
      BY <3>4 DEF SInv, QueueExact, RunningCurrent
    <3>7. \A t \in Tasks : st[t] # state[t] =>
             state[t] = "RUNNING" /\ st[t] = "READY" /\ currentTask[c] = t
      BY <2>3, <3>4
    <3>8. QED BY <3>1, <3>2, <3>4, <3>5, <3>6, <3>7
  <2>4. QED BY <2>2, <2>3
<1>3. QED BY <1>1, <1>2

(* What a dispatching step does to the tasks: hart c goes from its current *)
(* task, if that still runs made ready, to one that was ready.             *)
Dispatched(c, next) ==
  /\ state[next] = "READY" \/ (state[next] = "RUNNING" /\ currentTask[c] = next)
  /\ state'[next] = "RUNNING"
  /\ \A t \in Tasks \ {next} :
       \/ state'[t] = state[t]
       \/ state[t] = "RUNNING" /\ state'[t] = "READY" /\ currentTask[c] = t
  /\ currentTask' = [currentTask EXCEPT ![c] = next]
  /\ pc' = [pc EXCEPT ![c] = "switched"]

LEMMA DispatchEffect ==
  ASSUME SInv, NEW c \in Cores, SchedStart(c) \/ Schedule(c)
  PROVE  QueueExact' /\ \E next \in Tasks : Dispatched(c, next)
<1>1. PICK rq \in Queues, st \in [Tasks -> States] :
        /\ Sound(rq, Priority) /\ Exact(rq, st) /\ IdlesRun(st)
        /\ \A t \in Tasks : st[t] = "RUNNING" => \E d \in Cores \ {c} : currentTask[d] = t
        /\ \A t \in Tasks : st[t] # state[t] =>
              state[t] = "RUNNING" /\ st[t] = "READY" /\ currentTask[c] = t
        /\ Dispatch(c, rq, st)
  BY DispatchFrom
<1>2. /\ QueueExact'
      /\ \E next \in Tasks :
              /\ next = SelectNext(rq, c) /\ st[next] = "READY"
              /\ state' = [st EXCEPT ![next] = "RUNNING"]
              /\ currentTask' = [currentTask EXCEPT ![c] = next]
              /\ pc' = [pc EXCEPT ![c] = "switched"]
  BY <1>1, DispatchExact
<1>3. PICK next \in Tasks :
        /\ st[next] = "READY"
        /\ state' = [st EXCEPT ![next] = "RUNNING"]
        /\ currentTask' = [currentTask EXCEPT ![c] = next]
        /\ pc' = [pc EXCEPT ![c] = "switched"]
  BY <1>2
<1>4. state'[next] = "RUNNING" /\ \A t \in Tasks \ {next} : state'[t] = st[t]
  BY <1>3
<1>5. state[next] = "READY" \/ (state[next] = "RUNNING" /\ currentTask[c] = next)
  BY <1>1, <1>3
<1>6. \A t \in Tasks \ {next} :
        \/ state'[t] = state[t]
        \/ state[t] = "RUNNING" /\ state'[t] = "READY" /\ currentTask[c] = t
  BY <1>1, <1>4
<1>7. Dispatched(c, next)
  BY <1>3, <1>4, <1>5, <1>6 DEF Dispatched
<1>8. QED BY <1>2, <1>7

(* What the dispatching steps do besides. *)
LEMMA DispatchRest ==
  ASSUME SInv, NEW c \in Cores, NEW next \in Tasks, Dispatched(c, next),
         pc[c] \in {"boot", "trap"},
         \A d \in Cores \ {c} : needReschedule'[d] = needReschedule[d],
         UNCHANGED <<delayVars, stack, callVars>>
  PROVE  CallsPinned' /\ RunsOrStops' /\ SectionsHeld' /\ DelaySound'
<1>1. /\ currentTask'[c] = next /\ \A d \in Cores \ {c} : currentTask'[d] = currentTask[d]
      /\ pc'[c] = "switched" /\ \A d \in Cores \ {c} : pc'[d] = pc[d]
  BY DEF Dispatched, SInv, IInv, Typed
<1>2. \A t \in Tasks : state'[t] = state[t] \/ {state[t], state'[t]} \subseteq {"READY", "RUNNING"}
  BY DEF Dispatched
<1>3. CallsPinned'
  BY <1>2, Constants DEF SInv, CallsPinned, callVars
<1>4. RunsOrStops'
  <2>1. ASSUME NEW d \in Cores \ {c}, pc[d] # "boot"
        PROVE  state'[currentTask[d]] = "RUNNING" \/ Stopping(d, currentTask[d])'
    <3> DEFINE t == currentTask[d]
    <3>1. t \in Tasks /\ t # None /\ currentTask[c] # t
      BY <2>1, Constants DEF SInv, IInv, StackMatches, TaskOnOneCore
    <3>2. CASE t = next
      BY <3>1, <3>2 DEF Dispatched
    <3>3. CASE t # next
      <4>1. state'[t] = state[t]
        BY <3>1, <3>3 DEF Dispatched
      <4>2. Stopping(d, t) => Stopping(d, t)'
        BY <1>1 DEF Stopping, callVars
      <4>3. state[t] = "RUNNING" \/ Stopping(d, t)
        BY <2>1 DEF SInv, RunsOrStops
      <4>4. QED BY <1>1, <4>1, <4>2, <4>3
    <3>4. QED BY <3>2, <3>3
  <2>2. QED BY <1>1, <2>1 DEF RunsOrStops, Dispatched
<1>5. SectionsHeld'
  BY <1>1 DEF SInv, SectionsHeld, delayVars
<1>6. DelaySound'
  <2>1. \A d \in Cores : (pc'[d] = "delayBlock") = (pc[d] = "delayBlock")
    BY <1>1
  <2>2. QED BY <1>1, <1>2, <2>1, DelayKept DEF delayVars
<1>7. QED BY <1>3, <1>4, <1>5, <1>6

LEMMA DispatchSInv ==
  ASSUME SInv, IInv', NEW c \in Cores, SchedStart(c) \/ Schedule(c)
  PROVE  SInv'
<1>1. /\ pc[c] \in {"boot", "trap"}
      /\ UNCHANGED <<delayVars, bootFlag, stack, callVars>>
      /\ needReschedule' \in [Cores -> BOOLEAN]
      /\ \A d \in Cores \ {c} : needReschedule'[d] = needReschedule[d]
  BY DEF SchedStart, Schedule, SInv, Flags
<1>2. PICK next \in Tasks : Dispatched(c, next)
  BY DispatchEffect
<1>3. CallsPinned' /\ RunsOrStops' /\ SectionsHeld' /\ DelaySound'
  BY <1>1, <1>2, DispatchRest
<1>4. QueueExact'
  BY DispatchEffect
<1>5. Flags'
  BY <1>1 DEF SInv, Flags, delayVars
<1>6. QED BY <1>3, <1>4, <1>5 DEF SInv

-----------------------------------------------------------------------------
(* Making ready a task that waits, or is new. *)
LEMMA ReadyExact ==
  ASSUME SInv, NEW t \in Tasks,
         state[t] \notin {"READY", "RUNNING"},
         readyQueue' = AddReady(readyQueue, t, Priority[t]),
         state' = [state EXCEPT ![t] = "READY"],
         UNCHANGED currentTask
  PROVE  /\ QueueExact'
         /\ state'[t] = "READY" /\ \A u \in Tasks \ {t} : state'[u] = state[u]
<1>1. ~Queued(readyQueue, t)
  BY DEF SInv, QueueExact, Exact
<1>2. \A u \in Tasks : Queued(readyQueue', u) <=> u = t \/ Queued(readyQueue, u)
  BY <1>1, AddReadyQueues, Constants DEF SInv, IInv, Typed
<1>3. state'[t] = "READY" /\ \A u \in Tasks \ {t} : state'[u] = state[u]
  BY DEF SInv, IInv, Typed
<1>4. QED
  BY <1>2, <1>3, QueueAssumption DEF SInv, QueueExact, Exact, RunningCurrent, IdlesRun

(* Stopping a task that runs and is not an idle task. *)
LEMMA StopExact ==
  ASSUME SInv, NEW t \in Tasks \ IdleTasks, NEW new \in States \ {"READY", "RUNNING"},
         readyQueue' = RemoveReady(readyQueue, t, Priority[t]),
         state' = [state EXCEPT ![t] = new],
         UNCHANGED currentTask
  PROVE  /\ QueueExact'
         /\ state'[t] = new /\ \A u \in Tasks \ {t} : state'[u] = state[u]
<1>1. \A u \in Tasks : Queued(readyQueue', u) <=> u # t /\ Queued(readyQueue, u)
  BY RemoveReadyKeeps, Constants DEF SInv, IInv, Typed, QueueSound
<1>2. state'[t] = new /\ \A u \in Tasks \ {t} : state'[u] = state[u]
  BY DEF SInv, IInv, Typed
<1>3. \A c \in Cores : Idle[c] \in Tasks \ {t}
  BY QueueAssumption DEF IdleTasks
<1>4. QED
  BY <1>1, <1>2, <1>3 DEF SInv, QueueExact, Exact, RunningCurrent, IdlesRun

LEMMA BootSInv ==
  ASSUME SInv, IInv', KernelStart \/ \E t \in Tasks : TaskCreate(t)
  PROVE  SInv'
<1>1. CASE KernelStart
  <2>1. QueueExact' /\ DelaySound'
    BY <1>1, ExactKept, DelayKept DEF KernelStart, schedVars, delayVars
  <2>2. CallsPinned' /\ RunsOrStops' /\ SectionsHeld' /\ Flags'
    BY <1>1 DEF KernelStart, schedVars, delayVars, callVars, SInv, Flags,
                CallsPinned, RunsOrStops, Stopping, SectionsHeld
  <2>3. QED BY <2>1, <2>2 DEF SInv
<1>2. ASSUME NEW t \in Tasks, TaskCreate(t) PROVE SInv'
  <2>1. state[t] = "FREE"
    BY <1>2 DEF TaskCreate
  <2>2. QueueExact' /\ state'[t] = "READY" /\ \A u \in Tasks \ {t} : state'[u] = state[u]
    BY <1>2, <2>1, ReadyExact DEF TaskCreate
  <2>3. UNCHANGED <<currentTask, needReschedule, delayVars, bootFlag, pc, stack, callVars>>
    BY <1>2 DEF TaskCreate
  <2>4. CallsPinned'
    BY <2>1, <2>2, <2>3, Constants DEF SInv, CallsPinned, callVars
  <2>5. RunsOrStops'
    BY <2>1, <2>2, <2>3 DEF SInv, IInv, StackMatches, RunsOrStops, Stopping, callVars
  <2>6. SectionsHeld' /\ Flags'
    BY <2>3 DEF SInv, SectionsHeld, Flags, delayVars
  <2>7. DelaySound'
    BY <2>1, <2>2, <2>3, DelayKept DEF delayVars
  <2>8. QED BY <2>2, <2>4, <2>5, <2>6, <2>7 DEF SInv
<1>3. QED BY <1>1, <1>2

(* The traps' steps, besides the switch. *)
LEMMA TrapSInv ==
  ASSUME SInv, IInv', NEW c \in Cores, Timer(c) \/ NoSwitch(c) \/ TrapExit(c)
  PROVE  SInv'
<1> DEFINE t == currentTask[c]
<1>1. /\ t \in Tasks
      /\ state[t] = "RUNNING" \/ Stopping(c, t)
      /\ pc[c] \in {"task", "trap", "switched"}
  BY DEF Timer, NoSwitch, TrapExit, SInv, IInv, StackMatches, RunsOrStops
<1>2. /\ UNCHANGED <<readyQueue, state, currentTask, delayList, delayLock, woken, bootFlag, callVars>>
      /\ needReschedule' \in [Cores -> BOOLEAN]
      /\ \A d \in Cores : needReschedule[d] => needReschedule'[d]
      /\ \A d \in Cores \ {c} : pc'[d] = pc[d]
      /\ pc'[c] \in {"wakeups", "trap", "task"}
      /\ pc'[c] = "wakeups" => c = BSP
  <2>1. CASE Timer(c)
    BY <2>1 DEF Timer, SInv, Flags, IInv, Typed
  <2>2. CASE NoSwitch(c) \/ TrapExit(c)
    BY <2>2 DEF NoSwitch, TrapExit, schedVars, delayVars, SInv, Flags, IInv, Typed
  <2>3. QED BY <2>1, <2>2
<1>3. QueueExact'
  BY <1>2, ExactKept
<1>4. DelaySound'
  <2>1. \A d \in Cores : (pc'[d] = "delayBlock") = (pc[d] = "delayBlock")
    BY <1>1, <1>2
  <2>2. QED BY <1>2, <2>1, DelayKept
<1>5. CallsPinned' /\ Flags'
  BY <1>2 DEF SInv, CallsPinned, Flags, callVars
<1>6. SectionsHeld'
  BY <1>1, <1>2, Constants DEF SInv, SectionsHeld
<1>7. RunsOrStops'
  <2>1. Stopping(c, t) => Stopping(c, t)'
    <3>1. CASE Timer(c)
      BY <1>1, <1>2, <3>1 DEF Timer, Stopping, callVars, SInv, Flags
    <3>2. CASE NoSwitch(c)
      BY <1>2, <3>2 DEF NoSwitch, Stopping, callVars, schedVars, SInv, IInv, Typed
    <3>3. CASE TrapExit(c)
      BY <3>3 DEF TrapExit, Stopping
    <3>4. QED BY <3>1, <3>2, <3>3
  <2>2. state'[t] = "RUNNING" \/ Stopping(c, t)'
    BY <1>1, <1>2, <2>1
  <2>3. QED BY <1>1, <1>2, <2>2, OthersRun DEF callVars
<1>8. QED BY <1>3, <1>4, <1>5, <1>6, <1>7 DEF SInv
-----------------------------------------------------------------------------
(* delay_add_locked puts the sleeper behind the n first ones, which wake   *)
(* no later; the one behind it wakes later.                                *)
LEMMA InsertShape ==
  ASSUME NEW dl \in Seq(Tasks), NEW t \in Tasks, NEW w
  PROVE  /\ DelayInsert(dl, t, w) \in Seq(Tasks)
         /\ Len(DelayInsert(dl, t, w)) = Len(dl) + 1
         /\ \E n \in 0..Len(dl) :
              /\ \A i \in 1..n : DelayInsert(dl, t, w)[i] = dl[i] /\ ticksLeft[dl[i]] <= w
              /\ DelayInsert(dl, t, w)[n + 1] = t
              /\ \A i \in n + 1..Len(dl) : DelayInsert(dl, t, w)[i + 1] = dl[i]
              /\ n < Len(dl) => ~(ticksLeft[dl[n + 1]] <= w)
<1> DEFINE Passed(i) == i <= Len(dl) /\ \A j \in 1..i : ticksLeft[dl[j]] <= w
           P == {i \in 0..Len(dl) : Passed(i)}
           d == [i \in 1..Len(dl) + 1 |-> IF Passed(i) THEN dl[i]
                                           ELSE IF Passed(i - 1) THEN t ELSE dl[i - 1]]
<1>1. Len(dl) \in Nat /\ \A i \in 1..Len(dl) : dl[i] \in Tasks
  BY LenProperties, ElementOfSeq
<1>2. DelayInsert(dl, t, w) = d
  BY DEF DelayInsert
<1>3. PICK n \in P : \A i \in P : i <= n
  <2> DEFINE m == Len(dl) + 1
  <2>1. P # {} /\ P \subseteq 0..m - 1 /\ m \in Nat
    <3>1. 0 \in P
      BY <1>1
    <3>2. QED BY <1>1, <3>1
  <2> HIDE DEF P, m
  <2>2. QED BY <2>1, GreatestNat
<1>4. n \in 0..Len(dl) /\ \A j \in 1..n : ticksLeft[dl[j]] <= w
  BY <1>3
<1>5. \A i \in 0..Len(dl) + 1 : Passed(i) <=> i <= n
  <2>1. ASSUME NEW i \in 0..Len(dl) + 1, i <= n PROVE Passed(i)
    BY <1>1, <1>4, <2>1
  <2>2. ASSUME NEW i \in 0..Len(dl) + 1, Passed(i) PROVE i <= n
    BY <1>1, <1>3, <2>2
  <2>3. QED BY <2>1, <2>2
<1>6. n < Len(dl) => ~(ticksLeft[dl[n + 1]] <= w)
  <2> SUFFICES ASSUME n < Len(dl), ticksLeft[dl[n + 1]] <= w PROVE FALSE
    OBVIOUS
  <2>1. \A j \in 1..n + 1 : ticksLeft[dl[j]] <= w
    BY <1>1, <1>4
  <2>2. Passed(n + 1)
    BY <1>1, <1>4, <2>1
  <2>3. QED BY <1>1, <1>4, <1>5, <2>2
<1> HIDE DEF Passed, P
<1>7. d = [i \in 1..Len(dl) + 1 |-> IF i <= n THEN dl[i] ELSE IF i = n + 1 THEN t ELSE dl[i - 1]]
  BY <1>1, <1>4, <1>5
<1>8. d \in Seq(Tasks) /\ Len(d) = Len(dl) + 1
  <2>1. \A i \in 1..Len(dl) + 1 :
          (IF i <= n THEN dl[i] ELSE IF i = n + 1 THEN t ELSE dl[i - 1]) \in Tasks
    BY <1>1, <1>4
  <2>2. d \in [1..Len(dl) + 1 -> Tasks] /\ Len(dl) + 1 \in Nat
    BY <1>1, <1>7, <2>1
  <2> HIDE DEF d
  <2>3. QED BY <2>2, SeqDef, LenProperties
<1> HIDE DEF d
<1>9. /\ \A i \in 1..n : d[i] = dl[i]
      /\ d[n + 1] = t
      /\ \A i \in n + 1..Len(dl) : d[i + 1] = dl[i]
  BY <1>1, <1>4, <1>7
<1>10. QED BY <1>2, <1>4, <1>6, <1>8, <1>9

LEMMA InsertKeeps ==
  ASSUME NEW dl \in Seq(Tasks), NEW t \in Tasks, NEW w, NoTwice(dl), ~InList(dl, t)
  PROVE  /\ NoTwice(DelayInsert(dl, t, w))
         /\ \A u \in Tasks : InList(DelayInsert(dl, t, w), u) <=> u = t \/ InList(dl, u)
<1> DEFINE d == DelayInsert(dl, t, w)
<1>1. PICK n \in 0..Len(dl) : /\ \A i \in 1..n : d[i] = dl[i] /\ ticksLeft[dl[i]] <= w
                              /\ d[n + 1] = t
                              /\ \A i \in n + 1..Len(dl) : d[i + 1] = dl[i]
                              /\ n < Len(dl) => ~(ticksLeft[dl[n + 1]] <= w)
  BY InsertShape
<1>2. Len(dl) \in Nat /\ Len(d) = Len(dl) + 1
  BY InsertShape, LenProperties
<1>3. \A i \in 1..Len(dl) : dl[i] # t
  BY DEF InList
<1> HIDE DEF d
<1>4. ASSUME NEW i \in 1..Len(d)
      PROVE  \/ i <= n /\ i \in 1..Len(dl) /\ d[i] = dl[i]
             \/ i = n + 1 /\ d[i] = t
             \/ i > n + 1 /\ i - 1 \in 1..Len(dl) /\ d[i] = dl[i - 1]
  <2>1. i <= n => i \in 1..Len(dl) /\ d[i] = dl[i]
    BY <1>1, <1>2
  <2>2. i > n + 1 => i - 1 \in 1..Len(dl) /\ d[i] = dl[i - 1]
    <3>1. i > n + 1 => i - 1 \in n + 1..Len(dl) /\ (i - 1) + 1 = i
      BY <1>1, <1>2
    <3>2. QED BY <1>1, <1>2, <3>1
  <2>3. i <= n \/ i = n + 1 \/ i > n + 1
    BY <1>2
  <2>4. QED BY <1>1, <2>1, <2>2, <2>3
<1>5. NoTwice(d)
  <2> SUFFICES ASSUME NEW i \in 1..Len(d), NEW j \in 1..Len(d), d[i] = d[j] PROVE i = j
    BY DEF NoTwice
  <2>1. QED BY <1>1, <1>2, <1>3, <1>4 DEF NoTwice
<1>6. ASSUME NEW u \in Tasks PROVE InList(d, u) <=> u = t \/ InList(dl, u)
  <2>1. InList(d, u) => u = t \/ InList(dl, u)
    BY <1>4 DEF InList
  <2>2. InList(d, t)
    BY <1>1, <1>2 DEF InList
  <2>3. ASSUME NEW i \in 1..Len(dl), dl[i] = u PROVE InList(d, u)
    <3>1. i \in 1..Len(d) /\ i + 1 \in 1..Len(d)
      BY <1>2
    <3>2. d[i] = u \/ d[i + 1] = u
      BY <1>1, <1>2, <2>3
    <3>3. QED BY <3>1, <3>2 DEF InList
  <2>4. QED BY <2>1, <2>2, <2>3 DEF InList
<1>7. QED BY <1>5, <1>6 DEF d

(* Taking the first one off a list. *)
LEMMA TailKeeps ==
  ASSUME NEW s \in Seq(Tasks), s # <<>>, NoTwice(s)
  PROVE  /\ Head(s) \in Tasks /\ InList(s, Head(s))
         /\ Tail(s) \in Seq(Tasks) /\ Len(Tail(s)) = Len(s) - 1
         /\ \A i \in 1..Len(s) - 1 : Tail(s)[i] = s[i + 1]
         /\ NoTwice(Tail(s))
         /\ \A u \in Tasks : InList(Tail(s), u) <=> u # Head(s) /\ InList(s, u)
<1>1. /\ Len(s) \in Nat /\ Len(s) # 0
      /\ \A i \in 1..Len(s) : s[i] \in Tasks
  BY LenProperties, ElementOfSeq, EmptySeq
<1>2. /\ Head(s) = s[1]
      /\ Tail(s) \in Seq(Tasks)
      /\ Len(Tail(s)) = Len(s) - 1
      /\ \A i \in 1..Len(Tail(s)) : Tail(s)[i] = s[i + 1]
  BY HeadTailProperties
<1> DEFINE r == Tail(s)
<1>3. Len(r) = Len(s) - 1 /\ \A i \in 1..Len(s) - 1 : r[i] = s[i + 1]
  BY <1>2
<1> HIDE DEF r
<1>4. NoTwice(r)
  BY <1>1, <1>3 DEF NoTwice
<1>5. ASSUME NEW u \in Tasks PROVE InList(r, u) <=> u # s[1] /\ InList(s, u)
  <2>1. ASSUME NEW i \in 1..Len(r), r[i] = u PROVE u # s[1] /\ InList(s, u)
    BY <1>1, <1>3, <2>1 DEF NoTwice, InList
  <2>2. ASSUME NEW i \in 1..Len(s), s[i] = u, u # s[1] PROVE InList(r, u)
    <3>1. i - 1 \in 1..Len(r) /\ r[i - 1] = u
      BY <1>1, <1>3, <2>2
    <3>2. QED BY <3>1 DEF InList
  <2>3. QED BY <2>1, <2>2 DEF InList
<1>6. InList(s, s[1])
  BY <1>1 DEF InList
<1>7. QED BY <1>1, <1>2, <1>4, <1>5, <1>6 DEF r
-----------------------------------------------------------------------------
(* The steps of the delay list. *)

LEMMA WakeupsSInv ==
  ASSUME SInv, IInv', NEW c \in Cores, CheckWakeups(c)
  PROVE  SInv'
<1> DEFINE t == currentTask[c]
<1>1. /\ t \in Tasks /\ pc[c] = "wakeups" /\ woken[c] = None /\ delayLock = None
      /\ UNCHANGED <<readyQueue, state, currentTask, needReschedule, delayLock, bootFlag, callVars>>
      /\ pc'[c] \in {"wakeups", "trap"} /\ \A d \in Cores \ {c} : pc'[d] = pc[d]
  BY DEF CheckWakeups, schedVars, SInv, IInv, Typed, StackMatches
<1>2. QueueExact' /\ CallsPinned' /\ Flags'
  BY <1>1, ExactKept DEF SInv, CallsPinned, Flags, callVars
<1>3. RunsOrStops'
  <2>1. state'[t] = "RUNNING" \/ Stopping(c, t)'
    BY <1>1 DEF SInv, RunsOrStops, Stopping, callVars
  <2>2. QED BY <1>1, <2>1, OthersRun DEF callVars
<1>4. \A d \in Cores : pc[d] # "delayBlock" /\ pc'[d] # "delayBlock"
  BY <1>1, Constants DEF SInv, SectionsHeld
<1>5. \A d \in Cores : woken[d] = None
  BY <1>1 DEF SInv, SectionsHeld
<1>6. CASE delayList # <<>> /\ Expired(Head(delayList))
  <2> DEFINE h == Head(delayList)
  <2>1. delayList \in Seq(Tasks) /\ delayList # <<>>
    BY <1>6, Constants DEF SInv, IInv, Typed, Waiters
  <2>2. /\ h \in Tasks /\ InList(delayList, h)
        /\ NoTwice(Tail(delayList))
        /\ \A u \in Tasks : InList(Tail(delayList), u) <=> u # h /\ InList(delayList, u)
    BY <2>1, TailKeeps DEF SInv, DelaySound
  <2>3. /\ delayList' = Tail(delayList)
        /\ pc' = pc
        /\ woken'[c] = h /\ \A d \in Cores \ {c} : woken'[d] = None
    BY <1>5, <1>6 DEF CheckWakeups, SInv, IInv, Typed
  <2> HIDE DEF h
  <2>4. \A u \in Tasks : InList(delayList, u) => state[u] = "BLOCKED"
    BY <1>4 DEF SInv, DelaySound, Blocking
  <2>5. DelaySound'
    <3>1. \A u \in Tasks : InList(delayList', u) => state'[u] = "BLOCKED"
      BY <1>1, <2>2, <2>3, <2>4
    <3>2. \A u \in Tasks : state'[u] = "BLOCKED" =>
             InList(delayList', u) \/ \E d \in Cores : woken'[d] = u
      <4>1. \A u \in Tasks : state[u] = "BLOCKED" => InList(delayList, u)
        BY <1>5, Constants DEF SInv, DelaySound
      <4>2. QED BY <1>1, <2>2, <2>3, <4>1
    <3>3. \A d \in Cores : woken'[d] # None =>
             state'[woken'[d]] = "BLOCKED" /\ ~InList(delayList', woken'[d])
      BY <1>1, <2>2, <2>3, <2>4
    <3>4. QED BY <1>4, <2>2, <2>3, <3>1, <3>2, <3>3 DEF DelaySound
  <2>6. SectionsHeld'
    BY <1>1, <2>3 DEF SInv, SectionsHeld
  <2>7. QED BY <1>2, <1>3, <2>5, <2>6 DEF SInv
<1>7. CASE ~(delayList # <<>> /\ Expired(Head(delayList)))
  <2>1. UNCHANGED <<delayList, woken>> /\ pc'[c] = "trap"
    BY <1>7 DEF CheckWakeups, SInv, IInv, Typed
  <2>2. DelaySound'
    BY <1>1, <1>4, <2>1, DelayKept
  <2>3. SectionsHeld'
    BY <1>1, <1>5, <2>1 DEF SInv, SectionsHeld
  <2>4. QED BY <1>2, <1>3, <2>2, <2>3 DEF SInv
<1>8. QED BY <1>6, <1>7

LEMMA WakeReadySInv ==
  ASSUME SInv, IInv', NEW c \in Cores, WakeReady(c)
  PROVE  SInv'
<1> DEFINE t == currentTask[c]
           u == woken[c]
<1>1. /\ t \in Tasks /\ pc[c] = "wakeups" /\ u # None
      /\ UNCHANGED <<currentTask, needReschedule, delayList, delayLock, bootFlag, pc, callVars>>
      /\ woken'[c] = None /\ \A d \in Cores \ {c} : woken'[d] = woken[d]
  BY DEF WakeReady, SInv, IInv, Typed, StackMatches
<1>2. u \in Tasks /\ state[u] = "BLOCKED" /\ ~InList(delayList, u)
  BY <1>1, Constants DEF SInv, IInv, Typed, DelaySound, Waiters
<1>3. QueueExact' /\ state'[u] = "READY" /\ \A v \in Tasks \ {u} : state'[v] = state[v]
  BY <1>1, <1>2, ReadyExact DEF WakeReady, MakeReady
<1>4. \A d \in Cores \ {c} : woken[d] = None
  BY <1>1 DEF SInv, SectionsHeld
<1> HIDE DEF u
<1>5. CallsPinned' /\ Flags' /\ SectionsHeld'
  BY <1>1, <1>2, <1>3, <1>4, Constants DEF SInv, CallsPinned, Flags, SectionsHeld, callVars
<1>6. RunsOrStops'
  <2>1. state'[t] = "RUNNING" \/ Stopping(c, t)'
    <3>1. state[t] = "RUNNING" \/ Stopping(c, t)
      BY <1>1 DEF SInv, RunsOrStops
    <3>2. Stopping(c, t) => Stopping(c, t)'
      BY <1>1 DEF Stopping, callVars
    <3>3. QED BY <1>1, <1>2, <1>3, <3>1, <3>2
  <2>2. \A v \in Tasks : state[v] = "RUNNING" => state'[v] = "RUNNING"
    BY <1>2, <1>3
  <2>3. QED BY <1>1, <2>1, <2>2, OthersRun DEF callVars
<1>7. DelaySound'
  <2>1. \A v \in Tasks : Blocking(v)' <=> Blocking(v)
    BY <1>1 DEF Blocking
  <2>2. \A v \in Tasks : state'[v] = "BLOCKED" <=> v # u /\ state[v] = "BLOCKED"
    BY <1>2, <1>3
  <2>3. \A v \in Tasks \ {u} : \A d \in Cores : woken[d] # v
    BY <1>4, Constants DEF u
  <2>4. \A d \in Cores : woken'[d] = None
    BY <1>1, <1>4
  <2>5. NoTwice(delayList') /\ \A d \in Cores : pc'[d] = "delayBlock" => InList(delayList', currentTask'[d])
    BY <1>1 DEF SInv, DelaySound
  <2>6. \A v \in Tasks : InList(delayList', v) => state'[v] = "BLOCKED" \/ Blocking(v)'
    BY <1>1, <1>2, <2>1, <2>2 DEF SInv, DelaySound
  <2>7. \A v \in Tasks : state'[v] = "BLOCKED" => InList(delayList', v)
    BY <1>1, <2>2, <2>3 DEF SInv, DelaySound
  <2>8. QED BY <2>4, <2>5, <2>6, <2>7 DEF DelaySound
<1>8. QED BY <1>3, <1>5, <1>6, <1>7 DEF SInv

LEMMA DelayAddSInv ==
  ASSUME SInv, IInv', NEW c \in Cores, DelayAddLocked(c)
  PROVE  SInv'
<1> DEFINE t == currentTask[c]
<1>1. /\ pc[c] = "delayAdd" /\ t \in Sleepers /\ t \in Tasks
      /\ delayList' = DelayInsert(delayList, t, wake[c])
      /\ UNCHANGED <<readyQueue, state, currentTask, needReschedule, delayLock, woken, bootFlag, callVars>>
      /\ pc'[c] = "delayBlock" /\ \A d \in Cores \ {c} : pc'[d] = pc[d]
  BY DEF DelayAddLocked, schedVars, SInv, IInv, Typed, StackMatches, SectionsHeld
<1>2. state[t] = "RUNNING"
  BY <1>1 DEF SInv, RunsOrStops, Stopping
<1>3. ~InList(delayList, t)
  BY <1>1, <1>2, ListedWaits
<1>4. /\ NoTwice(delayList')
      /\ \A u \in Tasks : InList(delayList', u) <=> u = t \/ InList(delayList, u)
  <2>1. delayList \in Seq(Tasks) /\ NoTwice(delayList)
    BY Constants DEF SInv, IInv, Typed, DelaySound, Waiters
  <2>2. QED BY <1>1, <1>3, <2>1, InsertKeeps
<1>5. QueueExact' /\ CallsPinned' /\ Flags' /\ SectionsHeld'
  BY <1>1, ExactKept DEF SInv, CallsPinned, Flags, SectionsHeld, callVars
<1>6. RunsOrStops'
  BY <1>1, <1>2, OthersRun DEF callVars
<1>7. DelaySound'
  <2>1. \A u \in Tasks : Blocking(u) => Blocking(u)'
    BY <1>1 DEF Blocking
  <2>2. Blocking(t)'
    BY <1>1 DEF Blocking
  <2>3. \A u \in Tasks : InList(delayList', u) => state'[u] = "BLOCKED" \/ Blocking(u)'
    BY <1>1, <1>4, <2>1, <2>2 DEF SInv, DelaySound
  <2>4. \A d \in Cores : pc'[d] = "delayBlock" => InList(delayList', currentTask'[d])
    <3>1. \A d \in Cores \ {c} : pc[d] = "delayBlock" =>
            currentTask[d] \in Tasks /\ InList(delayList, currentTask[d])
      BY DEF SInv, IInv, StackMatches, DelaySound
    <3>2. QED BY <1>1, <1>4, <3>1
  <2>5. \A u \in Tasks : state'[u] = "BLOCKED" => InList(delayList', u) \/ \E d \in Cores : woken'[d] = u
    BY <1>1, <1>4 DEF SInv, DelaySound
  <2>6. \A d \in Cores : woken'[d] # None =>
           state'[woken'[d]] = "BLOCKED" /\ ~InList(delayList', woken'[d])
    <3>1. \A d \in Cores : woken[d] # None => woken[d] \in Tasks
      BY Constants DEF SInv, IInv, Typed, Waiters
    <3>2. QED BY <1>1, <1>2, <1>4, <3>1 DEF SInv, DelaySound
  <2>7. QED BY <1>4, <2>3, <2>4, <2>5, <2>6 DEF DelaySound
<1>8. QED BY <1>5, <1>6, <1>7 DEF SInv

LEMMA DelayBlockSInv ==
  ASSUME SInv, IInv', Disciplined, NEW c \in Cores, DelayBlock(c)
  PROVE  SInv'
<1> DEFINE t == currentTask[c]
<1>1. /\ pc[c] = "delayBlock" /\ t \in Sleepers /\ t \in Tasks
      /\ UNCHANGED <<currentTask, needReschedule, delayVars, bootFlag, callVars>>
      /\ pc'[c] = "delayUnlock" /\ \A d \in Cores \ {c} : pc'[d] = pc[d]
  BY DEF DelayBlock, SInv, IInv, Typed, StackMatches, SectionsHeld
<1>2. t \in Waiters /\ t \notin IdleTasks
  BY <1>1 DEF Disciplined, Waiters
<1>3. state[t] = "RUNNING" /\ InList(delayList, t)
  BY <1>1 DEF SInv, RunsOrStops, Stopping, DelaySound
<1>4. QueueExact' /\ state'[t] = "BLOCKED" /\ \A u \in Tasks \ {t} : state'[u] = state[u]
  BY <1>1, <1>2, StopExact DEF DelayBlock, States
<1>5. CallsPinned' /\ Flags' /\ SectionsHeld'
  BY <1>1, <1>3, <1>4, Constants DEF SInv, CallsPinned, Flags, SectionsHeld, callVars, delayVars
<1>6. RunsOrStops'
  <2>1. Stopping(c, t)'
    BY <1>1, <1>2 DEF Stopping
  <2>2. QED BY <1>1, <1>4, <2>1, OthersRun DEF callVars
<1>7. DelaySound'
  <2>1. \A u \in Tasks \ {t} : Blocking(u) => Blocking(u)'
    BY <1>1 DEF Blocking
  <2>2. \A u \in Tasks : InList(delayList', u) => state'[u] = "BLOCKED" \/ Blocking(u)'
    BY <1>1, <1>4, <2>1 DEF SInv, DelaySound, delayVars
  <2>3. \A d \in Cores : pc'[d] = "delayBlock" => InList(delayList', currentTask'[d])
    BY <1>1 DEF SInv, DelaySound, delayVars
  <2>4. \A u \in Tasks : state'[u] = "BLOCKED" => InList(delayList', u) \/ \E d \in Cores : woken'[d] = u
    BY <1>1, <1>3, <1>4 DEF SInv, DelaySound, delayVars
  <2>5. \A d \in Cores : woken'[d] # None =>
           state'[woken'[d]] = "BLOCKED" /\ ~InList(delayList', woken'[d])
    <3>1. \A d \in Cores : woken[d] # None => woken[d] \in Tasks
      BY Constants DEF SInv, IInv, Typed, Waiters
    <3>2. QED BY <1>1, <1>4, <3>1 DEF SInv, DelaySound, delayVars
  <2>6. QED BY <1>1, <2>2, <2>3, <2>4, <2>5 DEF SInv, DelaySound, delayVars
<1>8. QED BY <1>4, <1>5, <1>6, <1>7 DEF SInv

LEMMA DelayUnlockSInv ==
  ASSUME SInv, IInv', NEW c \in Cores, DelayUnlock(c)
  PROVE  SInv'
<1> DEFINE t == currentTask[c]
<1>1. /\ pc[c] = "delayUnlock" /\ t \in Sleepers /\ t \in Tasks /\ delayLock = c
      /\ delayLock' = None
      /\ UNCHANGED <<readyQueue, state, currentTask, needReschedule, delayList, woken, bootFlag, cpuAt, target>>
      /\ call'[t] = "yield" /\ \A u \in Tasks \ {t} : call'[u] = call[u]
      /\ pc'[c] = "task" /\ \A d \in Cores \ {c} : pc'[d] = pc[d]
  BY DEF DelayUnlock, schedVars, SInv, IInv, Typed, StackMatches, SectionsHeld
<1>2. QueueExact' /\ CallsPinned' /\ Flags'
  BY <1>1, ExactKept DEF SInv, CallsPinned, Flags
<1>3. SectionsHeld'
  BY <1>1 DEF SInv, SectionsHeld
<1>4. RunsOrStops'
  <2>1. Stopping(c, t)'
    BY <1>1 DEF Stopping, Waiters
  <2>2. QED BY <1>1, <2>1, OthersRun
<1>5. DelaySound'
  BY <1>1, DelayKept
<1>6. QED BY <1>2, <1>3, <1>4, <1>5 DEF SInv
-----------------------------------------------------------------------------
(* The steps of task code. *)

(* What a step of the code of t on core c finds, and leaves to the others. *)
LEMMA CallSInv ==
  ASSUME SInv, IInv', NEW c \in Cores, NEW t \in Tasks,
         \/ YieldCall(c, t) \/ RequestSwitch(c, t) \/ Ecall(c, t) \/ DelayTicks(c, t)
         \/ TaskSuspend(c, t) \/ TaskExitHandler(c, t)
         \/ YieldIfCurrent(c, t) \/ TaskResume(c, t)
  PROVE  SInv'
<1>1. /\ UNCHANGED <<readyQueue, state, currentTask, delayList, woken, bootFlag>>
      /\ \A d \in Cores \ {c} : pc'[d] = pc[d]
      /\ \A u \in Tasks \ {t} : call'[u] = call[u] /\ target'[u] = target[u] /\ cpuAt'[u] = cpuAt[u]
  BY DEF YieldCall, RequestSwitch, Ecall, DelayTicks, TaskSuspend, TaskExitHandler,
         SelfCall, YieldIfCurrent, TaskResume, schedVars, delayVars, callVars, SInv, IInv, Typed
<1>2. /\ needReschedule' \in [Cores -> BOOLEAN]
      /\ \A d \in Cores : needReschedule[d] => needReschedule'[d]
  BY DEF YieldCall, RequestSwitch, Ecall, DelayTicks, TaskSuspend, TaskExitHandler,
         SelfCall, YieldIfCurrent, TaskResume, schedVars, SInv, Flags, IInv, Typed
<1>3. /\ currentTask[c] = t /\ pc[c] = "task" /\ c \in Affinity[t]
      /\ state[t] = "RUNNING" \/ Stopping(c, t)
  <2>1. currentTask[c] = t /\ pc[c] = "task" /\ c \in Affinity[t]
    BY ExecutesCurrent DEF YieldCall, RequestSwitch, Ecall, DelayTicks, TaskSuspend,
       TaskExitHandler, SelfCall, YieldIfCurrent, TaskResume, Executes, SInv
  <2>2. QED BY <2>1 DEF SInv, RunsOrStops
<1>4. QueueExact'
  BY <1>1, ExactKept
<1>5. pc'[c] \in {"task", "trap", "delayAdd"} /\ pc[c] = "task"
  BY <1>3 DEF YieldCall, RequestSwitch, Ecall, DelayTicks, TaskSuspend, TaskExitHandler,
         SelfCall, YieldIfCurrent, TaskResume, SInv, IInv, Typed
<1>6. DelaySound'
  BY <1>1, <1>5, DelayKept
<1>7. CallsPinned'
  <2>1. /\ call'[t] = "exit" => t \in Leavers /\ cpuAt'[t] \in Affinity[t]
        /\ call'[t] = "resume" => target'[t] \in Resumes[t] /\ state[target'[t]] = "SUSPENDED"
    <3>1. CASE \/ YieldCall(c, t) \/ RequestSwitch(c, t) \/ Ecall(c, t) \/ YieldIfCurrent(c, t)
      BY <3>1 DEF YieldCall, RequestSwitch, Ecall, YieldIfCurrent, SInv, IInv, Typed
    <3>2. CASE DelayTicks(c, t)
      BY <3>2 DEF DelayTicks, Executes, callVars, SInv, CallsPinned
    <3>3. CASE TaskSuspend(c, t) \/ TaskExitHandler(c, t)
      BY <1>3, <3>3 DEF TaskSuspend, TaskExitHandler, SelfCall, SInv, IInv, Typed
    <3>4. CASE TaskResume(c, t)
      BY <3>4 DEF TaskResume, SInv, IInv, Typed
    <3>5. QED BY <3>1, <3>2, <3>3, <3>4
  <2>2. QED BY <1>1, <2>1 DEF SInv, CallsPinned
<1>8. SectionsHeld' /\ Flags'
  <2>1. CASE DelayTicks(c, t)
    <3>1. /\ delayLock = None /\ delayLock' = c /\ t \in Sleepers
          /\ pc'[c] = "delayAdd"
      BY <2>1 DEF DelayTicks, SInv, IInv, Typed
    <3>2. QED BY <1>1, <1>2, <1>3, <3>1, Constants DEF SInv, SectionsHeld, Flags
  <2>2. CASE ~DelayTicks(c, t)
    <3>1. UNCHANGED delayLock /\ pc'[c] \in {"task", "trap"}
      BY <1>3, <2>2 DEF YieldCall, RequestSwitch, Ecall, TaskSuspend, TaskExitHandler,
         SelfCall, YieldIfCurrent, TaskResume, delayVars, SInv, IInv, Typed
    <3>2. QED BY <1>1, <1>2, <1>5, <3>1 DEF SInv, SectionsHeld, Flags
  <2>3. QED BY <2>1, <2>2
<1>9. RunsOrStops'
  <2>1. state[t] = "RUNNING" \/ Stopping(c, t)'
    <3> SUFFICES ASSUME Stopping(c, t) PROVE Stopping(c, t)'
      BY <1>3
    <3>1. /\ t \in Waiters
          /\ \/ call[t] = "yield"
             \/ call[t] = "check" /\ target[t] = t /\ cpuAt[t] = c
             \/ call[t] = "request" /\ cpuAt[t] = c
             \/ call[t] = "ecall" /\ needReschedule[c]
      BY <1>3 DEF Stopping
    <3>2. CASE YieldCall(c, t)
      BY <1>3, <3>1, <3>2 DEF YieldCall, Stopping, SInv, IInv, Typed
    <3>3. CASE RequestSwitch(c, t)
      <4>1. cpuAt[t] = c
        BY <3>1, <3>3 DEF RequestSwitch, Executes
      <4>2. needReschedule'[c] /\ call'[t] = "ecall" /\ pc'[c] = "task"
        BY <1>3, <3>3, <4>1 DEF RequestSwitch, SInv, IInv, Typed, Flags
      <4>3. QED BY <3>1, <4>2 DEF Stopping
    <3>4. CASE Ecall(c, t)
      <4>1. needReschedule'[c] /\ pc'[c] = "trap"
        BY <1>2, <3>1, <3>4 DEF Ecall, Executes, SInv, IInv, Typed
      <4>2. QED BY <3>1, <4>1 DEF Stopping
    <3>5. CASE YieldIfCurrent(c, t)
      <4>1. target[t] = t /\ cpuAt[t] = c
        BY <3>1, <3>5 DEF YieldIfCurrent, Executes
      <4>2. call'[t] = "yield" /\ pc'[c] = "task"
        BY <1>3, <3>5, <4>1 DEF YieldIfCurrent, SInv, IInv, Typed
      <4>3. QED BY <3>1, <4>2 DEF Stopping
    <3>6. CASE DelayTicks(c, t) \/ TaskSuspend(c, t) \/ TaskExitHandler(c, t) \/ TaskResume(c, t)
      BY <3>1, <3>6 DEF DelayTicks, TaskSuspend, TaskExitHandler, SelfCall, TaskResume, Executes
    <3>7. QED BY <3>2, <3>3, <3>4, <3>5, <3>6
  <2>2. QED BY <1>1, <1>2, <1>3, <2>1, OthersRun
<1>10. QED BY <1>4, <1>6, <1>7, <1>8, <1>9 DEF SInv

(* task_suspend(NULL) and task_delete(NULL) of a pinned task stop itself.  *)
LEMMA StopsSelf ==
  ASSUME SInv, Disciplined, NEW c \in Cores, NEW t \in Tasks,
         SuspendStop(c, t) \/ TaskDelete(c, t)
  PROVE  /\ currentTask[c] = t /\ currentTask[cpuAt[t]] = t /\ cpuAt[t] = c
         /\ pc[c] = "task" /\ state[t] = "RUNNING" /\ call[t] \in {"suspend", "exit"}
         /\ t \in Waiters \ IdleTasks
<1>1. currentTask[c] = t /\ c \in Affinity[t] /\ pc[c] = "task" /\ state[t] = "RUNNING"
      /\ call[t] \in {"suspend", "exit"}
  BY ExecutesCurrent, ExecutesRunning DEF SuspendStop, TaskDelete, SelfStop, Executes, SInv
<1>2. t \in Waiters /\ cpuAt[t] \in Affinity[t]
  BY <1>1 DEF SInv, IInv, CallsSound, CallsPinned, Waiters
<1>3. t \notin IdleTasks /\ cpuAt[t] = c
  BY <1>1, <1>2 DEF Disciplined, Pinned
<1>4. QED BY <1>1, <1>2, <1>3

LEMMA StopSInv ==
  ASSUME SInv, IInv', Disciplined, NEW c \in Cores, NEW t \in Tasks,
         SuspendStop(c, t) \/ TaskDelete(c, t)
  PROVE  SInv'
<1>1. currentTask[c] = t /\ pc[c] = "task" /\ state[t] = "RUNNING"
  BY StopsSelf
<1>2. t \in Waiters /\ t \notin IdleTasks /\ cpuAt[t] = c /\ call[t] \in {"suspend", "exit"}
  BY StopsSelf
<1>3. PICK new \in {"SUSPENDED", "DELETED"} :
        /\ readyQueue' = RemoveReady(readyQueue, t, Priority[t])
        /\ state' = [state EXCEPT ![t] = new]
  BY <1>1, <1>2 DEF SuspendStop, TaskDelete, SelfStop
<1>4. /\ UNCHANGED <<currentTask, needReschedule, delayVars, bootFlag, pc, stack>>
      /\ call'[t] = "check" /\ target'[t] = t /\ cpuAt'[t] = c
      /\ \A u \in Tasks \ {t} : call'[u] = call[u] /\ target'[u] = target[u] /\ cpuAt'[u] = cpuAt[u]
  BY <1>1, <1>2 DEF SuspendStop, TaskDelete, SelfStop, SInv, IInv, Typed
<1>5. QueueExact' /\ state'[t] = new /\ \A u \in Tasks \ {t} : state'[u] = state[u]
  BY <1>2, <1>3, <1>4, StopExact DEF States
<1>6. CallsPinned'
  BY <1>1, <1>4, <1>5, Constants DEF SInv, CallsPinned
<1>7. SectionsHeld' /\ Flags'
  BY <1>4 DEF SInv, SectionsHeld, Flags, delayVars
<1>8. RunsOrStops'
  <2>1. Stopping(c, t)'
    BY <1>1, <1>2, <1>4 DEF Stopping
  <2>2. QED BY <1>1, <1>4, <1>5, <2>1, OthersRun
<1>9. DelaySound'
  BY <1>1, <1>4, <1>5, DelayKept DEF delayVars
<1>10. QED BY <1>5, <1>6, <1>7, <1>8, <1>9 DEF SInv

(* task_resume finds its task as it was when its state was tested.         *)
LEMMA ResumeSInv ==
  ASSUME SInv, IInv', Disciplined, NEW c \in Cores, NEW t \in Tasks, ResumeReady(c, t)
  PROVE  SInv'
<1> DEFINE u == target[t]
<1>1. currentTask[c] = t /\ pc[c] = "task" /\ state[t] = "RUNNING" /\ call[t] = "resume"
  BY ExecutesCurrent, ExecutesRunning DEF ResumeReady, Executes, SInv
<1>2. u \in Resumes[t] /\ u \in Tasks /\ state[u] = "SUSPENDED"
  BY <1>1, Constants DEF SInv, CallsPinned
<1>3. /\ UNCHANGED <<currentTask, needReschedule, delayVars, bootFlag, pc, stack, cpuAt>>
      /\ call'[t] = "run"
      /\ \A v \in Tasks \ {t} : call'[v] = call[v] /\ target'[v] = target[v]
  BY DEF ResumeReady, SInv, IInv, Typed
<1>4. QueueExact' /\ state'[u] = "READY" /\ \A v \in Tasks \ {u} : state'[v] = state[v]
  BY <1>2, <1>3, ReadyExact DEF ResumeReady, MakeReady
<1>5. CallsPinned'
  <2>1. ASSUME NEW v \in Tasks \ {t}, call[v] = "resume"
        PROVE  target[v] \in Resumes[v] /\ state'[target[v]] = "SUSPENDED"
    <3>1. target[v] \in Resumes[v] /\ target[v] \in Tasks /\ state[target[v]] = "SUSPENDED"
      BY <2>1, Constants DEF SInv, CallsPinned
    <3>2. target[v] # u
      BY <1>2, <3>1 DEF Disciplined
    <3>3. QED BY <1>4, <3>1, <3>2
  <2>2. QED BY <1>3, <2>1 DEF SInv, CallsPinned
<1>6. SectionsHeld' /\ Flags'
  BY <1>3 DEF SInv, SectionsHeld, Flags, delayVars
<1> HIDE DEF u
<1>7. RunsOrStops'
  BY <1>1, <1>2, <1>3, <1>4, OthersRun
<1>8. DelaySound'
  BY <1>2, <1>3, <1>4, DelayKept DEF delayVars
<1>9. QED BY <1>4, <1>5, <1>6, <1>7, <1>8 DEF SInv

LEMMA NextSInv == Disciplined /\ SInv /\ [Next]_vars => SInv'
<1> SUFFICES ASSUME Disciplined, SInv, [Next]_vars PROVE SInv'
  OBVIOUS
<1>1. IInv'
  BY NextIInv, DisciplinedPinned DEF SInv
<1>2. CASE KernelStart \/ \E t \in Tasks : TaskCreate(t)
  BY <1>1, <1>2, BootSInv
<1>3. ASSUME NEW c \in Cores, KernelStep(c) \/ Timer(c) PROVE SInv'
  BY <1>1, <1>3, DispatchSInv, TrapSInv, WakeupsSInv, WakeReadySInv, DelayAddSInv,
     DelayBlockSInv, DelayUnlockSInv DEF KernelStep
<1>4. ASSUME NEW c \in Cores, NEW t \in Tasks, TaskStep(c, t) PROVE SInv'
  BY <1>1, <1>4, CallSInv, StopSInv, ResumeSInv DEF TaskStep
<1>5. CASE UNCHANGED vars
  <2>1. QueueExact' /\ DelaySound'
    BY <1>5, ExactKept, DelayKept DEF vars, schedVars, delayVars
  <2>2. CallsPinned' /\ RunsOrStops' /\ SectionsHeld' /\ Flags'
    BY <1>5 DEF vars, schedVars, delayVars, callVars, SInv, Flags,
                CallsPinned, RunsOrStops, Stopping, SectionsHeld
  <2>3. QED BY <1>1, <2>1, <2>2 DEF SInv
<1>6. QED BY <1>2, <1>3, <1>4, <1>5 DEF Next
-----------------------------------------------------------------------------
LEMMA SpecSInv == Disciplined => (Spec => []SInv)
<1> SUFFICES ASSUME Disciplined PROVE Spec => []SInv
  OBVIOUS
<1>1. SInv /\ [Next]_vars => SInv'
  BY NextSInv
<1>2. QED BY InitSInv, <1>1, PTL DEF Spec

(* The ready queue always holds exactly the READY tasks, each once and at  *)
(* its level, and no task is RUNNING that is not current on a hart         *)
(* (sched_add_ready, sched_remove_ready and their callers).                *)
THEOREM QueueHoldsReady == Disciplined => (Spec => []ReadyExactlyQueued)
<1>1. SInv => ReadyExactlyQueued
  <2> SUFFICES ASSUME SInv PROVE ReadyExactlyQueued
    OBVIOUS
  <2>1. Sound(readyQueue, Priority) /\ readyQueue \in Queues
    BY DEF SInv, IInv, Typed, QueueSound
  <2>2. ASSUME NEW t \in Tasks, state[t] = "READY", t \notin IdleTasks
        PROVE  InList(readyQueue[Level(Priority[t])], t)
    <3>1. PICK p \in Levels : InList(readyQueue[p], t)
      BY <2>2 DEF SInv, QueueExact, Exact, Queued
    <3>2. QED BY <2>1, <3>1 DEF Sound
  <2>3. ASSUME NEW p \in Levels, NEW i \in 1..Len(readyQueue[p])
        PROVE  /\ state[readyQueue[p][i]] = "READY" /\ Level(Priority[readyQueue[p][i]]) = p
               /\ \A j \in 1..Len(readyQueue[p]) : readyQueue[p][j] = readyQueue[p][i] => i = j
    <3>1. readyQueue[p][i] \in Tasks
      BY <2>1, <2>3, ElementOfSeq DEF Queues
    <3>2. InList(readyQueue[p], readyQueue[p][i])
      BY DEF InList
    <3>3. state[readyQueue[p][i]] = "READY" /\ Level(Priority[readyQueue[p][i]]) = p
      BY <2>1, <3>1, <3>2 DEF SInv, QueueExact, Exact, Queued, Sound
    <3>4. \A j \in 1..Len(readyQueue[p]) : readyQueue[p][j] = readyQueue[p][i] => i = j
      BY <2>1 DEF Sound, NoTwice
    <3>5. QED BY <3>3, <3>4
  <2>4. \A t \in Tasks : state[t] = "RUNNING" => \E c \in Cores : currentTask[c] = t
    BY DEF SInv, QueueExact, RunningCurrent
  <2>5. QED BY <2>2, <2>3, <2>4 DEF ReadyExactlyQueued
<1>2. QED BY SpecSInv, <1>1, PTL

(* A task whose call made it wait, or ended it, executes nothing after the *)
(* call until it is made ready (delay_ticks, task_suspend, task_delete,    *)
(* whose task_yield any number of preemptions may interrupt).              *)
THEOREM StoppedStops == Disciplined => (Spec => []StoppedTaskStops)
<1>1. SInv => StoppedTaskStops
  BY ExecutesRunning DEF StoppedTaskStops
<1>2. QED BY SpecSInv, <1>1, PTL

(* What select_next_task_for_core returns to either scheduler. *)
LEMMA DispatchBest ==
  ASSUME SInv, NEW c \in Cores, SchedStart(c) \/ Schedule(c)
  PROVE  /\ state[currentTask'[c]] = "READY" \/ currentTask'[c] = currentTask[c]
         /\ \A p \in Levels : Eligible(readyQueue'[p], c) # {} =>
              p <= Level(Priority[currentTask'[c]])
<1>1. PICK rq \in Queues, st \in [Tasks -> States] :
        /\ Sound(rq, Priority) /\ Exact(rq, st) /\ IdlesRun(st)
        /\ \A t \in Tasks : st[t] = "RUNNING" => \E d \in Cores \ {c} : currentTask[d] = t
        /\ \A t \in Tasks : st[t] # state[t] =>
              state[t] = "RUNNING" /\ st[t] = "READY" /\ currentTask[c] = t
        /\ Dispatch(c, rq, st)
  BY DispatchFrom
<1>2. PICK next \in Tasks : /\ next = SelectNext(rq, c) /\ st[next] = "READY"
                            /\ currentTask' = [currentTask EXCEPT ![c] = next]
  BY <1>1, DispatchExact
<1>3. currentTask'[c] = next /\ readyQueue' = RemoveReady(rq, next, Priority[next])
  BY <1>1, <1>2 DEF Dispatch, SInv, IInv, Typed
<1>4. state[next] = "READY" \/ next = currentTask[c]
  BY <1>1, <1>2
<1>5. ASSUME NEW p \in Levels, Eligible(readyQueue'[p], c) # {}
      PROVE  p <= Level(Priority[next])
  <2>1. /\ readyQueue' \in Queues /\ Sound(readyQueue', Priority)
        /\ \A u \in Tasks : Queued(readyQueue', u) => Queued(rq, u)
    BY <1>1, <1>3, RemoveReadyKeeps, Constants
  <2>2. PICK i \in 1..Len(readyQueue'[p]) : c \in Affinity[readyQueue'[p][i]]
    BY <1>5 DEF Eligible
  <2> DEFINE u == readyQueue'[p][i]
  <2>3. u \in Tasks /\ InList(readyQueue'[p], u) /\ c \in Affinity[u]
    BY <2>1, <2>2, ElementOfSeq DEF Queues, InList
  <2> HIDE DEF u
  <2>4. InList(rq[p], u)
    <3>1. PICK q \in Levels : InList(rq[q], u)
      BY <2>1, <2>3 DEF Queued
    <3>2. q = p
      BY <1>1, <2>1, <2>3, <3>1 DEF Sound
    <3>3. QED BY <3>1, <3>2
  <2>5. QED BY <1>1, <1>2, <2>3, <2>4, SelectNextBest, Constants
<1>6. QED BY <1>3, <1>4, <1>5

(* Every switch goes to a task that was READY, and leaves none of a higher *)
(* level that may run on the hart (sched_schedule, sched_start_ap).        *)
THEOREM SwitchesDispatchBest == Disciplined => (Spec => DispatchesBest)
<1> DEFINE Best(c) ==
             pc[c] # "switched" /\ pc'[c] = "switched" =>
               /\ state[currentTask'[c]] = "READY" \/ currentTask'[c] = currentTask[c]
               /\ \A p \in Levels : Eligible(readyQueue'[p], c) # {} =>
                    p <= Level(Priority[currentTask'[c]])
<1>1. SInv /\ [Next]_vars => [\A c \in Cores : Best(c)]_vars
  <2> SUFFICES ASSUME SInv, Next, NEW c \in Cores, pc[c] # "switched", pc'[c] = "switched"
               PROVE  SchedStart(c) \/ Schedule(c)
    BY DispatchBest
  <2>1. ASSUME NEW d \in Cores, KernelStep(d) \/ Timer(d) PROVE SchedStart(c) \/ Schedule(c)
    BY <2>1 DEF KernelStep, Timer, SchedStart, Schedule, Dispatch, CheckWakeups, WakeReady, NoSwitch,
       TrapExit, DelayAddLocked, DelayBlock, DelayUnlock, SInv, IInv, Typed
  <2>2. ASSUME NEW d \in Cores, NEW t \in Tasks, TaskStep(d, t) PROVE FALSE
    BY <2>2 DEF TaskStep, YieldCall, RequestSwitch, Ecall, DelayTicks, TaskSuspend, SuspendStop,
       TaskExitHandler, TaskDelete, SelfCall, SelfStop, YieldIfCurrent, TaskResume, ResumeReady,
       SInv, IInv, Typed
  <2>3. CASE KernelStart \/ \E t \in Tasks : TaskCreate(t)
    BY <2>3 DEF KernelStart, TaskCreate
  <2>4. QED BY <2>1, <2>2, <2>3 DEF Next
<1>2. Disciplined => (Spec => [][\A c \in Cores : Best(c)]_vars)
  BY <1>1, SpecSInv, PTL DEF Spec
<1>3. QED BY <1>2 DEF DispatchesBest
-----------------------------------------------------------------------------
(* The times.  A tick makes every delay shorter before delay_check_wakeups *)
(* takes off the list those that are over, while other harts insert.       *)

LEMMA InitTicks == Init => Ticks
<1> SUFFICES ASSUME Init PROVE Ticks
  OBVIOUS
<1>1. 1..Len(<<>>) = {} /\ MaxTicks \in Nat
  BY EmptySeq, KernelAssumption
<1>2. QED BY <1>1 DEF Init, Ticks

LEMMA TicksKept ==
  ASSUME Ticks, UNCHANGED <<delayList, ticksLeft, wake>>,
         pc[BSP] = "wakeups" => pc'[BSP] = "wakeups",
         \A c \in Cores : pc'[c] = "delayAdd" => pc[c] = "delayAdd"
  PROVE  Ticks'
BY DEF Ticks

(* The elements of the delay list are tasks. *)
LEMMA DelayListType ==
  ASSUME SInv
  PROVE  /\ delayList \in Seq(Tasks) /\ Len(delayList) \in Nat
         /\ \A i \in 1..Len(delayList) : delayList[i] \in Tasks
BY Constants, LenProperties, ElementOfSeq DEF SInv, IInv, Typed, Waiters

LEMMA TimerTicks ==
  ASSUME SInv, Ticks, NEW c \in Cores, Timer(c)
  PROVE  Ticks'
<1>1. pc[c] = "task" /\ UNCHANGED delayList
  BY DEF Timer
<1>2. CASE c # BSP
  <2>1. UNCHANGED <<ticksLeft, wake>> /\ pc' = [pc EXCEPT ![c] = "trap"]
    BY <1>2 DEF Timer
  <2>2. QED BY <1>1, <1>2, <2>1, TicksKept, Constants DEF SInv, IInv, Typed
<1>3. CASE c = BSP
  <2>1. /\ ticksLeft' = [t \in Tasks |-> IF InList(delayList, t) THEN ticksLeft[t] - 1 ELSE ticksLeft[t]]
        /\ wake' = [d \in Cores |-> IF pc[d] = "delayAdd" THEN wake[d] - 1 ELSE wake[d]]
        /\ pc'[BSP] = "wakeups"
    BY <1>3 DEF Timer, SInv, IInv, Typed
  <2>2. MaxTicks \in Nat
    BY KernelAssumption
  <2>3. \A i \in 1..Len(delayList) : ticksLeft[delayList[i]] > 0
    BY <1>1, <1>3 DEF Ticks
  <2>4. \A t \in Tasks : InList(delayList, t) => ticksLeft[t] > 0
    BY <2>3 DEF InList
  <2>5. ticksLeft' \in [Tasks -> 0..MaxTicks]
    BY <2>1, <2>2, <2>4 DEF Ticks
  <2>6. wake' \in [Cores -> 0..MaxTicks]
    BY <1>1, <1>3, <2>1, <2>2 DEF Ticks
  <2>7. \A i \in 1..Len(delayList) : ticksLeft'[delayList[i]] = ticksLeft[delayList[i]] - 1
    BY <2>1, DelayListType DEF InList
  <2>8. ASSUME NEW i \in 1..Len(delayList), NEW j \in 1..Len(delayList), i < j
        PROVE  ticksLeft'[delayList[i]] <= ticksLeft'[delayList[j]]
    <3>1. /\ ticksLeft[delayList[i]] \in Int /\ ticksLeft[delayList[j]] \in Int
          /\ ticksLeft[delayList[i]] <= ticksLeft[delayList[j]]
      BY <2>2, <2>8, DelayListType DEF Ticks
    <3>2. QED BY <2>7, <3>1
  <2>9. QED BY <1>1, <2>1, <2>5, <2>6, <2>8 DEF Ticks
<1>4. QED BY <1>2, <1>3

LEMMA WakeupsTicks ==
  ASSUME SInv, Ticks, NEW c \in Cores, CheckWakeups(c)
  PROVE  Ticks'
<1>1. pc[c] = "wakeups" /\ c = BSP /\ delayLock = None /\ UNCHANGED <<ticksLeft, wake>>
  BY DEF CheckWakeups, SInv, SectionsHeld
<1>2. \A d \in Cores : pc[d] # "delayAdd"
  BY <1>1, Constants DEF SInv, SectionsHeld
<1>3. CASE delayList # <<>> /\ Expired(Head(delayList))
  <2>1. delayList' = Tail(delayList) /\ pc' = pc
    BY <1>3 DEF CheckWakeups
  <2>2. /\ Len(delayList') = Len(delayList) - 1
        /\ \A i \in 1..Len(delayList) - 1 : delayList'[i] = delayList[i + 1]
    BY <1>3, <2>1, TailKeeps, DelayListType DEF SInv, DelaySound
  <2>3. ASSUME NEW i \in 1..Len(delayList'), NEW j \in 1..Len(delayList'), i < j
        PROVE  ticksLeft'[delayList'[i]] <= ticksLeft'[delayList'[j]]
    <3>1. i + 1 \in 1..Len(delayList) /\ j + 1 \in 1..Len(delayList) /\ i + 1 < j + 1
      BY <2>2, <2>3, DelayListType
    <3>2. QED BY <1>1, <2>2, <3>1 DEF Ticks
  <2>4. QED BY <1>1, <2>1, <2>3 DEF Ticks
<1>4. CASE ~(delayList # <<>> /\ Expired(Head(delayList)))
  <2>1. delayList' = delayList /\ pc' = [pc EXCEPT ![c] = "trap"]
    BY <1>4 DEF CheckWakeups
  <2>2. \A d \in Cores : pc'[d] # "delayAdd"
    BY <1>2, <2>1 DEF SInv, IInv, Typed
  <2>3. ASSUME NEW i \in 1..Len(delayList) PROVE ticksLeft[delayList[i]] > 0
    <3>1. /\ 1 \in 1..Len(delayList) /\ delayList # <<>>
          /\ ticksLeft[delayList[1]] \in Int /\ ticksLeft[delayList[i]] \in Int
      BY DelayListType, EmptySeq, KernelAssumption DEF Ticks
    <3>2. Head(delayList) = delayList[1]
      BY <3>1, DelayListType, HeadTailProperties
    <3>3. ticksLeft[delayList[1]] > 0
      BY <1>4, <3>1, <3>2 DEF Expired
    <3>4. ticksLeft[delayList[1]] <= ticksLeft[delayList[i]]
      BY <3>1, DelayListType DEF Ticks
    <3>5. QED BY <3>1, <3>3, <3>4
  <2>4. QED BY <1>1, <2>1, <2>2, <2>3 DEF Ticks
<1>5. QED BY <1>3, <1>4

LEMMA DelayTicksTicks ==
  ASSUME SInv, Ticks, NEW c \in Cores, NEW t \in Tasks, DelayTicks(c, t)
  PROVE  Ticks'
<1>1. PICK ticks \in 1..MaxTicks : wake' = [wake EXCEPT ![c] = ticks]
  BY DEF DelayTicks
<1>2. /\ UNCHANGED <<delayList, ticksLeft>>
      /\ pc' = [pc EXCEPT ![c] = "delayAdd"] /\ pc[c] = "task"
  BY DEF DelayTicks, Executes
<1>3. wake' \in [Cores -> 0..MaxTicks] /\ wake'[c] > 0 /\ \A d \in Cores \ {c} : wake'[d] = wake[d]
  BY <1>1, KernelAssumption DEF Ticks
<1>4. (pc[BSP] = "wakeups" <=> pc'[BSP] = "wakeups") /\ \A d \in Cores \ {c} : pc'[d] = pc[d]
  BY <1>2, Constants DEF SInv, IInv, Typed
<1>5. QED BY <1>2, <1>3, <1>4 DEF Ticks

LEMMA DelayAddTicks ==
  ASSUME SInv, Ticks, NEW c \in Cores, DelayAddLocked(c)
  PROVE  Ticks'
<1> DEFINE t == currentTask[c]
           w == wake[c]
<1>1. /\ pc[c] = "delayAdd" /\ t \in Tasks
      /\ delayList' = DelayInsert(delayList, t, w)
      /\ ticksLeft' = [ticksLeft EXCEPT ![t] = w]
      /\ UNCHANGED wake
      /\ pc'[c] = "delayBlock" /\ \A d \in Cores \ {c} : pc'[d] = pc[d]
  BY DEF DelayAddLocked, SInv, IInv, Typed, StackMatches
<1>2. \A i \in 1..Len(delayList) : delayList[i] # t
  <2>1. state[t] = "RUNNING"
    BY <1>1 DEF SInv, RunsOrStops, Stopping
  <2>2. ~InList(delayList, t)
    BY <1>1, <2>1, ListedWaits
  <2>3. QED BY <2>2 DEF InList
<1>3. /\ w \in 0..MaxTicks /\ w \in Int
      /\ \A i \in 1..Len(delayList) : ticksLeft[delayList[i]] \in Int
      /\ MaxTicks \in Nat
  BY DelayListType, KernelAssumption DEF Ticks
<1>4. /\ ticksLeft' \in [Tasks -> 0..MaxTicks]
      /\ ticksLeft'[t] = w
      /\ \A i \in 1..Len(delayList) : ticksLeft'[delayList[i]] = ticksLeft[delayList[i]]
  BY <1>1, <1>2, <1>3, DelayListType DEF Ticks
<1>5. /\ Len(delayList') = Len(delayList) + 1
      /\ \E n \in 0..Len(delayList) :
           /\ \A i \in 1..n : delayList'[i] = delayList[i] /\ ticksLeft[delayList[i]] <= w
           /\ delayList'[n + 1] = t
           /\ \A i \in n + 1..Len(delayList) : delayList'[i + 1] = delayList[i]
           /\ n < Len(delayList) => ~(ticksLeft[delayList[n + 1]] <= w)
  BY <1>1, DelayListType, InsertShape
<1>6. PICK n \in 0..Len(delayList) :
        /\ \A i \in 1..n : delayList'[i] = delayList[i] /\ ticksLeft[delayList[i]] <= w
        /\ delayList'[n + 1] = t
        /\ \A i \in n + 1..Len(delayList) : delayList'[i + 1] = delayList[i]
        /\ n < Len(delayList) => ~(ticksLeft[delayList[n + 1]] <= w)
  BY <1>5
<1> HIDE DEF t, w
<1>7. ASSUME NEW i \in n + 1..Len(delayList) PROVE w <= ticksLeft[delayList[i]]
  <2>1. /\ n + 1 \in 1..Len(delayList) /\ i \in 1..Len(delayList) /\ n < Len(delayList)
        /\ n + 1 = i \/ n + 1 < i
    BY DelayListType
  <2>2. ticksLeft[delayList[n + 1]] <= ticksLeft[delayList[i]]
    BY <1>3, <2>1 DEF Ticks
  <2>3. QED BY <1>3, <1>6, <2>1, <2>2
<1>8. ASSUME NEW i \in 1..Len(delayList')
      PROVE  \/ i <= n /\ i \in 1..Len(delayList) /\ delayList'[i] = delayList[i]
             \/ i = n + 1 /\ delayList'[i] = t
             \/ i > n + 1 /\ i - 1 \in n + 1..Len(delayList) /\ delayList'[i] = delayList[i - 1]
  <2>1. i <= n => i \in 1..Len(delayList) /\ delayList'[i] = delayList[i]
    BY <1>5, <1>6, DelayListType
  <2>2. i > n + 1 => i - 1 \in n + 1..Len(delayList) /\ delayList'[i] = delayList[i - 1]
    <3>1. i > n + 1 => i - 1 \in n + 1..Len(delayList) /\ (i - 1) + 1 = i
      BY <1>5, DelayListType
    <3>2. QED BY <1>6, <3>1
  <2>3. i <= n \/ i = n + 1 \/ i > n + 1
    BY <1>5, DelayListType
  <2>4. QED BY <1>6, <2>1, <2>2, <2>3
<1>9. ASSUME NEW i \in 1..Len(delayList'), NEW j \in 1..Len(delayList'), i < j
      PROVE  ticksLeft'[delayList'[i]] <= ticksLeft'[delayList'[j]]
  <2>1. CASE i <= n /\ j <= n
    <3>1. /\ i \in 1..Len(delayList) /\ delayList'[i] = delayList[i]
          /\ j \in 1..Len(delayList) /\ delayList'[j] = delayList[j]
      BY <1>8, <2>1, DelayListType
    <3>2. QED BY <1>4, <1>9, <3>1 DEF Ticks
  <2>2. CASE i <= n /\ j = n + 1
    <3>1. /\ i \in 1..Len(delayList) /\ delayList'[i] = delayList[i] /\ i \in 1..n
          /\ delayList'[j] = t
      BY <1>6, <1>8, <2>2, DelayListType
    <3>2. QED BY <1>4, <1>6, <3>1
  <2>3. CASE i <= n /\ j > n + 1
    <3>1. /\ i \in 1..Len(delayList) /\ delayList'[i] = delayList[i]
          /\ j - 1 \in 1..Len(delayList) /\ delayList'[j] = delayList[j - 1] /\ i < j - 1
      BY <1>8, <2>3, DelayListType
    <3>2. QED BY <1>4, <3>1 DEF Ticks
  <2>4. CASE i = n + 1 /\ j > n + 1
    <3>1. j - 1 \in n + 1..Len(delayList) /\ j - 1 \in 1..Len(delayList) /\ delayList'[j] = delayList[j - 1]
      BY <1>8, <2>4, DelayListType
    <3>2. QED BY <1>4, <1>6, <1>7, <2>4, <3>1
  <2>5. CASE i > n + 1 /\ j > n + 1
    <3>1. /\ i - 1 \in 1..Len(delayList) /\ delayList'[i] = delayList[i - 1]
          /\ j - 1 \in 1..Len(delayList) /\ delayList'[j] = delayList[j - 1] /\ i - 1 < j - 1
      BY <1>8, <1>9, <2>5, DelayListType
    <3>2. QED BY <1>4, <3>1 DEF Ticks
  <2>6. i \in Int /\ j \in Int /\ n \in Int
    BY <1>5, DelayListType
  <2>7. QED BY <1>9, <2>1, <2>2, <2>3, <2>4, <2>5, <2>6
<1>10. ASSUME pc'[BSP] # "wakeups"
       PROVE  /\ \A i \in 1..Len(delayList') : ticksLeft'[delayList'[i]] > 0
              /\ \A d \in Cores : pc'[d] = "delayAdd" => wake'[d] > 0
  <2>1. /\ \A i \in 1..Len(delayList) : ticksLeft[delayList[i]] > 0
        /\ \A d \in Cores : pc[d] = "delayAdd" => wake[d] > 0
    <3>1. pc[BSP] # "wakeups"
      BY <1>1, <1>10, Constants
    <3>2. QED BY <3>1 DEF Ticks
  <2>2. w > 0
    BY <1>1, <2>1 DEF w
  <2>3. ASSUME NEW i \in 1..Len(delayList') PROVE ticksLeft'[delayList'[i]] > 0
    <3>1. delayList'[i] = t \/ \E j \in 1..Len(delayList) : delayList'[i] = delayList[j]
      BY <1>8, DelayListType
    <3>2. QED BY <1>4, <2>1, <2>2, <3>1
  <2>4. QED BY <1>1, <2>1, <2>3
<1>11. QED BY <1>1, <1>4, <1>9, <1>10 DEF Ticks

LEMMA NextTicks == SInv /\ Ticks /\ [Next]_vars => Ticks'
<1> SUFFICES ASSUME SInv, Ticks, [Next]_vars PROVE Ticks'
  OBVIOUS
<1>1. CASE \/ UNCHANGED vars \/ KernelStart \/ \E t \in Tasks : TaskCreate(t)
  BY <1>1, TicksKept DEF vars, KernelStart, TaskCreate, delayVars
<1>2. ASSUME NEW c \in Cores, KernelStep(c) \/ Timer(c) PROVE Ticks'
  <2>1. CASE SchedStart(c) \/ Schedule(c)
    <3>1. /\ UNCHANGED delayVars /\ pc[c] \in {"boot", "trap"}
          /\ pc'[c] = "switched" /\ \A d \in Cores \ {c} : pc'[d] = pc[d]
      BY <2>1 DEF SchedStart, Schedule, Dispatch, SInv, IInv, Typed
    <3>2. QED BY <3>1, TicksKept, Constants DEF delayVars
  <2>2. CASE WakeReady(c) \/ NoSwitch(c) \/ TrapExit(c) \/ DelayBlock(c) \/ DelayUnlock(c)
    <3>1. UNCHANGED <<delayList, ticksLeft, wake>>
      BY <2>2 DEF WakeReady, NoSwitch, TrapExit, DelayBlock, DelayUnlock, delayVars
    <3>2. /\ pc[BSP] = "wakeups" => pc'[BSP] = "wakeups"
          /\ \A d \in Cores : pc'[d] = "delayAdd" => pc[d] = "delayAdd"
      BY <2>2, Constants DEF WakeReady, NoSwitch, TrapExit, DelayBlock, DelayUnlock, SInv, IInv, Typed
    <3>3. QED BY <3>1, <3>2, TicksKept
  <2>3. QED BY <1>2, <2>1, <2>2, TimerTicks, WakeupsTicks, DelayAddTicks DEF KernelStep
<1>3. ASSUME NEW c \in Cores, NEW t \in Tasks, TaskStep(c, t) PROVE Ticks'
  <2>1. CASE ~DelayTicks(c, t)
    <3>1. UNCHANGED delayVars
      BY <1>3, <2>1 DEF TaskStep, YieldCall, RequestSwitch, Ecall, TaskSuspend, SuspendStop,
         TaskExitHandler, TaskDelete, SelfCall, SelfStop, YieldIfCurrent, TaskResume, ResumeReady
    <3>2. pc[c] = "task" /\ (pc' = pc \/ pc' = [pc EXCEPT ![c] = "trap"])
      BY <1>3, <2>1 DEF TaskStep, YieldCall, RequestSwitch, Ecall, TaskSuspend, SuspendStop, Executes,
         TaskExitHandler, TaskDelete, SelfCall, SelfStop, YieldIfCurrent, TaskResume, ResumeReady
    <3>3. /\ pc[BSP] = "wakeups" => pc'[BSP] = "wakeups"
          /\ \A d \in Cores : pc'[d] = "delayAdd" => pc[d] = "delayAdd"
      BY <3>2, Constants DEF SInv, IInv, Typed
    <3>4. QED BY <3>1, <3>3, TicksKept DEF delayVars
  <2>2. QED BY <2>1, DelayTicksTicks
<1>4. QED BY <1>1, <1>2, <1>3 DEF Next

LEMMA SpecTicks == Disciplined => (Spec => [](SInv /\ Ticks))
<1> SUFFICES ASSUME Disciplined PROVE Spec => [](SInv /\ Ticks)
  OBVIOUS
<1>1. Init => SInv /\ Ticks
  BY InitSInv, InitTicks
<1>2. SInv /\ Ticks /\ [Next]_vars => (SInv /\ Ticks)'
  BY NextSInv, NextTicks
<1>3. QED BY <1>1, <1>2, PTL DEF Spec

(* Every variable keeps its type; in particular the ticks left to a task   *)
(* in the delay list, or about to enter it, never fall below zero.         *)
THEOREM TypesHold == Disciplined => (Spec => []TypeOK)
<1>1. SInv /\ Ticks => TypeOK
  <2> SUFFICES ASSUME SInv, Ticks PROVE TypeOK
    OBVIOUS
  <2>1. delayList \in Seq(Tasks) /\ woken \in [Cores -> Tasks \cup {None}]
    BY DelayListType, Constants DEF SInv, IInv, Typed, Waiters
  <2>2. QED BY <2>1 DEF TypeOK, SInv, IInv, Typed, Flags, Ticks
<1>2. QED BY SpecTicks, <1>1, PTL

(* Every blocked task is in the delay list, or has just been taken off it  *)
(* to be made ready, nobody else is there but a task about to block, the   *)
(* list is in the order of the wake-ups, and nobody in it is overdue once  *)
(* a tick has been handled (delay_ticks, delay_check_wakeups).             *)
THEOREM DelaysAccounted == Disciplined => (Spec => []SleepersAccounted)
<1>1. SInv /\ Ticks => SleepersAccounted
  <2> SUFFICES ASSUME SInv, Ticks PROVE SleepersAccounted
    OBVIOUS
  <2>1. ASSUME NEW i \in 1..Len(delayList)
        PROVE  state[delayList[i]] = "BLOCKED" \/ Blocking(delayList[i])
    BY DelayListType DEF SInv, DelaySound, InList
  <2>2. ASSUME NEW i \in 1..Len(delayList), NEW j \in 1..Len(delayList), i < j
        PROVE  delayList[i] # delayList[j] /\ ticksLeft[delayList[i]] <= ticksLeft[delayList[j]]
    <3>1. i # j
      BY <2>2, DelayListType
    <3>2. QED BY <2>2, <3>1 DEF SInv, DelaySound, NoTwice, Ticks
  <2>3. \A t \in Tasks : state[t] = "BLOCKED" => InList(delayList, t) \/ \E c \in Cores : woken[c] = t
    BY DEF SInv, DelaySound
  <2>4. pc[BSP] # "wakeups" => \A i \in 1..Len(delayList) : ticksLeft[delayList[i]] > 0
    BY DEF Ticks
  <2>5. QED BY <2>1, <2>2, <2>3, <2>4 DEF SleepersAccounted, Blocking
<1>2. QED BY SpecTicks, <1>1, PTL
-----------------------------------------------------------------------------
(* The kernel shares its harts as CpuSharing promises.                     *)

Runnable == {t \in Tasks : state[t] \in {"READY", "RUNNING"}}

LEMMA DispatchShares ==
  ASSUME SInv, IInv', NEW c \in Cores, SchedStart(c) \/ Schedule(c)
  PROVE  \E t \in Tasks : Sharing!Switch(c, t)
<1>1. PICK next \in Tasks : Dispatched(c, next)
  BY DispatchEffect
<1>2. Runnable' = Runnable /\ next \in Runnable
  <2>1. \A t \in Tasks : state'[t] \in {"READY", "RUNNING"} <=> state[t] \in {"READY", "RUNNING"}
    BY <1>1 DEF Dispatched
  <2>2. QED BY <1>1, <2>1 DEF Runnable, Dispatched
<1>3. /\ currentTask' = [currentTask EXCEPT ![c] = next]
      /\ currentTask'[c] = next /\ \A d \in Cores \ {c} : currentTask'[d] = currentTask[d]
  BY <1>1 DEF Dispatched, SInv, IInv, Typed
<1>4. c \in Affinity[next] /\ \A d \in Cores \ {c} : currentTask[d] # next
  BY <1>3, Constants DEF IInv, TaskOnOneCore
<1>5. Sharing!Switch(c, next)
  BY <1>2, <1>3, <1>4 DEF Sharing!Switch, Runnable
<1>6. QED BY <1>5

(* The tasks that a step makes runnable, or stops. *)
LEMMA StartsOrStops ==
  ASSUME NEW t \in Tasks, NEW new \in States, UNCHANGED currentTask,
         state \in [Tasks -> States], state' = [state EXCEPT ![t] = new],
         (state[t] \in {"READY", "RUNNING"}) # (new \in {"READY", "RUNNING"})
  PROVE  Sharing!Start(t) \/ Sharing!Stop(t)
<1>1. CASE new \in {"READY", "RUNNING"}
  <2>1. t \notin Runnable /\ Runnable' = Runnable \cup {t}
    BY <1>1 DEF Runnable
  <2>2. QED BY <2>1 DEF Sharing!Start, Runnable
<1>2. CASE new \notin {"READY", "RUNNING"}
  <2>1. t \in Runnable /\ Runnable' = Runnable \ {t}
    BY <1>2 DEF Runnable
  <2>2. QED BY <2>1 DEF Sharing!Stop, Runnable
<1>3. QED BY <1>1, <1>2

LEMMA StepShares ==
  ASSUME SInv, IInv', Disciplined, Next
  PROVE  Sharing!Next \/ UNCHANGED <<currentTask, Runnable>>
<1>1. ASSUME NEW t \in Tasks, TaskCreate(t) PROVE Sharing!Next
  <2>1. /\ UNCHANGED currentTask /\ state[t] = "FREE"
        /\ state' = [state EXCEPT ![t] = "READY"]
    BY <1>1 DEF TaskCreate
  <2>2. QED BY <2>1, StartsOrStops DEF SInv, IInv, Typed, States, Sharing!Next
<1>2. ASSUME NEW c \in Cores, SchedStart(c) \/ Schedule(c) PROVE Sharing!Next
  BY <1>2, DispatchShares DEF Sharing!Next
<1>3. ASSUME NEW c \in Cores, WakeReady(c) PROVE Sharing!Next
  <2>1. /\ UNCHANGED currentTask /\ woken[c] \in Tasks /\ state[woken[c]] = "BLOCKED"
        /\ state' = [state EXCEPT ![woken[c]] = "READY"]
    BY <1>3, Constants DEF WakeReady, MakeReady, SInv, IInv, Typed, DelaySound, Waiters
  <2>2. QED BY <2>1, StartsOrStops DEF SInv, IInv, Typed, States, Sharing!Next
<1>4. ASSUME NEW c \in Cores, DelayBlock(c) PROVE Sharing!Next
  <2>1. /\ UNCHANGED currentTask /\ currentTask[c] \in Tasks /\ state[currentTask[c]] = "RUNNING"
        /\ state' = [state EXCEPT ![currentTask[c]] = "BLOCKED"]
    BY <1>4 DEF DelayBlock, SInv, IInv, StackMatches, RunsOrStops, Stopping
  <2>2. QED BY <2>1, StartsOrStops DEF SInv, IInv, Typed, States, Sharing!Next
<1>5. ASSUME NEW c \in Cores, NEW t \in Tasks, SuspendStop(c, t) \/ TaskDelete(c, t)
      PROVE  Sharing!Next
  <2>1. currentTask[cpuAt[t]] = t /\ state[t] = "RUNNING"
    BY <1>5, StopsSelf
  <2>2. PICK new \in {"SUSPENDED", "DELETED"} : state' = [state EXCEPT ![t] = new]
    BY <1>5, <2>1 DEF SuspendStop, TaskDelete, SelfStop
  <2>3. UNCHANGED currentTask
    BY <1>5 DEF SuspendStop, TaskDelete, SelfStop
  <2>4. QED BY <2>1, <2>2, <2>3, StartsOrStops DEF SInv, IInv, Typed, States, Sharing!Next
<1>6. ASSUME NEW c \in Cores, NEW t \in Tasks, ResumeReady(c, t) PROVE Sharing!Next
  <2>1. /\ UNCHANGED currentTask /\ target[t] \in Tasks /\ state[target[t]] = "SUSPENDED"
        /\ state' = [state EXCEPT ![target[t]] = "READY"]
    BY <1>6, Constants DEF ResumeReady, MakeReady, Executes, SInv, CallsPinned
  <2>2. QED BY <2>1, StartsOrStops DEF SInv, IInv, Typed, States, Sharing!Next
<1>7. ASSUME UNCHANGED <<currentTask, state>> PROVE UNCHANGED <<currentTask, Runnable>>
  BY <1>7 DEF Runnable
<1>8. ASSUME NEW c \in Cores, KernelStep(c) \/ Timer(c)
      PROVE  Sharing!Next \/ UNCHANGED <<currentTask, Runnable>>
  <2>1. CASE CheckWakeups(c) \/ NoSwitch(c) \/ TrapExit(c) \/ DelayAddLocked(c) \/ DelayUnlock(c) \/ Timer(c)
    BY <1>7, <2>1 DEF CheckWakeups, NoSwitch, TrapExit, DelayAddLocked, DelayUnlock, Timer, schedVars
  <2>2. QED BY <1>2, <1>3, <1>4, <1>8, <2>1 DEF KernelStep
<1>9. ASSUME NEW c \in Cores, NEW t \in Tasks, TaskStep(c, t)
      PROVE  Sharing!Next \/ UNCHANGED <<currentTask, Runnable>>
  <2>1. CASE \/ YieldCall(c, t) \/ RequestSwitch(c, t) \/ Ecall(c, t) \/ DelayTicks(c, t)
             \/ TaskSuspend(c, t) \/ TaskExitHandler(c, t) \/ YieldIfCurrent(c, t) \/ TaskResume(c, t)
    BY <1>7, <2>1 DEF YieldCall, RequestSwitch, Ecall, DelayTicks, TaskSuspend, TaskExitHandler,
       SelfCall, YieldIfCurrent, TaskResume, schedVars
  <2>2. QED BY <1>5, <1>6, <1>9, <2>1 DEF TaskStep
<1>10. CASE KernelStart
  BY <1>7, <1>10 DEF KernelStart, schedVars
<1>11. QED BY <1>1, <1>8, <1>9, <1>10 DEF Next

(* Whatever its queues, lists and locks do, the kernel shares its harts as *)
(* the abstract scheduler does: a hart goes over only to a runnable task   *)
(* that may run there and that no other hart has, and a task stops or      *)
(* becomes runnable without a hart being taken from anybody.               *)
THEOREM KernelSharesCpus == Disciplined => (Spec => SharesCpus)
<1> SUFFICES ASSUME Disciplined PROVE Spec => SharesCpus
  OBVIOUS
<1>1. Init => Sharing!Init
  BY DEF Init, Sharing!Init
<1>2. SInv /\ [Next]_vars => [Sharing!Next]_(Sharing!vars)
  <2> SUFFICES ASSUME SInv, [Next]_vars PROVE Sharing!Next \/ UNCHANGED <<currentTask, Runnable>>
    BY DEF Sharing!vars, Runnable
  <2>1. CASE Next
    <3>1. IInv'
      BY NextIInv, DisciplinedPinned DEF SInv
    <3>2. QED BY <2>1, <3>1, StepShares
  <2>2. CASE UNCHANGED vars
    BY <2>2 DEF vars, schedVars, Runnable
  <2>3. QED BY <2>1, <2>2
<1>3. QED BY SpecSInv, <1>1, <1>2, PTL DEF Spec, SharesCpus, Sharing!Spec
=============================================================================
