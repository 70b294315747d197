-------------------------- MODULE NanoKernelProofs --------------------------
(***************************************************************************)
(* For any number of tasks, levels, objects and ticks: if the task that    *)
(* runs first is alone at the highest level, nobody stops a blocked task,  *)
(* the idle task is not stopped, and whoever resumes a task is the only    *)
(* other one that may resume or delete it, then the lists of the kernel    *)
(* are sound, hold every task that is ready or sleeps, and nobody else,    *)
(* and each switch goes to the best task.                                  *)
(*                                                                         *)
(* The argument: the state of a task, its priority and the object of its   *)
(* call name the one list it belongs to (Home), but for the first task,    *)
(* which sched_start leaves in its ready queue while it runs (x). A task   *)
(* is never put into a second list, which would cut the first (Housed),    *)
(* because a task made ready or blocked is in none: its state says so, and *)
(* a current task that is not RUNNING is on its way to a switch (Control). *)
(***************************************************************************)
EXTENDS NanoWaiting, TaskListProofs

Top(f) == Level(InitPriority[f])

(* The first task is alone at the highest level. *)
Leads(f) == /\ f \in BootTasks /\ Top(f) > 0 /\ Retunes[f] \subseteq {f}
            /\ \A u \in Tasks \ {f, Idle} : Level(InitPriority[u]) < Top(f)

Disciplined ==
  /\ \E f \in BootTasks : Leads(f)
  /\ ~StopsBlocked
  /\ \A t \in Tasks : Idle \notin Suspends[t] \cup Deletes[t]
  /\ \A t, v \in Tasks : \A u \in Resumes[t] :
       v \notin {t, u} => u \notin Resumes[v] \cup Deletes[v]

(* Further conditions of some theorems: calls wait for ever, a task gives  *)
(* nobody but itself another priority, tasks are created before the start. *)
NoTimeouts == Timed = {}
OwnPriority == \A t \in Tasks : Retunes[t] \subseteq {t}
BootOnly == Creators = {}

-----------------------------------------------------------------------------
(* The invariant. *)

None == <<"none", 0>>
WaitNames == {WaitQueue(o) : o \in Objects}

(* The list each task belongs to, with the states st, priorities pr and    *)
(* objects ob; x, if not null, runs and is still queued.                   *)
Home(x, st, pr, ob) ==
  [t \in Tasks |->
     CASE t = x -> Ready(Top(x))
       [] t # x /\ st[t] = "READY" -> Ready(Level(pr[t]))
       [] t # x /\ st[t] = "BLOCKED" -> IF ob[t] = Null THEN Delayed ELSE WaitQueue(ob[t])
       [] OTHER -> None]

(* Where the code of a task may be, with any kind of object. *)
Places == {"run", "request", "ecall", "resume", "semCheck", "mutexCheck",
           "send", "sendCheck", "sendRetry", "recvCheck", "recvRetry"}

Types == /\ KernelTypeOK
         /\ pc \in [Tasks -> Places] /\ then \in [Tasks -> Places]
         /\ obj \in [Tasks -> Objects \cup Tasks \cup {Null}]

Fresh(x) == x # Null => /\ x \in BootTasks /\ Leads(x)
                        /\ currentTask = x /\ state[x] = "RUNNING"
                        /\ \A u \in Tasks \ {x} : /\ state[u] # "BLOCKED"
                                                  /\ Level(priority[u]) # Top(x)

(* Before sched_start, tasks are only created. *)
Booting == currentTask = Null =>
  \A t \in Tasks : /\ state[t] \in {"FREE", "READY"}
                   /\ priority[t] = IF t = Idle THEN 0 ELSE InitPriority[t]
                   /\ pc[t] = "run"

(* Whoever is current and not RUNNING is about to give the hart away. *)
Leaving == currentTask # Null /\ state[currentTask] # "RUNNING" =>
  \/ pc[currentTask] = "request"
  \/ pc[currentTask] = "ecall" /\ switchPending

(* What a task is doing and what its call is about. *)
Calls == \A t \in Tasks :
  /\ state[t] = "BLOCKED" => obj[t] \in Objects \cup {Null}
  /\ pc[t] = "run" => obj[t] = Null
  /\ pc[t] \notin {"request", "ecall"} => then[t] = "run"
  /\ pc[t] \in {"request", "ecall"} /\ then[t] = "run" => obj[t] = Null
  /\ then[t] \notin {"request", "ecall", "resume"}
  /\ pc[t] = "resume" => obj[t] \in Resumes[t] /\ state[obj[t]] = "SUSPENDED"

Control == /\ \A t \in Tasks : state[t] = "RUNNING" => currentTask = t
           /\ state[Idle] \in {"READY", "RUNNING"}
           /\ Booting /\ Leaving /\ Calls

(* The delay list is in order, and nobody in it is due. *)
Timely(lk, left) == /\ Ascending(Chain(lk, Delayed), left)
                    /\ \A i \in 1..Len(Chain(lk, Delayed)) : left[Chain(lk, Delayed)[i]] > 0

KernelInv(x) == /\ Types
                /\ Housed(links, ListNames, Home(x, state, priority, obj))
                /\ Fresh(x) /\ Control
                /\ Timely(links, ticksLeft)
Sound == \E x \in Tasks \cup {Null} : KernelInv(x)

-----------------------------------------------------------------------------
(* The names of the lists. *)

LEMMA Names ==
  /\ \A p \in Levels : Ready(p) \in ListNames /\ Ready(p) \in ReadyNames
  /\ Delayed \in ListNames
  /\ \A o \in Objects : WaitQueue(o) \in ListNames
  /\ None \notin ListNames /\ None \notin ReadyNames
  /\ ReadyNames \subseteq ListNames
  /\ Delayed \notin ReadyNames /\ WaitNames \cap ReadyNames = {} /\ Delayed \notin WaitNames
  /\ WaitNames \subseteq ListNames
  /\ \A p, q : /\ Ready(p) = Ready(q) => p = q
               /\ WaitQueue(p) = WaitQueue(q) => p = q
               /\ Ready(p) # WaitQueue(q)
  /\ \A p : Ready(p) # Delayed /\ WaitQueue(p) # Delayed
            /\ Ready(p) # None /\ WaitQueue(p) # None
BY DEF ReadyNames, WaitNames, ListNames, Ready, Delayed, WaitQueue, None

(* Where a task that is not the first one belongs. *)
LEMMA HomeIs ==
  ASSUME NEW x, NEW st, NEW pr, NEW ob, NEW t \in Tasks, t # x
  PROVE  /\ st[t] = "READY" => Home(x, st, pr, ob)[t] = Ready(Level(pr[t]))
         /\ st[t] = "BLOCKED" =>
              Home(x, st, pr, ob)[t] = IF ob[t] = Null THEN Delayed ELSE WaitQueue(ob[t])
         /\ st[t] \notin {"READY", "BLOCKED"} => Home(x, st, pr, ob)[t] = None
BY DEF Home

LEMMA HomeOfFirst ==
  ASSUME NEW x \in Tasks, NEW st, NEW pr, NEW ob
  PROVE  Home(x, st, pr, ob)[x] = Ready(Top(x))
BY DEF Home

(* Only the ready tasks and the first one belong to the ready queues. *)
LEMMA HomeReady ==
  ASSUME NEW x, NEW st, NEW pr, NEW ob, NEW t \in Tasks, NEW p,
         Home(x, st, pr, ob)[t] = Ready(p)
  PROVE  \/ t = x /\ p = Top(x)
         \/ t # x /\ st[t] = "READY" /\ p = Level(pr[t])
<1>1. CASE t = x
  <2>1. Home(x, st, pr, ob)[t] = Ready(Top(x))
    BY <1>1, HomeOfFirst
  <2>2. QED BY <1>1, <2>1, Names
<1>2. CASE t # x
  BY <1>2, HomeIs, Names
<1>3. QED BY <1>1, <1>2

(* A change of what is known of one task moves that task at most. *)
LEMMA HomeMoves ==
  ASSUME NEW x, NEW y, NEW st1, NEW st2, NEW pr1, NEW pr2, NEW ob1, NEW ob2, NEW t \in Tasks,
         \A u \in Tasks \ {t} : /\ st1[u] = st2[u] /\ pr1[u] = pr2[u] /\ ob1[u] = ob2[u]
                                /\ u = x <=> u = y
  PROVE  Moves(Home(x, st1, pr1, ob1), Home(y, st2, pr2, ob2), t, Home(y, st2, pr2, ob2)[t])
<1>1. ASSUME NEW u \in Tasks \ {t}
      PROVE  Home(x, st1, pr1, ob1)[u] = Home(y, st2, pr2, ob2)[u]
  BY <1>1 DEF Home
<1>2. QED BY <1>1 DEF Moves

-----------------------------------------------------------------------------
(* The switch. *)

(* select_next_task finds a task of the highest level that has any. *)
LEMMA SelectBest ==
  ASSUME NEW lk, NEW h, Housed(lk, ListNames, h), NEW i \in Tasks, h[i] \in ReadyNames
  PROVE  /\ SelectNext(lk) \in Tasks
         /\ \E p \in Levels : /\ h[SelectNext(lk)] = Ready(p)
                              /\ \A u \in Tasks, q \in Levels : h[u] = Ready(q) => q <= p
<1>1. MaxPriority \in Nat \ {0} /\ ReadyNames \subseteq ListNames
  BY Names, NanoAssumption
<1>2. /\ Used(lk) # {} /\ Highest(lk) \in Levels
      /\ lk.head[Ready(Highest(lk))] \in Tasks
      /\ h[lk.head[Ready(Highest(lk))]] = Ready(Highest(lk))
      /\ \A u \in Tasks, q \in Levels : h[u] = Ready(q) => q <= Highest(lk)
  BY <1>1, HighestLevel
<1>3. SelectNext(lk) = lk.head[Ready(Highest(lk))]
  BY <1>2 DEF SelectNext, Used, Highest
<1>4. QED BY <1>2, <1>3

(* All lists but the ready queues are as before. *)
Apart == ListNames \ ReadyNames

LEMMA RequeueHouses ==
  ASSUME NEW lk, NEW h, NEW g, NEW t \in Tasks, NEW pr, pr[t] \in Nat,
         Housed(lk, ListNames, h), h[t] \in ReadyNames \/ h[t] \notin ListNames,
         Moves(h, g, t, Ready(Level(pr[t])))
  PROVE  /\ Housed(Requeued(lk, pr, t), ListNames, g)
         /\ Others(Requeued(lk, pr, t), lk, Apart)
BY MovedInReady, Names, NanoAssumption DEF Requeued, Apart

(* What sched_schedule makes of the lists lk and the states st, in which   *)
(* the current task alone may run, and alone may run and be queued.        *)
Runnable(x, st) == /\ st \in [Tasks -> States] /\ st[Idle] \in {"READY", "RUNNING"}
                   /\ currentTask \in Tasks
                   /\ x = Null \/ (x = currentTask /\ st[x] = "RUNNING")
                   /\ \A t \in Tasks : st[t] = "RUNNING" => t = currentTask

Dispatched(lk, st) ==
  /\ Housed(links', ListNames, Home(Null, state', priority, obj))
  /\ Others(links', lk, Apart)
  /\ state' \in [Tasks -> States]
  /\ currentTask' \in Tasks /\ state'[currentTask'] = "RUNNING"
  /\ st[currentTask'] \in {"READY", "RUNNING"}
  /\ \A t \in Tasks \ {currentTask'} :
       state'[t] = IF t = currentTask /\ st[t] = "RUNNING" THEN "READY" ELSE st[t]
  /\ \A t \in Tasks : state'[t] = "READY" => Level(priority[t]) <= Level(priority[currentTask'])
  /\ switchPending' = FALSE

LEMMA ScheduleDispatches ==
  ASSUME NEW x, NEW lk, NEW st, priority \in [Tasks -> Nat], Runnable(x, st),
         Housed(lk, ListNames, Home(x, st, priority, obj)),
         Schedule(lk, st)
  PROVE  Dispatched(lk, st)
<1> DEFINE cur == currentTask
           requeue == st[cur] = "RUNNING"
           ready == [st EXCEPT ![cur] = IF requeue THEN "READY" ELSE @]
           queued == IF requeue THEN Requeued(lk, priority, cur) ELSE lk
           next == SelectNext(queued)
           h == Home(x, st, priority, obj)
           g == Home(Null, ready, priority, obj)
<1>1. /\ links' = RemoveReady(queued, priority, next)
      /\ state' = [st EXCEPT ![cur] = IF requeue THEN "READY" ELSE @, ![next] = "RUNNING"]
      /\ currentTask' = next /\ switchPending' = FALSE
  BY Zenon DEF Schedule
<1>2. /\ st \in [Tasks -> States] /\ cur \in Tasks /\ Idle \in Tasks
      /\ ready \in [Tasks -> States] /\ Null \notin Tasks
      /\ \A t \in Tasks : t # cur => ready[t] = st[t]
      /\ ready[cur] = IF requeue THEN "READY" ELSE st[cur]
  BY ListAssumption, NanoAssumption DEF Runnable, States
<1>3. \A t \in Tasks : ready[t] # "RUNNING"
  BY <1>2 DEF Runnable
<1>4. ready[Idle] = "READY"
  BY <1>2 DEF Runnable
<1>5. state' = [ready EXCEPT ![next] = "RUNNING"]
  BY <1>1, <1>2
<1> HIDE DEF next, ready
<1>6. Housed(queued, ListNames, g) /\ Others(queued, lk, Apart)
  <2>1. CASE requeue
    <3>1. h[cur] \in ReadyNames \/ h[cur] \notin ListNames
      <4>1. CASE x = cur
        <5>1. Top(x) \in Levels
          BY <1>2, <4>1, LevelType, NanoAssumption DEF Top
        <5>2. QED BY <1>2, <4>1, <5>1, HomeOfFirst, Names
      <4>2. CASE x # cur
        BY <1>2, <2>1, <4>2, HomeIs, Names
      <4>3. QED BY <4>1, <4>2
    <3>2. g[cur] = Ready(Level(priority[cur]))
      BY <1>2, <2>1, HomeIs
    <3>3. Moves(h, g, cur, g[cur])
      <4>1. \A u \in Tasks \ {cur} : st[u] = ready[u] /\ (u = x <=> u = Null)
        BY <1>2 DEF Runnable
      <4> HIDE DEF cur
      <4>2. QED BY <1>2, <4>1, HomeMoves
    <3>4. /\ Housed(Requeued(lk, priority, cur), ListNames, g)
          /\ Others(Requeued(lk, priority, cur), lk, Apart)
      <4> HIDE DEF h, g, cur, requeue
      <4>1. priority[cur] \in Nat /\ Housed(lk, ListNames, h)
        BY <1>2 DEF h
      <4>2. QED BY <1>2, <3>1, <3>2, <3>3, <4>1, RequeueHouses
    <3>5. QED BY <2>1, <3>4
  <2>2. CASE ~requeue
    <3>1. ready = st /\ x = Null
      BY <1>2, <2>2 DEF Runnable, ready
    <3>2. QED BY <2>2, <3>1 DEF Others
  <2>3. QED BY <2>1, <2>2
<1> HIDE DEF queued
<1>7. next \in Tasks /\ ready[next] = "READY" /\ Level(priority[next]) \in Levels
      /\ g[next] = Ready(Level(priority[next]))
      /\ \A u \in Tasks, q \in Levels : g[u] = Ready(q) => q <= Level(priority[next])
  <2>1. g[Idle] \in ReadyNames
    <3>1. g[Idle] = Ready(Level(priority[Idle])) /\ Level(priority[Idle]) \in Levels
      BY <1>2, <1>4, HomeIs, LevelType, NanoAssumption
    <3>2. QED BY <3>1, Names
  <2>2. PICK p \in Levels : /\ next \in Tasks /\ g[next] = Ready(p)
                            /\ \A u \in Tasks, q \in Levels : g[u] = Ready(q) => q <= p
    <3> HIDE DEF g
    <3>1. QED BY <1>2, <1>6, <2>1, SelectBest DEF next
  <2>3. ready[next] = "READY" /\ p = Level(priority[next])
    BY <1>2, <2>2, HomeReady
  <2>4. QED BY <2>2, <2>3
<1> DEFINE f == Home(Null, state', priority, obj)
<1>8. f[next] = None
  <2>1. state'[next] = "RUNNING" /\ next # Null /\ next \in Tasks
    BY <1>2, <1>5, <1>7
  <2>2. QED BY <2>1, HomeIs
<1>9. Moves(g, f, next, None)
  <2>1. \A u \in Tasks \ {next} : ready[u] = state'[u]
    BY <1>2, <1>5
  <2>2. Moves(g, f, next, f[next])
    BY <1>7, <2>1, HomeMoves
  <2>3. QED BY <1>8, <2>2
<1>10. Housed(links', ListNames, f) /\ Others(links', lk, Apart)
  <2> HIDE DEF f, g
  <2> DEFINE p == Level(priority[next])
  <2>1. g[next] = Ready(p) /\ p \in Levels
    BY <1>7
  <2> HIDE DEF p
  <2>2. /\ Housed(RemoveReady(queued, priority, next), ListNames, f)
        /\ Shorter(RemoveReady(queued, priority, next), queued, ListNames, Ready(p),
                   Place(queued, Ready(p), next))
    BY <1>6, <1>7, <1>9, <2>1, Names, RemoveReadyHouses
  <2>3. Others(links', queued, Apart)
    BY <1>1, <2>1, <2>2, Names DEF Shorter, Others, Apart
  <2>4. QED BY <1>1, <1>6, <2>2, <2>3, OthersTrans
<1>11. ASSUME NEW t \in Tasks, state'[t] = "READY"
       PROVE  Level(priority[t]) <= Level(priority[next])
  <2>1. ready[t] = "READY"
    BY <1>2, <1>5, <1>11
  <2>2. g[t] = Ready(Level(priority[t])) /\ Level(priority[t]) \in Levels
    BY <1>2, <2>1, HomeIs, LevelType, NanoAssumption
  <2>3. QED BY <1>7, <2>2
<1>12. state' \in [Tasks -> States] /\ state'[next] = "RUNNING"
  BY <1>2, <1>5, <1>7 DEF States
<1>13. st[next] \in {"READY", "RUNNING"}
  BY <1>2, <1>7
<1>14. \A t \in Tasks \ {next} :
         state'[t] = IF t = cur /\ st[t] = "RUNNING" THEN "READY" ELSE st[t]
  BY <1>2, <1>5
<1>15. QED BY <1>1, <1>7, <1>10, <1>11, <1>12, <1>13, <1>14 DEF Dispatched

-----------------------------------------------------------------------------
(* The delay list. *)

(* What delay_check_wakeups has reached when the tasks of woken are ready. *)
AfterWaking(woken) == [t \in Tasks |-> IF t \in woken THEN "READY" ELSE state[t]]
Waking(x, left, k) ==
  /\ k.woken \subseteq {t \in Tasks : state[t] = "BLOCKED" /\ obj[t] = Null /\ left[t] = 0}
  /\ Housed(k.links, ListNames, Home(x, AfterWaking(k.woken), priority, obj))
  /\ Ascending(Chain(k.links, Delayed), left)
  /\ Others(k.links, links, WaitNames)
Due(k, left) == k.links.head[Delayed] # Null /\ Expired(left[k.links.head[Delayed]])
WakeFirst(k) == [links |-> AddReady(Pop(k.links, Delayed), priority, k.links.head[Delayed]),
                 woken |-> k.woken \cup {k.links.head[Delayed]}]

Sleeping(x) == /\ priority \in [Tasks -> Nat]
               /\ x \in Tasks \cup {Null}
               /\ \A t \in Tasks : state[t] = "BLOCKED" => obj[t] \in Objects \cup {Null}

LEMMA FirstWakes ==
  ASSUME NEW x, Sleeping(x), NEW left \in [Tasks -> Nat], NEW k, Waking(x, left, k), Due(k, left)
  PROVE  /\ Waking(x, left, WakeFirst(k))
         /\ Len(Chain(WakeFirst(k).links, Delayed)) = Len(Chain(k.links, Delayed)) - 1
<1> DEFINE t == k.links.head[Delayed]
           popped == Pop(k.links, Delayed)
           new == AddReady(popped, priority, t)
           st == AfterWaking(k.woken)
           next == AfterWaking(k.woken \cup {t})
           h == Home(x, st, priority, obj)
           f == [u \in Tasks |-> IF u = t THEN None ELSE h[u]]
           g == Home(x, next, priority, obj)
           l == Ready(Level(priority[t]))
<1>1. WakeFirst(k).links = new /\ WakeFirst(k).woken = k.woken \cup {t}
  BY DEF WakeFirst
<1>2. t # Null /\ left[t] <= 0 /\ Housed(k.links, ListNames, h)
  BY DEF Waking, Due, Expired
<1> DEFINE lk == k.links
<1> HIDE DEF h
<1>3. t \in Tasks /\ h[t] = Delayed /\ t = lk.head[Delayed] /\ Housed(lk, ListNames, h)
  <2> HIDE DEF lk
  <2>1. Housed(lk, ListNames, h) /\ Delayed \in ListNames
    BY <1>2, Names DEF lk
  <2>2. /\ lk.head[Delayed] = At(Chain(lk, Delayed), 1)
        /\ \A i \in 1..Len(Chain(lk, Delayed)) : /\ Chain(lk, Delayed)[i] \in Tasks
                                                 /\ h[Chain(lk, Delayed)[i]] = Delayed
    BY <2>1, HousedList
  <2>3. t = At(Chain(lk, Delayed), 1)
    BY <2>2 DEF lk
  <2> HIDE DEF t
  <2>4. t \in Tasks /\ h[t] = Delayed
    BY <1>2, <2>2, <2>3 DEF At
  <2>5. QED BY <2>1, <2>4 DEF lk, t
<1> HIDE DEF t, lk
<1>4. t # x /\ st[t] = "BLOCKED" /\ obj[t] = Null
  <2>1. t # x
    BY <1>3, HomeOfFirst, Names DEF h
  <2>2. CASE st[t] = "BLOCKED"
    <3>1. state[t] = "BLOCKED"
      BY <1>3, <2>2 DEF AfterWaking
    <3>2. obj[t] \in Objects \cup {Null}
      BY <1>3, <3>1 DEF Sleeping
    <3>3. obj[t] = Null
      BY <1>3, <2>1, <2>2, <3>2, HomeIs, Names DEF h
    <3>4. QED BY <2>1, <2>2, <3>3
  <2>3. CASE st[t] # "BLOCKED"
    BY <1>3, <2>1, <2>3, HomeIs, Names DEF h
  <2>4. QED BY <2>2, <2>3
<1>5. state[t] = "BLOCKED" /\ left[t] = 0
  BY <1>2, <1>3, <1>4 DEF AfterWaking
<1>6. next[t] = "READY" /\ \A u \in Tasks \ {t} : next[u] = st[u]
  BY <1>3 DEF AfterWaking
<1>7. g[t] = l /\ l \in ListNames /\ l \in ReadyNames /\ l # Delayed /\ l \notin WaitNames
  <2>1. Level(priority[t]) \in Levels
    BY <1>3, LevelType, NanoAssumption DEF Sleeping
  <2>2. g[t] = l
    <3> HIDE DEF next
    <3>1. QED BY <1>3, <1>4, <1>6, HomeIs
  <2>3. l \in ListNames /\ l \in ReadyNames /\ l # Delayed
    BY <2>1, Names
  <2>4. l \notin WaitNames
    BY <2>3, Names
  <2>5. QED BY <2>2, <2>3, <2>4
<1>8. Moves(h, g, t, g[t])
  BY <1>3, <1>6, HomeMoves DEF h
<1>9. Moves(h, f, t, None) /\ f[t] = None /\ Moves(f, g, t, l)
  BY <1>3, <1>7, <1>8 DEF Moves
<1> HIDE DEF f, g, l, st, next
<1>10. /\ Len(Chain(k.links, Delayed)) > 0
       /\ Housed(popped, ListNames, f)
       /\ Shorter(popped, k.links, ListNames, Delayed, 1)
  <2>1. /\ Len(Chain(lk, Delayed)) > 0
        /\ Housed(Pop(lk, Delayed), ListNames, f)
        /\ Shorter(Pop(lk, Delayed), lk, ListNames, Delayed, 1)
    BY <1>2, <1>3, <1>9, Names, PopHouses
  <2>2. QED BY <2>1 DEF lk
<1> HIDE DEF popped
<1>11. /\ Housed(new, ListNames, g)
       /\ Longer(new, popped, ListNames, l, Len(Chain(popped, l)), t)
  <2>1. f[t] \notin ListNames
    BY <1>9, Names
  <2>2. QED BY <1>3, <1>7, <1>9, <1>10, <2>1, AddReadyHouses DEF l
<1> HIDE DEF new
<1>12. Chain(new, Delayed) = Without(Chain(k.links, Delayed), 1)
  BY <1>7, <1>10, <1>11, Names DEF Longer, Shorter, Others
<1>13. /\ Chain(k.links, Delayed) \in Seq(Tasks) /\ NoTwice(Chain(k.links, Delayed))
       /\ 1 \in 1..Len(Chain(k.links, Delayed))
  <2>1. Len(Chain(k.links, Delayed)) \in Nat /\ Chain(k.links, Delayed) \in Seq(Tasks)
        /\ NoTwice(Chain(k.links, Delayed))
    BY <1>2, Names, HousedList
  <2>2. QED BY <1>10, <2>1
<1>14. /\ Ascending(Chain(new, Delayed), left)
       /\ Len(Chain(new, Delayed)) = Len(Chain(k.links, Delayed)) - 1
  <2>1. Ascending(Chain(k.links, Delayed), left)
    BY DEF Waking
  <2>2. Ascending(Without(Chain(k.links, Delayed), 1), left)
    BY <1>13, <2>1, AscendingWithout
  <2>3. Len(Without(Chain(k.links, Delayed), 1)) = Len(Chain(k.links, Delayed)) - 1
    BY <1>13, WithoutShape
  <2>4. QED BY <1>12, <2>2, <2>3
<1>15. Others(new, links, WaitNames)
  <2>1. Others(new, popped, WaitNames)
    BY <1>7, <1>11, Names DEF Longer, Others
  <2>2. Others(popped, k.links, WaitNames)
    BY <1>10, Names DEF Shorter, Others
  <2>3. QED BY <2>1, <2>2, OthersTrans DEF Waking
<1>16. k.woken \cup {t} \subseteq {u \in Tasks : state[u] = "BLOCKED" /\ obj[u] = Null /\ left[u] = 0}
  BY <1>3, <1>4, <1>5 DEF Waking
<1>17. QED BY <1>1, <1>11, <1>14, <1>15, <1>16 DEF Waking, g, next

LEMMA WakeupsHouse ==
  ASSUME NEW x, Sleeping(x), NEW left \in [Tasks -> Nat],
         Housed(links, ListNames, Home(x, state, priority, obj)),
         state \in [Tasks -> States],
         Ascending(Chain(links, Delayed), left)
  PROVE  /\ Waking(x, left, CheckWakeups(left))
         /\ Timely(CheckWakeups(left).links, left)
<1> DEFINE C == Cardinality(Tasks)
           first == [links |-> links, woken |-> {}]
           D == {k \in [links : Links(ListNames), woken : SUBSET Tasks] : Waking(x, left, k)}
           step == [k \in D |-> IF Due(k, left) THEN WakeFirst(k) ELSE k]
           Walk(f) == f = [n \in 0..C |->
                        IF n = 0 THEN [links |-> links, woken |-> {}]
                        ELSE LET k == f[n - 1]
                                 t == k.links.head[Delayed]
                             IN  IF t = Null \/ ~Expired(left[t]) THEN k
                                 ELSE [links |-> AddReady(Pop(k.links, Delayed), priority, t),
                                       woken |-> k.woken \cup {t}]]
           wake == CHOOSE f : Walk(f)
<1>1. C \in Nat /\ Len(Chain(links, Delayed)) \in Nat /\ Len(Chain(links, Delayed)) <= C
  <2>1. Chain(links, Delayed) \in Seq(Tasks) /\ NoTwice(Chain(links, Delayed))
        /\ Len(Chain(links, Delayed)) \in Nat
    BY Names, HousedList
  <2>2. QED BY <2>1, ShortEnough
<1>2. Waking(x, left, first)
  <2>1. first.links = links /\ first.woken = {}
    OBVIOUS
  <2>2. AfterWaking({}) = state
    BY DEF AfterWaking
  <2>3. QED BY <2>1, <2>2 DEF Waking, Others
<1>3. first \in D
  <2>1. links \in Links(ListNames)
    BY DEF Housed
  <2>2. QED BY <1>2, <2>1
<1>4. ASSUME NEW k \in D, Due(k, left)
      PROVE  WakeFirst(k) \in D
  <2>1. Waking(x, left, WakeFirst(k))
    BY <1>4, FirstWakes
  <2>2. WakeFirst(k).links \in Links(ListNames) /\ WakeFirst(k).woken \subseteq Tasks
    BY <2>1 DEF Waking, Housed
  <2>3. WakeFirst(k) \in [links : Links(ListNames), woken : SUBSET Tasks]
    BY <2>2 DEF WakeFirst
  <2>4. QED BY <2>1, <2>3
<1>5. step \in [D -> D]
  <2> HIDE DEF D
  <2>1. QED BY <1>4
<1>6. PICK f \in [0..C -> D] : f[0] = first /\ \A n \in 1..C : f[n] = step[f[n - 1]]
  <2>1. Iterations(C, D, first, step) # {}
    <3> HIDE DEF C, D, step, first
    <3>1. QED BY <1>1, <1>3, <1>5, Iterates
  <2> HIDE DEF C, D, step, first
  <2>2. QED BY <2>1 DEF Iterations
<1>7. Walk(f)
  <2>1. ASSUME NEW n \in 0..C, n # 0
        PROVE  f[n] = LET k == f[n - 1]
                          t == k.links.head[Delayed]
                      IN  IF t = Null \/ ~Expired(left[t]) THEN k
                          ELSE [links |-> AddReady(Pop(k.links, Delayed), priority, t),
                                woken |-> k.woken \cup {t}]
    <3>1. n - 1 \in 0..C /\ n \in 1..C
      BY <1>1, <2>1
    <3>2. f[n - 1] \in D
      <4> HIDE DEF D
      <4>1. QED BY <3>1
    <3>3. f[n] = step[f[n - 1]]
      BY <1>6, <3>1
    <3> HIDE DEF D
    <3>4. QED BY <3>2, <3>3 DEF Due, WakeFirst
  <2> HIDE DEF D, step
  <2>2. QED BY <1>6, <2>1
<1>8. Walk(wake)
  <2> HIDE DEF Walk
  <2>1. QED BY <1>7
<1>9. CheckWakeups(left) = wake[C]
  BY DEF CheckWakeups
<1> HIDE DEF wake
<1>10. wake[0] = first
  BY <1>1, <1>8
<1>11. ASSUME NEW n \in 1..C
       PROVE  wake[n] = IF Due(wake[n - 1], left) THEN WakeFirst(wake[n - 1]) ELSE wake[n - 1]
  <2> DEFINE k == wake[n - 1]
             t == k.links.head[Delayed]
  <2>1. n \in 0..C /\ n # 0
    BY <1>1
  <2>2. wake[n] = IF t = Null \/ ~Expired(left[t]) THEN k
                  ELSE [links |-> AddReady(Pop(k.links, Delayed), priority, t),
                        woken |-> k.woken \cup {t}]
    BY <1>8, <2>1
  <2>3. QED BY <2>2 DEF Due, WakeFirst
<1> DEFINE length(k) == Len(Chain(k.links, Delayed))
           Good(n) == /\ Waking(x, left, wake[n])
                      /\ Due(wake[n], left) => length(wake[n]) = length(first) - n
           S == {n \in 0..C : Good(n)}
<1>12. 0 \in S
  BY <1>1, <1>2, <1>10
<1>13. ASSUME NEW n \in 1..C, n - 1 \in S PROVE n \in S
  <2>1. Good(n - 1) /\ length(first) \in Nat /\ n \in Int
    BY <1>1, <1>13
  <2>2. CASE ~Due(wake[n - 1], left)
    <3>1. wake[n] = wake[n - 1]
      BY <1>11, <2>2
    <3>2. QED BY <2>1, <2>2, <3>1
  <2>3. CASE Due(wake[n - 1], left)
    <3>1. wake[n] = WakeFirst(wake[n - 1])
      BY <1>11, <2>3
    <3>2. Waking(x, left, wake[n]) /\ length(wake[n]) = length(wake[n - 1]) - 1
      BY <2>1, <2>3, <3>1, FirstWakes
    <3>3. length(wake[n - 1]) = length(first) - (n - 1)
      BY <2>1, <2>3
    <3> HIDE DEF length
    <3>4. length(wake[n]) = length(first) - n
      BY <2>1, <3>2, <3>3
    <3>5. QED BY <3>2, <3>4
  <2>4. QED BY <2>2, <2>3
<1>14. 0..C \subseteq S
  <2> HIDE DEF S
  <2>1. QED BY <1>1, <1>12, <1>13, UpTo
<1> DEFINE k == wake[C]
           s == Chain(k.links, Delayed)
<1>15. Good(C)
  <2>1. C \in 0..C
    BY <1>1
  <2>2. C \in S
    BY <1>14, <2>1
  <2> HIDE DEF Good
  <2>3. QED BY <2>2
<1>16. /\ s \in Seq(Tasks) /\ Len(s) \in Nat /\ k.links.head[Delayed] = At(s, 1)
       /\ \A i \in 1..Len(s) : s[i] \in Tasks
  <2>1. Housed(k.links, ListNames, Home(x, AfterWaking(k.woken), priority, obj))
    BY <1>15 DEF Waking
  <2> HIDE DEF k
  <2>2. QED BY <2>1, Names, HousedList
<1>17. ~Due(k, left)
  <2>1. SUFFICES ASSUME Due(k, left) PROVE FALSE
    OBVIOUS
  <2>2. Len(s) = length(first) - C /\ length(first) <= C /\ length(first) \in Nat
    BY <1>1, <1>15, <2>1
  <2>3. Len(s) = 0
    <3> HIDE DEF s, length, C
    <3>1. QED BY <1>1, <1>16, <2>2
  <2>4. k.links.head[Delayed] = Null
    <3> HIDE DEF s, k
    <3>1. QED BY <1>16, <2>3 DEF At
  <2>5. QED BY <2>1, <2>4 DEF Due
<1>18. ASSUME NEW i \in 1..Len(s) PROVE left[s[i]] > 0
  <2> HIDE DEF k
  <2>1. Ascending(s, left)
    BY <1>15 DEF Waking, k
  <2> HIDE DEF s
  <2>2. 1 \in 1..Len(s) /\ s[1] \in Tasks /\ s[i] \in Tasks
    BY <1>16
  <2>3. k.links.head[Delayed] = s[1] /\ s[1] # Null
    BY <1>16, <2>2, ListAssumption DEF At
  <2>4. left[s[1]] > 0
    BY <1>17, <2>2, <2>3 DEF Due, Expired
  <2>5. 1 < i => left[s[1]] <= left[s[i]]
    BY <2>1, <2>2 DEF Ascending
  <2>6. QED BY <2>2, <2>4, <2>5
<1>19. Timely(k.links, left)
  BY <1>15, <1>18 DEF Timely, Waking
<1>20. QED BY <1>9, <1>15, <1>19

-----------------------------------------------------------------------------
(* The steps of the kernel keep the invariant, and all wait queues. *)

Keeps(y) == KernelInv(y)' /\ Others(links', links, WaitNames)

LEMMA TypesOfLinks ==
  ASSUME NEW lk, NEW h, Housed(lk, ListNames, h)
  PROVE  lk \in [head : [ListNames -> Tasks \cup {Null}], next : [Tasks -> Tasks \cup {Null}]]
BY DEF Housed, Links

LEMMA HomeSame ==
  ASSUME NEW x, NEW st1, NEW st2, NEW pr1, NEW pr2, NEW ob1, NEW ob2,
         \A t \in Tasks : Home(x, st1, pr1, ob1)[t] = Home(x, st2, pr2, ob2)[t]
  PROVE  Home(x, st1, pr1, ob1) = Home(x, st2, pr2, ob2)
<1>1. /\ Home(x, st1, pr1, ob1) = [t \in Tasks |-> Home(x, st1, pr1, ob1)[t]]
      /\ Home(x, st2, pr2, ob2) = [t \in Tasks |-> Home(x, st2, pr2, ob2)[t]]
  BY DEF Home
<1>2. QED BY <1>1

LEMMA TimelyKept ==
  ASSUME NEW lk, NEW new, NEW h, Housed(lk, ListNames, h), NEW left, NEW after,
         Timely(lk, left), Chain(new, Delayed) = Chain(lk, Delayed),
         \A t \in Tasks : h[t] = Delayed => after[t] = left[t]
  PROVE  Timely(new, after)
<1>1. \A i \in 1..Len(Chain(lk, Delayed)) :
        after[Chain(lk, Delayed)[i]] = left[Chain(lk, Delayed)[i]]
  BY Names, HousedList
<1>2. QED BY <1>1 DEF Timely, Ascending

(* The task whose code executes is RUNNING, and the only one. *)
LEMMA ExecutesRunning ==
  ASSUME NEW x \in Tasks \cup {Null}, KernelInv(x), NEW t \in Tasks, NEW at, Executes(t, at),
         at \notin {"request", "ecall"} \/ (at = "ecall" /\ ~switchPending)
  PROVE  /\ state[t] = "RUNNING" /\ currentTask = t /\ pc[t] = at /\ t # Idle /\ t # Null
         /\ x \in {Null, t}
         /\ \A u \in Tasks : state[u] = "RUNNING" <=> u = t
<1>1. t # Null /\ currentTask = t /\ pc[t] = at /\ t # Idle
  BY ListAssumption DEF Executes
<1>2. state[t] = "RUNNING"
  BY <1>1 DEF KernelInv, Control, Leaving
<1>3. QED BY <1>1, <1>2 DEF KernelInv, Control, Fresh

LEMMA CreateKeeps ==
  ASSUME NEW x \in Tasks \cup {Null}, KernelInv(x), Disciplined,
         NEW t \in Tasks, TaskCreate(t)
  PROVE  Keeps(x)
<1> DEFINE h == Home(x, state, priority, obj)
           g == Home(x, state', priority', obj')
           l == Ready(Level(priority'[t]))
           cleared == SetNext(links, t, Null)
           new == AddReady(cleared, priority', t)
<1>1. /\ state[t] \in {"FREE", "DELETED"} /\ t # x /\ t # Idle /\ t # Null
      /\ InitPriority[t] \in Nat /\ InitPriority \in [Tasks -> Nat]
  BY ListAssumption, NanoAssumption DEF KernelInv, Control, Fresh, TaskCreate
<1>2. Types
  BY DEF KernelInv
<1>3. /\ state' = [state EXCEPT ![t] = "READY"] /\ state'[t] = "READY"
      /\ priority' = [priority EXCEPT ![t] = InitPriority[t]] /\ priority'[t] = InitPriority[t]
      /\ obj' = [obj EXCEPT ![t] = Null]
      /\ links' = new
  BY <1>2 DEF TaskCreate, Types, KernelTypeOK
<1>4. h[t] = None /\ g[t] = l /\ l \in ReadyNames /\ l \in ListNames /\ l # Delayed
  <2>1. Level(priority'[t]) \in Levels
    BY <1>1, <1>3, LevelType, NanoAssumption
  <2>2. g[t] = l
    <3>1. state'[t] = "READY" /\ t # x
      BY <1>1, <1>3
    <3>2. QED BY <3>1, HomeIs
  <2>3. h[t] = None
    BY <1>1, HomeIs
  <2>4. QED BY <2>1, <2>2, <2>3, Names
<1>5. Moves(h, g, t, l)
  <2>1. \A u \in Tasks \ {t} : state[u] = state'[u] /\ priority[u] = priority'[u] /\ obj[u] = obj'[u]
    BY <1>2, <1>3 DEF Types, KernelTypeOK
  <2>2. Moves(h, g, t, g[t])
    BY <2>1, HomeMoves
  <2>3. QED BY <1>4, <2>2
<1>6. Housed(links, ListNames, h) /\ h[t] \notin ListNames
  BY <1>4, Names DEF KernelInv
<1> HIDE DEF h, g
<1>7. Housed(cleared, ListNames, h) /\ Others(cleared, links, ListNames)
  BY <1>6, ClearedLink
<1> HIDE DEF cleared
<1>8. /\ Housed(new, ListNames, g)
      /\ Longer(new, cleared, ListNames, l, Len(Chain(cleared, l)), t)
  BY <1>4, <1>5, <1>6, <1>7, AddReadyHouses
<1> HIDE DEF l, new
<1>9. Others(new, links, ListNames \ ReadyNames)
  BY <1>4, <1>7, <1>8 DEF Longer, Others
<1>10. Housed(links', ListNames, Home(x, state', priority', obj'))
  BY <1>3, <1>8 DEF g
<1>11. Others(links', links, WaitNames)
  BY <1>3, <1>9, Names DEF Others
<1>12. Timely(links', ticksLeft')
  <2>1. Chain(links', Delayed) = Chain(links, Delayed)
    BY <1>3, <1>9, Names DEF Others
  <2>2. \A u \in Tasks : h[u] = Delayed => ticksLeft'[u] = ticksLeft[u]
    BY <1>2, <1>4, Names DEF TaskCreate, Types, KernelTypeOK
  <2>3. Timely(links, ticksLeft)
    BY DEF KernelInv
  <2>4. QED BY <1>6, <2>1, <2>2, <2>3, TimelyKept
<1>13. Types'
  <2>1. taskCount' \in 1..MaxTasks
    BY <1>2, NanoAssumption DEF TaskCreate, HasRoom, Types, KernelTypeOK
  <2>2. ticksLeft' \in [Tasks -> 0..MaxDelay]
    BY <1>2, NanoAssumption DEF TaskCreate, Types, KernelTypeOK
  <2>3. /\ pc' \in [Tasks -> Places] /\ then' \in [Tasks -> Places]
        /\ obj' \in [Tasks -> Objects \cup Tasks \cup {Null}]
    BY <1>2 DEF TaskCreate, Types, KernelTypeOK, Goto, Places
  <2>4. QED BY <1>1, <1>2, <1>10, <2>1, <2>2, <2>3, TypesOfLinks
        DEF TaskCreate, Types, KernelTypeOK, States
<1>14. Fresh(x)'
  <2>1. SUFFICES ASSUME x # Null PROVE Fresh(x)'
    BY DEF Fresh
  <2>2. Fresh(x) /\ Leads(x) /\ x \in Tasks
    BY <2>1 DEF KernelInv, Fresh
  <2>3. Level(priority'[t]) # Top(x)
    <3>1. Level(InitPriority[t]) < Top(x) /\ Level(InitPriority[t]) \in Nat /\ Top(x) \in Nat
      BY <1>1, <2>2, LevelType, NanoAssumption DEF Leads, Top
    <3>2. QED BY <1>3, <3>1
  <2>4. currentTask' = x /\ state'[x] = "RUNNING"
    BY <1>1, <1>2, <1>3, <2>1, <2>2 DEF TaskCreate, Fresh, Types, KernelTypeOK
  <2>5. \A u \in Tasks \ {x} : state'[u] # "BLOCKED" /\ Level(priority'[u]) # Top(x)
    BY <1>2, <1>3, <2>1, <2>2, <2>3 DEF Fresh, Types, KernelTypeOK
  <2>6. QED BY <2>1, <2>2, <2>4, <2>5 DEF Fresh
<1>15. Control'
  <2>1. Control
    BY DEF KernelInv
  <2>2. /\ \A u \in Tasks : state'[u] = "RUNNING" => currentTask' = u
        /\ state'[Idle] \in {"READY", "RUNNING"}
    BY <1>1, <1>2, <1>3, <2>1, NanoAssumption DEF Control, TaskCreate, Types, KernelTypeOK
  <2>3. Booting'
    BY <1>1, <1>2, <1>3, <2>1 DEF Control, Booting, TaskCreate, Goto, Types, KernelTypeOK
  <2>4. Leaving'
    BY <1>1, <1>2, <1>3, <2>1 DEF Control, Leaving, TaskCreate, Goto, Types, KernelTypeOK, Creating, Executes
  <2>5. Calls'
    BY <1>1, <1>2, <1>3, <2>1 DEF Control, Calls, TaskCreate, Goto, Types, KernelTypeOK
  <2>6. QED BY <2>2, <2>3, <2>4, <2>5 DEF Control
<1>16. QED BY <1>10, <1>11, <1>12, <1>13, <1>14, <1>15 DEF Keeps, KernelInv

LEMMA StartKeeps ==
  ASSUME NEW x \in Tasks \cup {Null}, KernelInv(x), NEW f \in BootTasks, Leads(f), SchedStart
  PROVE  Keeps(f)
<1> DEFINE h == Home(Null, state, priority, obj)
           next == SelectNext(links)
<1>1. /\ Null \notin Tasks /\ x = Null /\ f \in Tasks /\ f # Idle /\ Idle \in Tasks
      /\ InitPriority \in [Tasks -> Nat]
  BY ListAssumption, NanoAssumption DEF KernelInv, Fresh, SchedStart
<1>2. Types /\ Control /\ Booting /\ currentTask = Null
  BY DEF KernelInv, Control, SchedStart
<1>3. Housed(links, ListNames, h) /\ Timely(links, ticksLeft)
  BY <1>1 DEF KernelInv
<1>4. /\ state[f] = "READY" /\ priority[f] = InitPriority[f] /\ priority[Idle] = 0
      /\ \A t \in Tasks : /\ state[t] \in {"FREE", "READY"}
                          /\ t # Idle => priority[t] = InitPriority[t]
  BY <1>1, <1>2 DEF Booting, SchedStart
<1>5. Top(f) \in Levels /\ Top(f) \in Nat /\ h[f] = Ready(Top(f))
  <2>1. h[f] = Ready(Level(priority[f]))
    BY <1>1, <1>4, HomeIs
  <2>2. QED BY <1>1, <1>4, <2>1, LevelType, NanoAssumption DEF Top
<1>6. /\ \A t \in Tasks \ {f} : Level(priority[t]) \in Nat /\ Level(priority[t]) < Top(f)
  <2>1. Level(0) = 0
    BY NanoAssumption DEF Level
  <2>2. ASSUME NEW t \in Tasks \ {f}, t # Idle
        PROVE  Level(priority[t]) \in Nat /\ Level(priority[t]) < Top(f)
    <3>1. Level(InitPriority[t]) \in Nat /\ Level(InitPriority[t]) < Top(f)
      BY <1>1, <2>2, LevelType, NanoAssumption DEF Leads
    <3>2. QED BY <1>4, <2>2, <3>1
  <2>3. QED BY <1>4, <2>1, <2>2 DEF Leads
<1> HIDE DEF h, next
<1>7. next = f
  <2>1. h[f] \in ReadyNames
    BY <1>5, Names
  <2>2. PICK p \in Levels : /\ next \in Tasks /\ h[next] = Ready(p)
                            /\ \A u \in Tasks, q \in Levels : h[u] = Ready(q) => q <= p
    BY <1>1, <1>3, <2>1, SelectBest DEF next
  <2>3. Top(f) <= p /\ p = Level(priority[next])
    <3>1. Top(f) <= p
      BY <1>1, <1>5, <2>2
    <3>2. p = Level(priority[next])
      BY <1>1, <2>2, HomeReady DEF h
    <3>3. QED BY <3>1, <3>2
  <2>4. SUFFICES ASSUME next # f PROVE FALSE
    OBVIOUS
  <2>5. p \in Nat /\ p < Top(f)
    BY <1>6, <2>2, <2>3, <2>4
  <2>6. QED BY <1>5, <2>3, <2>5
<1>8. /\ currentTask' = f /\ state' = [state EXCEPT ![f] = "RUNNING"]
      /\ UNCHANGED <<links, priority, basePriority, switchPending, taskCount, timeVars, callVars>>
  BY <1>7 DEF SchedStart, next
<1>9. Home(f, state', priority', obj') = h
  <2> DEFINE g == Home(f, state', priority', obj')
  <2>1. \A t \in Tasks \ {f} : state'[t] = state[t] /\ priority'[t] = priority[t] /\ obj'[t] = obj[t]
    BY <1>2, <1>8 DEF Types, KernelTypeOK, callVars
  <2>2. \A t \in Tasks \ {f} : t = Null <=> t = f
    BY <1>1
  <2>3. Moves(h, g, f, g[f])
    BY <1>1, <2>1, <2>2, HomeMoves DEF h
  <2>4. g[f] = h[f]
    BY <1>1, <1>5, HomeOfFirst
  <2>5. \A t \in Tasks : g[t] = h[t]
    BY <2>3, <2>4 DEF Moves
  <2>6. g = [t \in Tasks |-> g[t]] /\ h = [t \in Tasks |-> h[t]]
    BY DEF h, Home
  <2> HIDE DEF g
  <2>7. g = h
    BY <2>5, <2>6
  <2>8. QED BY <2>7 DEF g
<1>10. Housed(links', ListNames, Home(f, state', priority', obj'))
  BY <1>3, <1>8, <1>9
<1>11. Timely(links', ticksLeft') /\ Others(links', links, WaitNames)
  BY <1>3, <1>8 DEF Timely, timeVars, Others
<1>12. Types'
  BY <1>1, <1>2, <1>8 DEF Types, KernelTypeOK, timeVars, callVars, States
<1>13. Fresh(f)'
  <2>1. currentTask' = f /\ state'[f] = "RUNNING"
    BY <1>1, <1>2, <1>8 DEF Types, KernelTypeOK
  <2>2. ASSUME NEW u \in Tasks \ {f}
        PROVE  state'[u] # "BLOCKED" /\ Level(priority'[u]) # Top(f)
    <3>1. Level(priority[u]) # Top(f)
      BY <1>5, <1>6
    <3>2. QED BY <1>2, <1>4, <1>8, <3>1 DEF Types, KernelTypeOK
  <2>3. QED BY <2>1, <2>2 DEF Fresh
<1>14. Control'
  <2>1. /\ \A u \in Tasks : state'[u] = "RUNNING" => currentTask' = u
        /\ state'[Idle] \in {"READY", "RUNNING"}
    BY <1>1, <1>2, <1>4, <1>8 DEF Control, Types, KernelTypeOK
  <2>2. Booting' /\ Leaving'
    BY <1>1, <1>2, <1>8 DEF Booting, Leaving, Types, KernelTypeOK
  <2>3. Calls'
    BY <1>2, <1>4, <1>8 DEF Control, Calls, Booting, Types, KernelTypeOK, callVars
  <2>4. QED BY <2>1, <2>2, <2>3 DEF Control
<1>15. QED BY <1>10, <1>11, <1>12, <1>13, <1>14 DEF Keeps, KernelInv

(* What a switch leaves of the invariant, whatever caused it. *)
LEMMA SwitchKeeps ==
  ASSUME NEW x \in Tasks \cup {Null}, KernelInv(x),
         NEW lk, NEW st, Dispatched(lk, st), st \in [Tasks -> States], currentTask \in Tasks,
         Others(lk, links, WaitNames), Timely(lk, ticksLeft'),
         \A t \in Tasks : /\ state[t] \in {"SUSPENDED", "DELETED"} => st[t] = state[t]
                          /\ st[t] \in {"BLOCKED", "RUNNING"} => st[t] = state[t],
         st[Idle] \in {"READY", "RUNNING"},
         Calls => Calls',
         ticksLeft' \in [Tasks -> 0..MaxDelay],
         wakeReason' \in [Tasks -> {"NONE", "SIGNALED", "TIMEOUT"}],
         pc' \in [Tasks -> Places], then' \in [Tasks -> Places],
         UNCHANGED <<priority, basePriority, taskCount, obj>>
  PROVE  Keeps(Null)
<1>1. Types /\ Control
  BY DEF KernelInv
<1>2. /\ Housed(links', ListNames, Home(Null, state', priority', obj'))
      /\ Others(links', lk, Apart)
      /\ state' \in [Tasks -> States]
      /\ currentTask' \in Tasks /\ state'[currentTask'] = "RUNNING"
      /\ st[currentTask'] \in {"READY", "RUNNING"}
      /\ \A t \in Tasks \ {currentTask'} :
           state'[t] = IF t = currentTask /\ st[t] = "RUNNING" THEN "READY" ELSE st[t]
      /\ switchPending' = FALSE
      /\ priority' = priority /\ obj' = obj
  BY DEF Dispatched
<1>3. Others(links', links, WaitNames)
  <2>1. Others(links', lk, WaitNames)
    BY <1>2, Names DEF Others, Apart
  <2>2. QED BY <2>1, OthersTrans
<1>4. Timely(links', ticksLeft')
  <2>1. Chain(links', Delayed) = Chain(lk, Delayed)
    BY <1>2, Names DEF Others, Apart
  <2>2. QED BY <2>1 DEF Timely
<1>5. Types'
  BY <1>1, <1>2, TypesOfLinks DEF Types, KernelTypeOK
<1>6. Null \notin Tasks /\ Idle \in Tasks
  BY ListAssumption, NanoAssumption
<1>7. Fresh(Null)'
  BY DEF Fresh
<1>8. Control'
  <2>1. ASSUME NEW t \in Tasks, state'[t] = "RUNNING" PROVE currentTask' = t
    BY <1>1, <1>2, <2>1 DEF Control
  <2>2. state'[Idle] \in {"READY", "RUNNING"}
    BY <1>2, <1>6
  <2>3. Booting' /\ Leaving'
    BY <1>2, <1>6 DEF Booting, Leaving
  <2>4. QED BY <1>1, <2>1, <2>2, <2>3 DEF Control
<1>9. QED BY <1>2, <1>3, <1>4, <1>5, <1>7, <1>8 DEF Keeps, KernelInv

(* The states of tasks before the switch, but for those woken by a tick. *)
Preserves(st) == \A t \in Tasks :
  /\ state[t] \in {"SUSPENDED", "DELETED"} => st[t] = state[t]
  /\ st[t] \in {"BLOCKED", "RUNNING"} => st[t] = state[t]

LEMMA SwitchedStates ==
  ASSUME NEW lk, NEW st, Dispatched(lk, st), Preserves(st), NEW t \in Tasks
  PROVE  /\ state[t] \in {"SUSPENDED", "DELETED"} => state'[t] = state[t]
         /\ state'[t] = "BLOCKED" => state[t] = "BLOCKED"
<1>1. CASE t = currentTask'
  BY <1>1 DEF Dispatched, Preserves
<1>2. CASE t # currentTask'
  BY <1>2 DEF Dispatched, Preserves
<1>3. QED BY <1>1, <1>2

LEMMA TickDispatches ==
  ASSUME NEW x \in Tasks \cup {Null}, KernelInv(x), Tick
  PROVE  \E lk : \E st \in [Tasks -> States] :
           /\ Dispatched(lk, st) /\ Preserves(st) /\ Runnable(x, st)
           /\ Others(lk, links, WaitNames) /\ Timely(lk, ticksLeft')
           /\ \A t \in Tasks : st[t] # state[t] => state[t] = "BLOCKED" /\ obj[t] = Null
           /\ ticksLeft' \in [Tasks -> 0..MaxDelay]
           /\ wakeReason' \in [Tasks -> {"NONE", "SIGNALED", "TIMEOUT"}]
           /\ \A t \in Tasks : wakeReason'[t] # wakeReason[t] =>
                                 state[t] = "BLOCKED" /\ obj[t] = Null
<1> DEFINE left == ticksLeft'
           k == CheckWakeups(left)
           st == AfterWaking(k.woken)
<1>1. Types /\ Control /\ currentTask \in Tasks /\ Null \notin Tasks
  BY ListAssumption DEF KernelInv, Tick, Types, KernelTypeOK
<1>2. left \in [Tasks -> 0..MaxDelay] /\ left \in [Tasks -> Nat]
      /\ \A t \in Tasks : left[t] = IF ticksLeft[t] > 0 THEN ticksLeft[t] - 1 ELSE 0
  BY <1>1, NanoAssumption DEF Tick, Types, KernelTypeOK
<1>3. Sleeping(x)
  BY <1>1 DEF Sleeping, Types, KernelTypeOK, Control, Calls
<1>4. Ascending(Chain(links, Delayed), left)
  <2>1. \A i \in 1..Len(Chain(links, Delayed)) : Chain(links, Delayed)[i] \in Tasks
    BY Names, HousedList DEF KernelInv
  <2>2. ASSUME NEW t \in Tasks, NEW u \in Tasks, ticksLeft[t] <= ticksLeft[u]
        PROVE  left[t] <= left[u]
    <3>1. ticksLeft[t] \in 0..MaxDelay /\ ticksLeft[u] \in 0..MaxDelay
      BY <1>1 DEF Types, KernelTypeOK
    <3> HIDE DEF left
    <3>2. QED BY <1>2, <2>2, <3>1, NanoAssumption
  <2> HIDE DEF left
  <2>3. QED BY <2>1, <2>2 DEF KernelInv, Timely, Ascending
<1>5. /\ wakeReason' = [t \in Tasks |-> IF t \in k.woken THEN "TIMEOUT" ELSE wakeReason[t]]
      /\ Schedule(k.links, st)
  BY Zenon DEF Tick, AfterWaking
<1>6. Waking(x, left, k) /\ Timely(k.links, left)
  <2>1. Housed(links, ListNames, Home(x, state, priority, obj)) /\ state \in [Tasks -> States]
    BY <1>1 DEF KernelInv, Types, KernelTypeOK
  <2> HIDE DEF left
  <2>2. QED BY <1>2, <1>3, <1>4, <2>1, WakeupsHouse
<1> HIDE DEF left, k
<1>7. /\ k.woken \subseteq {t \in Tasks : state[t] = "BLOCKED" /\ obj[t] = Null}
      /\ Housed(k.links, ListNames, Home(x, st, priority, obj))
      /\ Others(k.links, links, WaitNames)
  BY <1>6 DEF Waking
<1>8. /\ st \in [Tasks -> States]
      /\ \A t \in Tasks : st[t] = IF t \in k.woken THEN "READY" ELSE state[t]
  BY <1>1 DEF AfterWaking, Types, KernelTypeOK, States
<1> HIDE DEF st
<1>9. Preserves(st) /\ \A t \in Tasks : st[t] # state[t] => state[t] = "BLOCKED" /\ obj[t] = Null
  BY <1>7, <1>8 DEF Preserves
<1>10. Runnable(x, st)
  BY <1>1, <1>7, <1>8, NanoAssumption DEF Runnable, KernelInv, Control, Fresh
<1>11. Dispatched(k.links, st)
  BY <1>1, <1>5, <1>7, <1>10, ScheduleDispatches DEF Types, KernelTypeOK
<1>12. wakeReason' \in [Tasks -> {"NONE", "SIGNALED", "TIMEOUT"}]
       /\ \A t \in Tasks : wakeReason'[t] # wakeReason[t] => t \in k.woken
  BY <1>1, <1>5 DEF Types, KernelTypeOK
<1>13. QED BY <1>2, <1>6, <1>7, <1>8, <1>9, <1>10, <1>11, <1>12 DEF left

LEMMA TickKeeps ==
  ASSUME NEW x \in Tasks \cup {Null}, KernelInv(x), Tick
  PROVE  Keeps(Null)
<1>1. PICK lk : \E st \in [Tasks -> States] :
           /\ Dispatched(lk, st) /\ Preserves(st) /\ Runnable(x, st)
           /\ Others(lk, links, WaitNames) /\ Timely(lk, ticksLeft')
           /\ ticksLeft' \in [Tasks -> 0..MaxDelay]
           /\ wakeReason' \in [Tasks -> {"NONE", "SIGNALED", "TIMEOUT"}]
  BY TickDispatches
<1>2. PICK st \in [Tasks -> States] :
           /\ Dispatched(lk, st) /\ Preserves(st) /\ Runnable(x, st)
           /\ Others(lk, links, WaitNames) /\ Timely(lk, ticksLeft')
           /\ ticksLeft' \in [Tasks -> 0..MaxDelay]
           /\ wakeReason' \in [Tasks -> {"NONE", "SIGNALED", "TIMEOUT"}]
  BY <1>1
<1>3. UNCHANGED <<priority, basePriority, taskCount, pc, then, obj>>
  BY DEF Tick, callVars
<1>4. Types /\ Calls
  BY DEF KernelInv, Control
<1>5. Calls'
  <2>1. \A t \in Tasks : /\ state[t] = "SUSPENDED" => state'[t] = "SUSPENDED"
                         /\ state'[t] = "BLOCKED" => state[t] = "BLOCKED"
    BY <1>2, SwitchedStates
  <2>2. ASSUME NEW t \in Tasks, pc[t] = "resume" PROVE state'[obj[t]] = "SUSPENDED"
    <3>1. obj[t] \in Tasks /\ state[obj[t]] = "SUSPENDED"
      BY <1>4, <2>2, NanoAssumption DEF Calls
    <3>2. QED BY <2>1, <3>1
  <2>3. QED BY <1>3, <1>4, <2>1, <2>2 DEF Calls
<1>6. pc' \in [Tasks -> Places] /\ then' \in [Tasks -> Places]
  BY <1>3, <1>4 DEF Types
<1>7. QED BY <1>2, <1>3, <1>5, <1>6, SwitchKeeps DEF Preserves, Runnable

LEMMA YieldKeeps ==
  ASSUME NEW x \in Tasks \cup {Null}, KernelInv(x), NEW t \in Tasks, TaskYield(t)
  PROVE  Keeps(x)
<1>1. /\ UNCHANGED <<links, state, priority, basePriority, currentTask, taskCount, ticksLeft,
                     wakeReason, then, obj>>
      /\ pc' = [pc EXCEPT ![t] = "ecall"] /\ switchPending' = TRUE
      /\ currentTask = t /\ pc[t] \in {"run", "request"}
  BY DEF TaskYield, Executes, Goto, listVars, timeVars
<1>2. Types /\ Control /\ Null \notin Tasks
  BY ListAssumption DEF KernelInv, Control
<1>3. Types'
  BY <1>1, <1>2 DEF Types, KernelTypeOK, Places
<1>4. Fresh(x)' /\ Timely(links', ticksLeft') /\ Others(links', links, WaitNames)
  BY <1>1 DEF KernelInv, Fresh, Others
<1>5. Control'
  <2>1. Booting' /\ Leaving'
    BY <1>1, <1>2 DEF Control, Booting, Leaving, Types
  <2>2. Calls'
    BY <1>1, <1>2 DEF Control, Calls, Types
  <2>3. QED BY <1>1, <1>2, <2>1, <2>2 DEF Control
<1>6. Housed(links', ListNames, Home(x, state', priority', obj'))
  BY <1>1 DEF KernelInv
<1>7. QED BY <1>3, <1>4, <1>5, <1>6 DEF Keeps, KernelInv

LEMMA EcallKeeps ==
  ASSUME NEW x \in Tasks \cup {Null}, KernelInv(x), NEW t \in Tasks, Ecall(t)
  PROVE  /\ switchPending => Keeps(Null) /\ Dispatched(links, state) /\ Runnable(x, state)
         /\ ~switchPending => Keeps(x) /\ UNCHANGED <<links, state>>
<1>1. /\ UNCHANGED <<priority, basePriority, taskCount, ticksLeft, wakeReason, obj>>
      /\ pc' = [pc EXCEPT ![t] = then[t]] /\ then' = [then EXCEPT ![t] = "run"]
      /\ currentTask = t /\ pc[t] = "ecall"
      /\ switchPending => Schedule(links, state)
      /\ ~switchPending => UNCHANGED <<links, state, currentTask, switchPending>>
  BY Zenon DEF Ecall, Executes, Goto, timeVars
<1>2. /\ Types /\ Control /\ Booting /\ Calls /\ Null \notin Tasks
      /\ Housed(links, ListNames, Home(x, state, priority, obj))
      /\ Timely(links, ticksLeft)
      /\ switchPending \in BOOLEAN
  BY ListAssumption DEF KernelInv, Control, Types, KernelTypeOK
<1>3. pc' \in [Tasks -> Places] /\ then' \in [Tasks -> Places]
  BY <1>1, <1>2 DEF Types, Places
<1>4. ASSUME \A u \in Tasks : /\ state[u] = "SUSPENDED" => state'[u] = "SUSPENDED"
                              /\ state'[u] = "BLOCKED" => state[u] = "BLOCKED"
      PROVE  Calls'
  <2>1. ASSUME NEW u \in Tasks, u # t
        PROVE  /\ state'[u] = "BLOCKED" => obj'[u] \in Objects \cup {Null}
               /\ pc'[u] = "run" => obj'[u] = Null
               /\ pc'[u] \notin {"request", "ecall"} => then'[u] = "run"
               /\ pc'[u] \in {"request", "ecall"} /\ then'[u] = "run" => obj'[u] = Null
               /\ then'[u] \notin {"request", "ecall", "resume"}
               /\ pc'[u] = "resume" => obj'[u] \in Resumes[u] /\ state'[obj'[u]] = "SUSPENDED"
    <3>1. pc'[u] = pc[u] /\ then'[u] = then[u] /\ obj'[u] = obj[u]
      BY <1>1, <1>2, <2>1 DEF Types
    <3>2. pc[u] = "resume" => obj[u] \in Tasks /\ state[obj[u]] = "SUSPENDED"
      BY <1>2, NanoAssumption DEF Calls
    <3>3. QED BY <1>2, <1>4, <3>1, <3>2 DEF Calls
  <2>2. /\ state'[t] = "BLOCKED" => obj'[t] \in Objects \cup {Null}
        /\ pc'[t] = "run" => obj'[t] = Null
        /\ then'[t] = "run" /\ pc'[t] \notin {"request", "ecall", "resume"}
    BY <1>1, <1>2, <1>4 DEF Types, Calls
  <2>3. QED BY <2>1, <2>2 DEF Calls
<1>5. ASSUME switchPending
      PROVE  Keeps(Null) /\ Dispatched(links, state) /\ Runnable(x, state)
  <2>1. Runnable(x, state)
    BY <1>1, <1>2 DEF Runnable, KernelInv, Control, Fresh, Types, KernelTypeOK
  <2>2. Dispatched(links, state)
    BY <1>1, <1>2, <1>5, <2>1, ScheduleDispatches DEF Types, KernelTypeOK
  <2>3. Preserves(state)
    BY DEF Preserves
  <2>4. Calls'
    <3>1. \A u \in Tasks : /\ state[u] = "SUSPENDED" => state'[u] = "SUSPENDED"
                           /\ state'[u] = "BLOCKED" => state[u] = "BLOCKED"
      BY <2>2, <2>3, SwitchedStates
    <3>2. QED BY <1>4, <3>1
  <2>5. /\ state \in [Tasks -> States] /\ currentTask \in Tasks
        /\ state[Idle] \in {"READY", "RUNNING"}
        /\ ticksLeft' \in [Tasks -> 0..MaxDelay]
        /\ wakeReason' \in [Tasks -> {"NONE", "SIGNALED", "TIMEOUT"}]
        /\ Others(links, links, WaitNames) /\ Timely(links, ticksLeft')
    BY <1>1, <1>2 DEF Types, KernelTypeOK, Control, Others
  <2>6. Keeps(Null)
    BY <1>1, <1>3, <2>2, <2>3, <2>4, <2>5, SwitchKeeps DEF Preserves
  <2>7. QED BY <2>1, <2>2, <2>6
<1>6. ASSUME ~switchPending
      PROVE  Keeps(x) /\ UNCHANGED <<links, state>>
  <2>1. UNCHANGED <<links, state, currentTask, switchPending>>
    BY <1>1, <1>6
  <2>2. Types' /\ Fresh(x)' /\ Timely(links', ticksLeft') /\ Others(links', links, WaitNames)
        /\ Housed(links', ListNames, Home(x, state', priority', obj'))
    BY <1>1, <1>2, <1>3, <2>1 DEF Types, KernelTypeOK, KernelInv, Fresh, Others
  <2>3. Calls'
    BY <1>4, <2>1
  <2>4. Booting' /\ Leaving'
    BY <1>1, <1>2, <1>6, <2>1 DEF Booting, Control, Leaving
  <2>5. Control'
    BY <1>1, <1>2, <2>1, <2>3, <2>4 DEF Control
  <2>6. QED BY <2>1, <2>2, <2>5 DEF Keeps, KernelInv
<1>7. QED BY <1>5, <1>6

-----------------------------------------------------------------------------
(* Blocking. *)

(* A running task joins the delay list or a wait queue, with the lists lk, *)
(* and leaves its ready queue if it is still there.                        *)
LEMMA BlockHouses ==
  ASSUME NEW x, NEW t \in Tasks, x \in {Null, t},
         NEW lk, NEW st, NEW pr, NEW ob, Housed(lk, ListNames, Home(x, st, pr, ob)),
         st[t] = "RUNNING",
         x = t => \A u \in Tasks \ {t} : st[u] # "BLOCKED" /\ Level(pr[u]) # Top(t),
         Top(t) \in Levels,
         NEW l \in Apart, NEW after, NEW about, Home(Null, after, pr, about)[t] = l,
         \A u \in Tasks \ {t} : after[u] = st[u] /\ about[u] = ob[u],
         NEW passed
  PROVE  /\ Housed(Enlisted(lk, l, t, passed, pr), ListNames, Home(Null, after, pr, about))
         /\ Longer(Enlisted(lk, l, t, passed, pr), lk, Apart, l, Passing(lk, l, passed), t)
<1> DEFINE h == Home(x, st, pr, ob)
           g == Home(Null, after, pr, about)
<1>1. Null \notin Tasks /\ l \in ListNames \ ReadyNames
  BY ListAssumption DEF Apart
<1>2. Moves(h, g, t, l)
  <2>1. \A u \in Tasks \ {t} : u = x <=> u = Null
    BY <1>1
  <2>2. Moves(h, g, t, g[t])
    BY <2>1, HomeMoves
  <2>3. QED BY <2>2
<1>3. h[t] \notin ListNames \/ Alone(h, t, l)
  <2>1. CASE x = t
    <3>1. h[t] = Ready(Top(t)) /\ h[t] \in ReadyNames
      BY <2>1, HomeOfFirst, Names
    <3>2. ASSUME NEW u \in Tasks \ {t} PROVE h[u] # h[t] /\ h[u] # l
      <4>1. CASE st[u] = "READY"
        <5>1. h[u] = Ready(Level(pr[u]))
          BY <2>1, <4>1, HomeIs
        <5>2. Level(pr[u]) # Top(t)
          BY <2>1, <3>2
        <5>3. h[u] # h[t]
          BY <3>1, <5>1, <5>2, Names
        <5>4. l # Ready(Level(pr[u]))
          <6>1. l = Delayed \/ \E o \in Objects : l = WaitQueue(o)
            BY <1>1 DEF ListNames, ReadyNames
          <6>2. QED BY <6>1, Names
        <5>5. QED BY <5>1, <5>3, <5>4
      <4>2. CASE st[u] # "READY"
        <5>1. h[u] = None
          BY <2>1, <3>2, <4>2, HomeIs
        <5>2. QED BY <1>1, <3>1, <5>1, Names
      <4>3. QED BY <4>1, <4>2
    <3>3. h[t] # l
      BY <1>1, <3>1
    <3>4. QED BY <3>1, <3>2, <3>3 DEF Alone
  <2>2. CASE x # t
    BY <2>2, HomeIs, Names
  <2>3. QED BY <2>1, <2>2
<1> HIDE DEF h, g
<1>4. Housed(lk, ListNames, h) /\ ReadyNames \subseteq ListNames
  BY Names DEF h
<1>5. /\ Housed(Enlisted(lk, l, t, passed, pr), ListNames, g)
      /\ Longer(Enlisted(lk, l, t, passed, pr), lk, ListNames \ ReadyNames, l,
                Passing(lk, l, passed), t)
  BY <1>1, <1>2, <1>3, <1>4, EnlistHouses
<1>6. QED BY <1>5 DEF g, Apart

(* The rest of the invariant when task t blocks on its way to the yield.   *)
LEMMA BlockKeeps ==
  ASSUME NEW x \in Tasks \cup {Null}, KernelInv(x), NEW t \in Tasks,
         NEW at \in Places \ {"request", "ecall"}, Executes(t, at),
         NEW o \in Objects \cup {Null}, NEW goal \in Places \ {"request", "ecall", "resume"},
         goal = "run" => o = Null,
         Housed(links', ListNames, Home(Null, state', priority', obj')),
         Timely(links', ticksLeft'),
         state' = [state EXCEPT ![t] = "BLOCKED"],
         pc' = [pc EXCEPT ![t] = "request"],
         then' = [then EXCEPT ![t] = goal],
         obj' = [obj EXCEPT ![t] = o],
         UNCHANGED schedVars,
         priority' \in [Tasks -> Nat], basePriority' \in [Tasks -> Nat],
         ticksLeft' \in [Tasks -> 0..MaxDelay],
         wakeReason' \in [Tasks -> {"NONE", "SIGNALED", "TIMEOUT"}]
  PROVE  KernelInv(Null)'
<1>1. /\ state[t] = "RUNNING" /\ currentTask = t /\ pc[t] = at /\ t # Idle /\ t # Null
  BY ExecutesRunning
<1>2. Types /\ Control /\ Calls
  BY DEF KernelInv, Control
<1>3. Types'
  BY <1>2, TypesOfLinks DEF Types, KernelTypeOK, Places, States, schedVars
<1>4. Fresh(Null)'
  BY DEF Fresh
<1>5. Calls'
  <2>1. ASSUME NEW u \in Tasks, u # t
        PROVE  /\ state'[u] = "BLOCKED" => obj'[u] \in Objects \cup {Null}
               /\ pc'[u] = "run" => obj'[u] = Null
               /\ pc'[u] \notin {"request", "ecall"} => then'[u] = "run"
               /\ pc'[u] \in {"request", "ecall"} /\ then'[u] = "run" => obj'[u] = Null
               /\ then'[u] \notin {"request", "ecall", "resume"}
               /\ pc'[u] = "resume" => obj'[u] \in Resumes[u] /\ state'[obj'[u]] = "SUSPENDED"
    <3>1. pc'[u] = pc[u] /\ then'[u] = then[u] /\ obj'[u] = obj[u] /\ state'[u] = state[u]
      BY <1>2, <2>1 DEF Types, KernelTypeOK
    <3>2. pc[u] = "resume" => obj[u] \in Tasks /\ state[obj[u]] = "SUSPENDED" /\ obj[u] # t
      BY <1>1, <1>2, NanoAssumption DEF Calls
    <3>3. pc[u] = "resume" => state'[obj[u]] = "SUSPENDED"
      BY <1>2, <3>2 DEF Types, KernelTypeOK
    <3>4. QED BY <1>2, <3>1, <3>3 DEF Calls
  <2>2. pc'[t] = "request" /\ then'[t] = goal /\ obj'[t] = o
    BY <1>2 DEF Types
  <2>3. QED BY <2>1, <2>2 DEF Calls
<1>6. Control'
  <2>1. currentTask' = t /\ pc'[t] = "request"
    BY <1>1, <1>2 DEF schedVars, Types
  <2>2. Booting' /\ Leaving'
    BY <1>1, <2>1 DEF Booting, Leaving
  <2>3. /\ \A u \in Tasks : state'[u] = "RUNNING" => currentTask' = u
        /\ state'[Idle] \in {"READY", "RUNNING"}
    BY <1>1, <1>2, <2>1, NanoAssumption DEF Control, Types, KernelTypeOK
  <2>4. QED BY <1>5, <2>2, <2>3 DEF Control
<1>7. QED BY <1>3, <1>4, <1>6 DEF KernelInv

LEMMA TopType == ASSUME NEW t \in Tasks PROVE Top(t) \in Levels /\ Top(t) \in Nat
BY LevelType, NanoAssumption DEF Top

LEMMA DelayKeeps ==
  ASSUME NEW x \in Tasks \cup {Null}, KernelInv(x), NEW t \in Tasks, DelayTicks(t)
  PROVE  Keeps(Null)
<1>1. PICK ticks \in 1..MaxDelay :
        /\ links' = RemoveReady(DelayAdd(links, t, ticks), priority, t)
        /\ ticksLeft' = [ticksLeft EXCEPT ![t] = ticks]
  BY DEF DelayTicks
<1>2. /\ Executes(t, "run")
      /\ wakeReason' = [wakeReason EXCEPT ![t] = "NONE"]
      /\ state' = [state EXCEPT ![t] = "BLOCKED"]
      /\ pc' = [pc EXCEPT ![t] = "request"]
      /\ UNCHANGED <<priority, basePriority, schedVars, then, obj>>
  BY DEF DelayTicks, Goto
<1>3. /\ state[t] = "RUNNING" /\ currentTask = t /\ pc[t] = "run" /\ t # Null /\ x \in {Null, t}
  BY <1>2, ExecutesRunning
<1>4. /\ Types /\ Calls /\ Fresh(x) /\ Housed(links, ListNames, Home(x, state, priority, obj))
      /\ Timely(links, ticksLeft)
  BY DEF KernelInv, Control
<1>5. obj[t] = Null /\ then[t] = "run"
  BY <1>3, <1>4 DEF Calls
<1> DEFINE passed == {u \in Tasks : ticksLeft[u] <= ticks}
           n == Passing(links, Delayed, passed)
           s == Chain(links, Delayed)
<1>6. /\ Housed(links', ListNames, Home(Null, state', priority', obj'))
      /\ Longer(links', links, Apart, Delayed, n, t)
  <2>1. links' = Enlisted(links, Delayed, t, passed, priority)
    BY <1>1 DEF Enlisted, DelayAdd
  <2> HIDE DEF passed
  <2>2. /\ state'[t] = "BLOCKED" /\ obj' = obj /\ priority' = priority
        /\ \A u \in Tasks \ {t} : state'[u] = state[u] /\ obj'[u] = obj[u]
    BY <1>2, <1>4 DEF Types, KernelTypeOK
  <2>3. Home(Null, state', priority, obj')[t] = Delayed
    BY <1>3, <1>5, <2>2, HomeIs
  <2>4. Delayed \in Apart
    BY Names DEF Apart
  <2>5. x = t => \A u \in Tasks \ {t} : state[u] # "BLOCKED" /\ Level(priority[u]) # Top(t)
    BY <1>3, <1>4 DEF Fresh
  <2>6. /\ Housed(Enlisted(links, Delayed, t, passed, priority), ListNames,
                  Home(Null, state', priority, obj'))
        /\ Longer(Enlisted(links, Delayed, t, passed, priority), links, Apart, Delayed,
                  Passing(links, Delayed, passed), t)
    <3>1. /\ x \in {Null, t} /\ state[t] = "RUNNING"
          /\ Housed(links, ListNames, Home(x, state, priority, obj))
          /\ Top(t) \in Levels
      BY <1>3, <1>4, TopType
    <3>2. \A u \in Tasks \ {t} : state'[u] = state[u] /\ obj'[u] = obj[u]
      BY <2>2
    <3>3. QED BY <3>1, <3>2, <2>3, <2>4, <2>5, BlockHouses
  <2>7. QED BY <2>1, <2>2, <2>6
<1>7. /\ s \in Seq(Tasks) /\ Len(s) \in Nat /\ \A i \in 1..Len(s) : s[i] \in Tasks /\ s[i] # t
  <2>1. /\ s \in Seq(Tasks) /\ Len(s) \in Nat
        /\ \A i \in 1..Len(s) : s[i] \in Tasks /\ Home(x, state, priority, obj)[s[i]] = Delayed
    BY <1>4, Names, HousedList
  <2>2. Home(x, state, priority, obj)[t] # Delayed
    BY <1>3, HomeIs, HomeOfFirst, Names
  <2>3. QED BY <2>1, <2>2
<1>8. /\ ticksLeft' \in [Tasks -> 0..MaxDelay] /\ ticksLeft' \in [Tasks -> Int]
      /\ ticksLeft'[t] = ticks /\ ticks > 0
      /\ \A u \in Tasks \ {t} : ticksLeft'[u] = ticksLeft[u]
  BY <1>1, <1>4, NanoAssumption DEF Types, KernelTypeOK
<1>9. /\ n \in 0..Len(s)
      /\ \A j \in 1..n : s[j] \in passed
      /\ n < Len(s) => s[n + 1] \notin passed
  <2> HIDE DEF passed
  <2>1. QED BY <1>4, Names, PassingPlace
<1> HIDE DEF n, s
<1>10. Chain(links', Delayed) = Inserted(s, n, t) /\ Others(links', links, WaitNames)
  BY <1>6, Names DEF Longer, Others, Apart, s
<1>11. Timely(links', ticksLeft')
  <2>1. Ascending(s, ticksLeft) /\ \A i \in 1..Len(s) : ticksLeft[s[i]] > 0
    BY <1>4 DEF Timely, s
  <2>2. Ascending(s, ticksLeft')
    BY <1>7, <1>8, <2>1 DEF Ascending
  <2>3. \A j \in 1..n : ticksLeft'[s[j]] <= ticksLeft'[t]
    BY <1>7, <1>8, <1>9
  <2>4. n < Len(s) => ticksLeft'[t] <= ticksLeft'[s[n + 1]]
    <3>1. SUFFICES ASSUME n < Len(s) PROVE ticksLeft'[t] <= ticksLeft'[s[n + 1]]
      OBVIOUS
    <3>2. n + 1 \in 1..Len(s)
      BY <1>7, <1>9, <3>1
    <3>3. s[n + 1] \in Tasks \ {t} /\ ~(ticksLeft[s[n + 1]] <= ticks)
      BY <1>7, <1>9, <3>1, <3>2
    <3>4. QED BY <1>8, <3>3
  <2>5. Ascending(Inserted(s, n, t), ticksLeft')
    BY <1>7, <1>8, <1>9, <2>2, <2>3, <2>4, AscendingInserted
  <2>6. ASSUME NEW i \in 1..Len(Inserted(s, n, t)) PROVE ticksLeft'[Inserted(s, n, t)[i]] > 0
    <3> DEFINE r == Inserted(s, n, t)
    <3>1. /\ r \in Seq(Tasks)
          /\ \A u \in Tasks : Member(r, u) <=> u = t \/ Member(s, u)
      BY <1>7, <1>9, InsertedShape
    <3>2. r[i] \in Tasks /\ Member(r, r[i])
      <4> HIDE DEF r
      <4>1. \A j \in 1..Len(r) : r[j] \in Tasks
        BY <3>1, TypeOfSeq
      <4>2. QED BY <2>6, <4>1 DEF Member, r
    <3> HIDE DEF r
    <3>3. r[i] = t \/ Member(s, r[i])
      BY <3>1, <3>2
    <3>4. CASE r[i] = t
      BY <1>8, <3>4 DEF r
    <3>5. CASE Member(s, r[i])
      <4>1. PICK j \in 1..Len(s) : s[j] = r[i]
        BY <3>5 DEF Member
      <4>2. QED BY <1>7, <1>8, <2>1, <4>1 DEF r
    <3>6. QED BY <3>3, <3>4, <3>5
  <2>7. QED BY <1>10, <2>5, <2>6 DEF Timely
<1>12. KernelInv(Null)'
  <2>1. /\ then' = [then EXCEPT ![t] = "run"] /\ obj' = [obj EXCEPT ![t] = Null]
    BY <1>2, <1>4, <1>5 DEF Types
  <2>2. /\ wakeReason' \in [Tasks -> {"NONE", "SIGNALED", "TIMEOUT"}]
        /\ priority' \in [Tasks -> Nat] /\ basePriority' \in [Tasks -> Nat]
        /\ UNCHANGED schedVars
    BY <1>2, <1>4 DEF Types, KernelTypeOK
  <2>3. "run" \in Places \ {"request", "ecall", "resume"} /\ "run" \in Places \ {"request", "ecall"}
    BY DEF Places
  <2>4. QED BY <1>2, <1>6, <1>8, <1>11, <2>1, <2>2, <2>3, BlockKeeps
<1>13. QED BY <1>10, <1>12 DEF Keeps

-----------------------------------------------------------------------------
(* Stopping, resuming and changing the priority. *)

LEMMA StopKeeps ==
  ASSUME NEW x \in Tasks \cup {Null}, KernelInv(x), Disciplined,
         NEW t \in Tasks, NEW u \in Tasks, u # Idle, NEW to \in {"SUSPENDED", "DELETED"},
         to = "DELETED" => u \in Deletes[t],
         Stop(t, u, to)
  PROVE  Keeps(IF u = x THEN Null ELSE x)
<1> DEFINE y == IF u = x THEN Null ELSE x
           h == Home(x, state, priority, obj)
           g == Home(y, state', priority', obj')
<1>1. /\ Executes(t, "run")
      /\ state[u] \in {"READY", "RUNNING", "SUSPENDED"}
      /\ links' = RemoveReady(links, priority, u)
      /\ state' = [state EXCEPT ![u] = to]
      /\ pc' = [pc EXCEPT ![t] = IF u = t THEN "request" ELSE "run"]
      /\ UNCHANGED <<priority, basePriority, schedVars, timeVars, then, obj>>
  BY Zenon DEF Stop, Disciplined, Goto
<1>2. /\ state[t] = "RUNNING" /\ currentTask = t /\ pc[t] = "run" /\ t # Idle /\ t # Null
      /\ x \in {Null, t} /\ \A v \in Tasks : state[v] = "RUNNING" <=> v = t
  BY <1>1, ExecutesRunning
<1>3. /\ Types /\ Control /\ Calls /\ Fresh(x) /\ Null \notin Tasks
      /\ Housed(links, ListNames, h) /\ Timely(links, ticksLeft)
  BY ListAssumption DEF KernelInv, Control
<1>4. state'[u] = to /\ \A v \in Tasks \ {u} : state'[v] = state[v]
  BY <1>1, <1>3 DEF Types, KernelTypeOK
<1>5. Moves(h, g, u, None)
  <2>1. g[u] = None
    <3>1. u # y /\ state'[u] \notin {"READY", "BLOCKED"}
      BY <1>3, <1>4
    <3>2. QED BY <3>1, HomeIs
  <2>2. Moves(h, g, u, g[u])
    <3>1. \A v \in Tasks \ {u} : /\ state[v] = state'[v] /\ priority[v] = priority'[v]
                                 /\ obj[v] = obj'[v] /\ (v = x <=> v = y)
      BY <1>1, <1>3, <1>4
    <3>2. QED BY <3>1, HomeMoves, ZenonT(60)
  <2>3. QED BY <2>1, <2>2
<1>6. h[u] = None \/ h[u] \in ReadyNames
  <2>1. CASE u = x
    BY <1>3, <2>1, HomeOfFirst, TopType, Names
  <2>2. CASE u # x /\ state[u] = "READY"
    <3>1. h[u] = Ready(Level(priority[u])) /\ Level(priority[u]) \in Levels
      BY <1>3, <2>2, HomeIs, LevelType, NanoAssumption DEF Types, KernelTypeOK
    <3>2. QED BY <3>1, Names
  <2>3. CASE u # x /\ state[u] # "READY"
    BY <1>1, <2>3, HomeIs
  <2>4. QED BY <2>1, <2>2, <2>3
<1> HIDE DEF h, g
<1>7. Housed(links', ListNames, g) /\ Others(links', links, Apart)
  <2>1. CASE h[u] \in ReadyNames
    <3>1. PICK p \in Levels : h[u] = Ready(p)
      BY <2>1 DEF ReadyNames
    <3>2. /\ Housed(RemoveReady(links, priority, u), ListNames, g)
          /\ Shorter(RemoveReady(links, priority, u), links, ListNames, Ready(p),
                     Place(links, Ready(p), u))
      BY <1>3, <1>5, <3>1, Names, RemoveReadyHouses
    <3>3. QED BY <1>1, <3>1, <3>2, Names DEF Shorter, Others, Apart
  <2>2. CASE h[u] = None
    <3>1. links' = links
      <4>1. h[u] \notin ReadyNames
        BY <2>2, Names
      <4>2. QED BY <1>1, <1>3, <4>1, Names, RemoveReadyNothing
    <3>2. \A v \in Tasks : g[v] = h[v]
      BY <1>5, <2>2 DEF Moves
    <3>3. g = h
      <4>1. g = [v \in Tasks |-> g[v]] /\ h = [v \in Tasks |-> h[v]]
        BY DEF g, h, Home
      <4>2. QED BY <3>2, <4>1
    <3>4. QED BY <1>3, <3>1, <3>3 DEF Others
  <2>3. QED BY <1>6, <2>1, <2>2
<1>8. Timely(links', ticksLeft') /\ Others(links', links, WaitNames)
  <2>1. Chain(links', Delayed) = Chain(links, Delayed) /\ ticksLeft' = ticksLeft
    BY <1>1, <1>7, Names DEF Others, Apart, timeVars
  <2>2. QED BY <1>3, <1>7, <2>1, Names DEF Timely, Others, Apart
<1>9. Types'
  BY <1>1, <1>3, <1>7, TypesOfLinks
     DEF Types, KernelTypeOK, Places, States, schedVars, timeVars
<1>10. Fresh(y)'
  <2>1. SUFFICES ASSUME y # Null PROVE Fresh(y)'
    BY DEF Fresh
  <2>2. y = x /\ x \in Tasks /\ u # x
    BY <2>1
  <2>3. /\ x \in BootTasks /\ Leads(x) /\ currentTask = x /\ state[x] = "RUNNING"
        /\ \A v \in Tasks \ {x} : state[v] # "BLOCKED" /\ Level(priority[v]) # Top(x)
    BY <1>3, <2>1, <2>2 DEF Fresh
  <2>4. currentTask' = currentTask /\ priority' = priority
    BY <1>1 DEF schedVars
  <2>5. state'[x] = "RUNNING" /\ \A v \in Tasks \ {x} : state'[v] # "BLOCKED"
    BY <1>4, <2>2, <2>3
  <2> HIDE DEF y
  <2>6. QED BY <2>2, <2>3, <2>4, <2>5 DEF Fresh
<1>11. Calls'
  <2>1. ASSUME NEW v \in Tasks, v # t, pc[v] = "resume"
        PROVE  obj[v] \in Tasks /\ state'[obj[v]] = "SUSPENDED"
    <3>1. obj[v] \in Resumes[v] /\ state[obj[v]] = "SUSPENDED" /\ obj[v] \in Tasks
      BY <1>3, <2>1, NanoAssumption DEF Calls
    <3>2. CASE obj[v] # u
      BY <1>4, <3>1, <3>2
    <3>3. CASE obj[v] = u
      <4>1. t # u
        BY <1>2, <3>1, <3>3
      <4>2. u \notin Deletes[t]
        BY <2>1, <3>1, <3>3, <4>1 DEF Disciplined
      <4>3. QED BY <1>4, <3>1, <3>3, <4>2
    <3>4. QED BY <3>2, <3>3
  <2>2. ASSUME NEW v \in Tasks, v # t
        PROVE  /\ state'[v] = "BLOCKED" => obj'[v] \in Objects \cup {Null}
               /\ pc'[v] = "run" => obj'[v] = Null
               /\ pc'[v] \notin {"request", "ecall"} => then'[v] = "run"
               /\ pc'[v] \in {"request", "ecall"} /\ then'[v] = "run" => obj'[v] = Null
               /\ then'[v] \notin {"request", "ecall", "resume"}
               /\ pc'[v] = "resume" => obj'[v] \in Resumes[v] /\ state'[obj'[v]] = "SUSPENDED"
    <3>1. pc'[v] = pc[v] /\ then'[v] = then[v] /\ obj'[v] = obj[v]
      BY <1>1, <1>3, <2>2 DEF Types
    <3>2. state'[v] = "BLOCKED" => state[v] = "BLOCKED"
      BY <1>4
    <3>3. QED BY <1>3, <2>1, <2>2, <3>1, <3>2 DEF Calls
  <2>3. /\ pc'[t] \in {"request", "run"} /\ then'[t] = "run" /\ obj'[t] = Null
        /\ state'[t] # "BLOCKED"
    BY <1>1, <1>2, <1>3, <1>4 DEF Types, Calls
  <2>4. QED BY <2>2, <2>3 DEF Calls
<1>12. Control'
  <2>1. currentTask' = t /\ (u = t => pc'[t] = "request") /\ (u # t => state'[t] = "RUNNING")
    BY <1>1, <1>2, <1>3, <1>4 DEF schedVars, Types
  <2>2. Booting' /\ Leaving'
    BY <1>2, <2>1 DEF Booting, Leaving
  <2>3. /\ \A v \in Tasks : state'[v] = "RUNNING" => currentTask' = v
        /\ state'[Idle] \in {"READY", "RUNNING"}
    BY <1>2, <1>3, <1>4, <2>1, NanoAssumption DEF Control
  <2>4. QED BY <1>11, <2>2, <2>3 DEF Control
<1>13. Housed(links', ListNames, Home(y, state', priority', obj'))
  BY <1>7 DEF g
<1> HIDE DEF y
<1>14. Keeps(y)
  BY <1>8, <1>9, <1>10, <1>12, <1>13 DEF Keeps, KernelInv
<1>15. QED BY <1>14 DEF y

LEMMA ResumeKeeps ==
  ASSUME NEW x \in Tasks \cup {Null}, KernelInv(x), NEW t \in Tasks, TaskResume(t)
  PROVE  Keeps(x)
<1>1. PICK u \in Resumes[t] : state[u] = "SUSPENDED" /\ obj' = [obj EXCEPT ![t] = u]
  BY DEF TaskResume, Resumable
<1>2. /\ Executes(t, "run") /\ pc' = [pc EXCEPT ![t] = "resume"]
      /\ UNCHANGED <<links, state, priority, basePriority, schedVars, timeVars, then>>
  BY DEF TaskResume, Goto, listVars
<1>3. /\ state[t] = "RUNNING" /\ currentTask = t /\ pc[t] = "run" /\ t # Null
  BY <1>2, ExecutesRunning
<1>4. /\ Types /\ Control /\ Calls /\ Booting /\ Leaving /\ u \in Tasks
      /\ Housed(links, ListNames, Home(x, state, priority, obj))
  BY <1>1, NanoAssumption DEF KernelInv, Control
<1>5. Home(x, state', priority', obj') = Home(x, state, priority, obj)
  <2>1. \A v \in Tasks : Home(x, state', priority', obj')[v] = Home(x, state, priority, obj)[v]
    BY <1>1, <1>2, <1>3, <1>4 DEF Home, Types
  <2>2. QED BY <2>1, HomeSame
<1>6. Types'
  BY <1>1, <1>2, <1>4 DEF Types, KernelTypeOK, Places, schedVars, timeVars
<1>7. Fresh(x)' /\ Timely(links', ticksLeft') /\ Others(links', links, WaitNames)
  BY <1>2 DEF KernelInv, Fresh, Others, schedVars, timeVars
<1>8. Calls'
  <2>1. ASSUME NEW v \in Tasks, v # t
        PROVE  pc'[v] = pc[v] /\ then'[v] = then[v] /\ obj'[v] = obj[v] /\ state'[v] = state[v]
    BY <1>1, <1>2, <1>4, <2>1 DEF Types
  <2>2. pc'[t] = "resume" /\ then'[t] = "run" /\ obj'[t] = u /\ state'[u] = "SUSPENDED"
        /\ state'[t] = "RUNNING"
    BY <1>1, <1>2, <1>3, <1>4 DEF Types, Calls
  <2>3. state' = state
    BY <1>2
  <2>4. QED BY <1>1, <1>4, <2>1, <2>2, <2>3 DEF Calls
<1>9. Control'
  <2>1. Booting' /\ Leaving'
    BY <1>2, <1>3 DEF Booting, Leaving, schedVars
  <2>2. QED BY <1>2, <1>4, <1>8, <2>1 DEF Control, schedVars
<1>10. QED BY <1>2, <1>4, <1>5, <1>6, <1>7, <1>9 DEF Keeps, KernelInv

LEMMA ResumeReadyKeeps ==
  ASSUME NEW x \in Tasks \cup {Null}, KernelInv(x), Disciplined, NEW t \in Tasks, ResumeReady(t)
  PROVE  Keeps(x)
<1> DEFINE u == obj[t]
           h == Home(x, state, priority, obj)
           g == Home(x, state', priority', obj')
           l == Ready(Level(priority[u]))
<1>1. /\ Executes(t, "resume")
      /\ links' = AddReady(links, priority, u)
      /\ state' = [state EXCEPT ![u] = "READY"]
      /\ obj' = [obj EXCEPT ![t] = Null]
      /\ pc' = [pc EXCEPT ![t] = "run"]
      /\ UNCHANGED <<priority, basePriority, schedVars, timeVars, then>>
  BY DEF ResumeReady, Goto
<1>2. /\ state[t] = "RUNNING" /\ currentTask = t /\ pc[t] = "resume" /\ t # Null
      /\ x \in {Null, t}
  BY <1>1, ExecutesRunning
<1>3. /\ Types /\ Control /\ Calls /\ Fresh(x) /\ Null \notin Tasks
      /\ Housed(links, ListNames, h) /\ Timely(links, ticksLeft)
  BY ListAssumption DEF KernelInv, Control
<1>4. u \in Tasks /\ u \in Resumes[t] /\ state[u] = "SUSPENDED" /\ u # t /\ u # x
  BY <1>2, <1>3, NanoAssumption DEF Calls
<1>5. state'[u] = "READY" /\ \A v \in Tasks \ {u} : state'[v] = state[v]
  BY <1>1, <1>3, <1>4 DEF Types, KernelTypeOK
<1> HIDE DEF u
<1>6. h[u] = None /\ g[u] = l /\ l \in ReadyNames /\ l \in ListNames
  <2>1. h[u] = None
    BY <1>4, HomeIs
  <2>2. g[u] = Ready(Level(priority'[u]))
    BY <1>4, <1>5, HomeIs
  <2>3. Level(priority[u]) \in Levels
    BY <1>3, <1>4, LevelType, NanoAssumption DEF Types, KernelTypeOK
  <2>4. QED BY <1>1, <2>1, <2>2, <2>3, Names
<1>7. Moves(h, g, u, l)
  <2> DEFINE f == Home(x, state', priority, obj)
  <2>1. \A v \in Tasks \ {u} : f[v] = g[v]
    <3>1. \A v \in Tasks : v # t => obj'[v] = obj[v]
      BY <1>1, <1>3 DEF Types
    <3>2. state'[t] = "RUNNING"
      BY <1>2, <1>4, <1>5
    <3>3. QED BY <1>1, <3>1, <3>2 DEF Home
  <2>2. Moves(h, f, u, f[u])
    BY <1>4, <1>5, HomeMoves
  <2>3. QED BY <1>6, <2>1, <2>2 DEF Moves
<1> HIDE DEF h, g
<1>8. /\ Housed(links', ListNames, g)
      /\ Longer(links', links, ListNames, l, Len(Chain(links, l)), u)
  <2>1. h[u] \notin ListNames
    BY <1>6, Names
  <2>2. QED BY <1>1, <1>3, <1>4, <1>6, <1>7, <2>1, AddReadyHouses
<1> HIDE DEF l
<1>9. Timely(links', ticksLeft') /\ Others(links', links, WaitNames)
  <2>1. Chain(links', Delayed) = Chain(links, Delayed) /\ ticksLeft' = ticksLeft
    BY <1>1, <1>6, <1>8, Names DEF Longer, Others, timeVars
  <2>2. QED BY <1>3, <1>6, <1>8, <2>1, Names DEF Longer, Timely, Others
<1>10. Types'
  BY <1>1, <1>3, <1>8, TypesOfLinks
     DEF Types, KernelTypeOK, Places, States, schedVars, timeVars
<1>11. Fresh(x)'
  <2>1. currentTask' = currentTask /\ priority' = priority
    BY <1>1 DEF schedVars
  <2>2. QED BY <1>3, <1>4, <1>5, <2>1 DEF Fresh
<1>12. Calls'
  <2>1. ASSUME NEW v \in Tasks, v # t, pc[v] = "resume"
        PROVE  obj[v] \in Tasks /\ state'[obj[v]] = "SUSPENDED"
    <3>1. obj[v] \in Resumes[v] /\ state[obj[v]] = "SUSPENDED" /\ obj[v] \in Tasks
      BY <1>3, <2>1, NanoAssumption DEF Calls
    <3>2. obj[v] # u
      <4>1. CASE v # u
        BY <1>4, <2>1, <3>1, <4>1 DEF Disciplined
      <4>2. CASE v = u
        BY <1>4, <2>1, <3>1, <4>2 DEF Disciplined
      <4>3. QED BY <4>1, <4>2
    <3>3. QED BY <1>5, <3>1, <3>2
  <2>2. ASSUME NEW v \in Tasks, v # t
        PROVE  /\ state'[v] = "BLOCKED" => obj'[v] \in Objects \cup {Null}
               /\ pc'[v] = "run" => obj'[v] = Null
               /\ pc'[v] \notin {"request", "ecall"} => then'[v] = "run"
               /\ pc'[v] \in {"request", "ecall"} /\ then'[v] = "run" => obj'[v] = Null
               /\ then'[v] \notin {"request", "ecall", "resume"}
               /\ pc'[v] = "resume" => obj'[v] \in Resumes[v] /\ state'[obj'[v]] = "SUSPENDED"
    <3>1. pc'[v] = pc[v] /\ then'[v] = then[v] /\ obj'[v] = obj[v]
      BY <1>1, <1>3, <2>2 DEF Types
    <3>2. state'[v] = "BLOCKED" => state[v] = "BLOCKED"
      BY <1>5
    <3>3. QED BY <1>3, <2>1, <2>2, <3>1, <3>2 DEF Calls
  <2>3. pc'[t] = "run" /\ then'[t] = "run" /\ obj'[t] = Null /\ state'[t] # "BLOCKED"
    BY <1>1, <1>2, <1>3, <1>4, <1>5 DEF Types, Calls
  <2>4. QED BY <2>2, <2>3 DEF Calls
<1>13. Control'
  <2>1. currentTask' = t /\ state'[t] = "RUNNING"
    BY <1>1, <1>2, <1>4, <1>5 DEF schedVars
  <2>2. Booting' /\ Leaving'
    BY <1>2, <2>1 DEF Booting, Leaving
  <2>3. /\ \A v \in Tasks : state'[v] = "RUNNING" => currentTask' = v
        /\ state'[Idle] \in {"READY", "RUNNING"}
    BY <1>2, <1>3, <1>5, <2>1, NanoAssumption DEF Control
  <2>4. QED BY <1>12, <2>2, <2>3 DEF Control
<1>14. QED BY <1>8, <1>9, <1>10, <1>11, <1>13 DEF Keeps, KernelInv, g

LEMMA PriorityKeeps ==
  ASSUME NEW x \in Tasks \cup {Null}, KernelInv(x), NEW t \in Tasks, TaskSetPriority(t)
  PROVE  Keeps(x)
<1>1. PICK u \in Retunes[t], p \in Levels :
        /\ priority' = [priority EXCEPT ![u] = p]
        /\ basePriority' = [basePriority EXCEPT ![u] = p]
        /\ links' = IF state[u] = "READY" THEN Requeued(links, priority', u) ELSE links
  BY DEF TaskSetPriority
<1>2. /\ Executes(t, "run") /\ UNCHANGED <<state, schedVars, timeVars, callVars>>
  BY DEF TaskSetPriority
<1>3. /\ state[t] = "RUNNING" /\ currentTask = t /\ pc[t] = "run" /\ t # Null
      /\ x \in {Null, t}
  BY <1>2, ExecutesRunning
<1> DEFINE h == Home(x, state, priority, obj)
           g == Home(x, state', priority', obj')
<1>4. /\ Types /\ Control /\ Calls /\ Fresh(x) /\ Null \notin Tasks
      /\ Housed(links, ListNames, h) /\ Timely(links, ticksLeft)
  BY ListAssumption DEF KernelInv, Control
<1>5. /\ u \in Tasks /\ p \in Nat /\ priority'[u] = p
      /\ \A v \in Tasks \ {u} : priority'[v] = priority[v]
      /\ state' = state /\ obj' = obj
  BY <1>1, <1>2, <1>4, NanoAssumption DEF Levels, Types, KernelTypeOK, callVars
<1>6. Moves(h, g, u, g[u])
  BY <1>5, HomeMoves
<1>7. Housed(links', ListNames, g) /\ Others(links', links, Apart)
  <2>1. CASE state[u] = "READY"
    <3>1. u # x /\ h[u] \in ReadyNames
      <4>1. u # x
        BY <1>3, <1>4, <1>5, <2>1
      <4>2. h[u] = Ready(Level(priority[u])) /\ Level(priority[u]) \in Levels
        BY <1>4, <1>5, <2>1, <4>1, HomeIs, LevelType, NanoAssumption DEF Types, KernelTypeOK
      <4>3. QED BY <4>1, <4>2, Names
    <3>2. g[u] = Ready(Level(priority'[u]))
      <4>1. state'[u] = "READY"
        BY <1>5, <2>1
      <4>2. QED BY <1>5, <3>1, <4>1, HomeIs
    <3>3. priority'[u] \in Nat /\ Moves(h, g, u, Ready(Level(priority'[u])))
      BY <1>5, <1>6, <3>2
    <3> HIDE DEF h, g
    <3>4. /\ Housed(Requeued(links, priority', u), ListNames, g)
          /\ Others(Requeued(links, priority', u), links, Apart)
      BY <1>4, <1>5, <3>1, <3>3, RequeueHouses
    <3>5. QED BY <1>1, <2>1, <3>4
  <2>2. CASE state[u] # "READY"
    <3>1. \A v \in Tasks : g[v] = h[v]
      BY <1>5, <2>2 DEF Home
    <3>2. g = h
      BY <3>1, HomeSame
    <3>3. QED BY <1>1, <1>4, <2>2, <3>2 DEF Others
  <2>3. QED BY <2>1, <2>2
<1>8. Timely(links', ticksLeft') /\ Others(links', links, WaitNames)
  <2>1. Chain(links', Delayed) = Chain(links, Delayed) /\ ticksLeft' = ticksLeft
    BY <1>2, <1>7, Names DEF Others, Apart, timeVars
  <2>2. QED BY <1>4, <1>7, <2>1, Names DEF Timely, Others, Apart
<1>9. Types'
  BY <1>1, <1>2, <1>4, <1>5, <1>7, TypesOfLinks
     DEF Types, KernelTypeOK, schedVars, timeVars, callVars
<1>10. Fresh(x)'
  <2>1. SUFFICES ASSUME x # Null PROVE Fresh(x)'
    BY DEF Fresh
  <2>2. x = t /\ Leads(x) /\ Fresh(x)
    BY <1>3, <1>4, <2>1 DEF Fresh
  <2>3. u = x
    BY <2>2 DEF Leads
  <2>4. currentTask' = currentTask
    BY <1>2 DEF schedVars
  <2>5. QED BY <1>5, <2>1, <2>2, <2>3, <2>4 DEF Fresh
<1>11. Control'
  <2>1. currentTask' = t /\ pc' = pc /\ then' = then /\ switchPending' = switchPending
    BY <1>2, <1>3 DEF schedVars, callVars
  <2>2. Booting' /\ Leaving'
    BY <1>3, <1>5, <2>1 DEF Booting, Leaving
  <2>3. Calls'
    BY <1>4, <1>5, <2>1 DEF Calls
  <2>4. QED BY <1>3, <1>4, <1>5, <2>1, <2>2, <2>3 DEF Control
<1>12. QED BY <1>7, <1>8, <1>9, <1>10, <1>11 DEF Keeps, KernelInv

-----------------------------------------------------------------------------
(* The calls on objects. *)

(* The first task of a wait queue moves to a ready queue; st1 says so. *)
LEMMA FirstReadied ==
  ASSUME NEW x \in Tasks \cup {Null}, NEW st, NEW st1, NEW lk, priority \in [Tasks -> Nat],
         Housed(lk, ListNames, Home(x, st, priority, obj)),
         NEW o \in Objects, NEW w, w = lk.head[WaitQueue(o)], w # Null,
         st1[w] = "READY", \A u \in Tasks \ {w} : st1[u] = st[u]
  PROVE  /\ w \in Tasks /\ w # x /\ st[w] = "BLOCKED" /\ obj[w] = o
         /\ Len(Chain(lk, WaitQueue(o))) > 0 /\ w = Chain(lk, WaitQueue(o))[1]
         /\ Housed(AddReady(Pop(lk, WaitQueue(o)), priority, w), ListNames,
                   Home(x, st1, priority, obj))
         /\ Shorter(AddReady(Pop(lk, WaitQueue(o)), priority, w), lk, Apart, WaitQueue(o), 1)
<1> DEFINE l == WaitQueue(o)
           q == Ready(Level(priority[w]))
           h == Home(x, st, priority, obj)
           g == Home(x, st1, priority, obj)
           f == [u \in Tasks |-> IF u = w THEN None ELSE h[u]]
           mid == Pop(lk, l)
           new == AddReady(mid, priority, w)
<1>1. Null \notin Tasks /\ Null \notin Objects /\ Housed(lk, ListNames, h)
  BY ListAssumption, NanoAssumption
<1>2. /\ l \in ListNames /\ l \notin ReadyNames /\ None \notin ListNames /\ l \in Apart
      /\ ReadyNames \subseteq ListNames /\ l # Delayed /\ \A p : l # Ready(p)
      /\ \A p \in Levels : Ready(p) \in ReadyNames
  BY Names DEF WaitNames, Apart
<1> HIDE DEF h, mid
<1>3. w \in Tasks /\ h[w] = l /\ Len(Chain(lk, l)) > 0 /\ w = Chain(lk, l)[1]
  <2>1. \A i \in 1..Len(Chain(lk, l)) : Chain(lk, l)[i] \in Tasks /\ h[Chain(lk, l)[i]] = l
    BY <1>1, <1>2, HousedList
  <2>2. lk.head[l] = At(Chain(lk, l), 1)
    BY <1>1, <1>2, HousedList
  <2>3. 1 \in 1..Len(Chain(lk, l)) /\ Len(Chain(lk, l)) \in Nat
    BY <1>1, <1>2, <2>2, HousedList DEF At
  <2>4. QED BY <2>1, <2>2, <2>3 DEF At
<1>4. w # x /\ st[w] = "BLOCKED" /\ obj[w] = o
  <2>1. w # x
    <3>1. SUFFICES ASSUME w = x PROVE FALSE
      OBVIOUS
    <3>2. h[w] = Ready(Top(x))
      BY <1>3, <3>1, HomeOfFirst DEF h
    <3>3. QED BY <1>2, <1>3, <3>2
  <2>2. st[w] = "BLOCKED"
    <3>1. SUFFICES ASSUME st[w] # "BLOCKED" PROVE FALSE
      OBVIOUS
    <3>2. h[w] = None \/ h[w] = Ready(Level(priority[w]))
      BY <1>3, <2>1, <3>1, HomeIs DEF h
    <3>3. QED BY <1>2, <1>3, <3>2
  <2>3. h[w] = IF obj[w] = Null THEN Delayed ELSE WaitQueue(obj[w])
    BY <1>3, <2>1, <2>2, HomeIs DEF h
  <2>4. obj[w] # Null /\ WaitQueue(obj[w]) = WaitQueue(o)
    BY <1>2, <1>3, <2>3
  <2>5. QED BY <2>1, <2>2, <2>4, Names
<1>5. q \in ListNames /\ q \in ReadyNames
  <2>1. priority[w] \in Nat
    BY <1>3
  <2>2. Level(priority[w]) \in Levels
    BY <2>1, LevelType, NanoAssumption
  <2>3. QED BY <2>2, Names
<1>6. Moves(h, f, w, None) /\ f[w] \notin ListNames
  BY <1>2, <1>3 DEF Moves
<1>7. Housed(mid, ListNames, f) /\ Shorter(mid, lk, ListNames, l, 1)
  <2> HIDE DEF f
  <2>1. w = lk.head[l]
    OBVIOUS
  <2>2. QED BY <1>1, <1>2, <1>6, <2>1, PopHouses DEF mid
<1>8. Moves(f, g, w, q)
  <2>1. g[w] = q
    BY <1>3, <1>4, HomeIs
  <2>2. ASSUME NEW u \in Tasks \ {w} PROVE g[u] = f[u]
    <3>1. st1[u] = st[u]
      OBVIOUS
    <3>2. QED BY <3>1 DEF h, Home
  <2>3. QED BY <2>1, <2>2 DEF Moves
<1> HIDE DEF f, g, q
<1>9. /\ Housed(new, ListNames, g)
      /\ Longer(new, mid, ListNames, q, Len(Chain(mid, q)), w)
  <2>1. q = Ready(Level(priority[w]))
    BY DEF q
  <2>2. QED BY <1>3, <1>5, <1>6, <1>7, <1>8, <2>1, AddReadyHouses
<1> HIDE DEF new
<1>10. Shorter(new, lk, Apart, l, 1)
  <2>1. Chain(new, l) = Chain(mid, l) /\ Others(new, mid, Apart)
    BY <1>2, <1>5, <1>9 DEF Longer, Others, Apart
  <2>2. QED BY <1>7, <2>1 DEF Shorter, Others, Apart
<1>11. QED BY <1>3, <1>4, <1>9, <1>10 DEF g, new, mid

(* A waiter is signalled. *)
LEMMA SignalHouses ==
  ASSUME NEW x \in Tasks \cup {Null}, KernelInv(x), NEW o \in Objects, Signal(o)
  PROVE  /\ x = Null /\ FirstWaiter(o) \in Tasks
         /\ state[FirstWaiter(o)] = "BLOCKED" /\ obj[FirstWaiter(o)] = o
         /\ Len(Chain(links, WaitQueue(o))) > 0
         /\ FirstWaiter(o) = Chain(links, WaitQueue(o))[1]
         /\ Housed(links', ListNames, Home(Null, state', priority, obj))
         /\ Shorter(links', links, Apart, WaitQueue(o), 1)
<1> DEFINE w == FirstWaiter(o)
           st1 == [u \in Tasks \cup {w} |-> IF u = w THEN "READY" ELSE state[u]]
<1>1. /\ w # Null /\ links' = AddReady(Pop(links, WaitQueue(o)), priority, w)
      /\ state' = [state EXCEPT ![w] = "READY"] /\ w = links.head[WaitQueue(o)]
  BY DEF Signal, FirstWaiter
<1>2. /\ priority \in [Tasks -> Nat] /\ state \in [Tasks -> States] /\ Fresh(x)
      /\ Housed(links, ListNames, Home(x, state, priority, obj))
  BY DEF KernelInv, Types, KernelTypeOK
<1>3. st1[w] = "READY" /\ \A u \in Tasks \ {w} : st1[u] = state[u]
  OBVIOUS
<1> HIDE DEF w, st1
<1>4. /\ w \in Tasks /\ w # x /\ state[w] = "BLOCKED" /\ obj[w] = o
      /\ Len(Chain(links, WaitQueue(o))) > 0 /\ w = Chain(links, WaitQueue(o))[1]
      /\ Housed(links', ListNames, Home(x, st1, priority, obj))
      /\ Shorter(links', links, Apart, WaitQueue(o), 1)
  <2>1. /\ w = links.head[WaitQueue(o)] /\ w # Null /\ priority \in [Tasks -> Nat]
        /\ Housed(links, ListNames, Home(x, state, priority, obj))
    BY <1>1, <1>2
  <2>2. /\ w \in Tasks /\ w # x /\ state[w] = "BLOCKED" /\ obj[w] = o
        /\ Len(Chain(links, WaitQueue(o))) > 0 /\ w = Chain(links, WaitQueue(o))[1]
        /\ Housed(AddReady(Pop(links, WaitQueue(o)), priority, w), ListNames,
                  Home(x, st1, priority, obj))
        /\ Shorter(AddReady(Pop(links, WaitQueue(o)), priority, w), links, Apart,
                   WaitQueue(o), 1)
    BY <1>3, <2>1, FirstReadied
  <2>3. QED BY <1>1, <2>2
<1>5. x = Null
  BY <1>2, <1>4 DEF Fresh
<1>6. st1 = state'
  BY <1>1, <1>2, <1>4 DEF st1
<1>7. QED BY <1>4, <1>5, <1>6 DEF w

(* The rest of the invariant when task t, whose call does not block it,    *)
(* has changed what only a RUNNING task may.                               *)
LEMMA CallKeeps ==
  ASSUME NEW x \in Tasks \cup {Null}, KernelInv(x), NEW t \in Tasks,
         NEW at \in Places \ {"request", "ecall"}, Executes(t, at),
         NEW y \in {x, Null},
         Housed(links', ListNames, Home(y, state', priority', obj')),
         Chain(links', Delayed) = Chain(links, Delayed),
         state' \in [Tasks -> States],
         \A u \in Tasks : state'[u] # state[u] => state[u] = "BLOCKED" /\ state'[u] = "READY",
         pc' \in [Tasks -> Places], then' \in [Tasks -> Places],
         obj' \in [Tasks -> Objects \cup Tasks \cup {Null}],
         \A u \in Tasks \ {t} : pc'[u] = pc[u] /\ then'[u] = then[u] /\ obj'[u] = obj[u],
         pc'[t] \notin {"request", "ecall", "resume"}, then'[t] = "run",
         pc'[t] = "run" => obj'[t] = Null,
         priority' \in [Tasks -> Nat], \A u \in Tasks \ {t} : priority'[u] = priority[u],
         wakeReason' \in [Tasks -> {"NONE", "SIGNALED", "TIMEOUT"}], switchPending' \in BOOLEAN,
         UNCHANGED <<basePriority, ticksLeft, currentTask, taskCount>>
  PROVE  KernelInv(y)'
<1>1. /\ state[t] = "RUNNING" /\ currentTask = t /\ t # Idle /\ t # Null /\ x \in {Null, t}
  BY ExecutesRunning
<1>2. Types /\ Control /\ Calls /\ Fresh(x) /\ Timely(links, ticksLeft)
  BY DEF KernelInv, Control
<1>3. state'[t] = "RUNNING" /\ currentTask' = t
  BY <1>1
<1>4. Types'
  BY <1>2, TypesOfLinks DEF Types, KernelTypeOK
<1>5. Timely(links', ticksLeft')
  BY <1>2 DEF Timely
<1>6. Fresh(y)'
  <2>1. SUFFICES ASSUME y # Null PROVE Fresh(y)'
    BY DEF Fresh
  <2>2. y = t /\ x = t
    BY <1>1, <2>1
  <2>3. \A u \in Tasks \ {y} : state'[u] # "BLOCKED" /\ Level(priority'[u]) # Top(y)
    BY <1>1, <1>2, <2>2 DEF Fresh
  <2>4. y \in BootTasks /\ Leads(y)
    BY <1>1, <1>2, <2>2 DEF Fresh
  <2>5. QED BY <1>3, <2>2, <2>3, <2>4 DEF Fresh
<1>7. Calls'
  <2>1. ASSUME NEW u \in Tasks, u # t
        PROVE  /\ state'[u] = "BLOCKED" => obj'[u] \in Objects \cup {Null}
               /\ pc'[u] = "run" => obj'[u] = Null
               /\ pc'[u] \notin {"request", "ecall"} => then'[u] = "run"
               /\ pc'[u] \in {"request", "ecall"} /\ then'[u] = "run" => obj'[u] = Null
               /\ then'[u] \notin {"request", "ecall", "resume"}
               /\ pc'[u] = "resume" => obj'[u] \in Resumes[u] /\ state'[obj'[u]] = "SUSPENDED"
    <3>1. pc'[u] = pc[u] /\ then'[u] = then[u] /\ obj'[u] = obj[u]
      BY <2>1
    <3>2. pc[u] = "resume" => obj[u] \in Tasks /\ state[obj[u]] = "SUSPENDED"
      BY <1>2, NanoAssumption DEF Calls
    <3>3. pc[u] = "resume" => state'[obj[u]] = "SUSPENDED"
      BY <3>2
    <3>4. state'[u] = "BLOCKED" => state[u] = "BLOCKED"
      OBVIOUS
    <3>5. QED BY <1>2, <3>1, <3>3, <3>4 DEF Calls
  <2>2. QED BY <1>3, <2>1 DEF Calls
<1>8. Control'
  <2>1. Booting' /\ Leaving'
    BY <1>1, <1>3 DEF Booting, Leaving
  <2>2. \A u \in Tasks : state'[u] = "RUNNING" => currentTask' = u
    BY <1>2 DEF Control
  <2>3. state'[Idle] \in {"READY", "RUNNING"}
    BY <1>2, NanoAssumption DEF Control
  <2>4. QED BY <1>7, <2>1, <2>2, <2>3 DEF Control
<1>9. QED BY <1>4, <1>5, <1>6, <1>8 DEF KernelInv

(* A task that runs is in no wait queue: leaving one does nothing.         *)
LEMMA LeaveNothing ==
  ASSUME NEW x \in Tasks \cup {Null}, KernelInv(x), NEW t \in Tasks, state[t] = "RUNNING",
         NEW o \in Objects, NEW timedOut, LeaveQueue(t, o, timedOut)
  PROVE  links' = links
<1> DEFINE h == Home(x, state, priority, obj)
<1>1. Housed(links, ListNames, h) /\ WaitQueue(o) \in ListNames
  BY Names DEF KernelInv
<1>2. h[t] # WaitQueue(o)
  BY HomeIs, HomeOfFirst, Names
<1> HIDE DEF h
<1>3. ~On(links, WaitQueue(o), t)
  BY <1>1, <1>2, HousedList
<1>4. Remove(links, WaitQueue(o), t) = links
  BY <1>3, RemoveNothing
<1>5. QED BY <1>4 DEF LeaveQueue

(* What a RUNNING task's call is about does not matter to the lists, nor   *)
(* does its priority.                                                      *)
LEMMA HomeOfCaller ==
  ASSUME NEW x, NEW st, NEW pr1, NEW pr2, NEW ob1, NEW ob2, NEW t \in Tasks, st[t] = "RUNNING",
         \A u \in Tasks \ {t} : ob1[u] = ob2[u] /\ pr1[u] = pr2[u]
  PROVE  Home(x, st, pr1, ob1) = Home(x, st, pr2, ob2)
<1>1. \A u \in Tasks : Home(x, st, pr1, ob1)[u] = Home(x, st, pr2, ob2)[u]
  BY DEF Home
<1>2. QED BY <1>1, HomeSame

(* A call without timeout joins a wait queue, when other tasks may have    *)
(* been queued anew with the priorities pr.                                *)
LEMMA WaitKeeps ==
  ASSUME NEW x \in Tasks \cup {Null}, KernelInv(x), NEW t \in Tasks, t \notin Timed,
         NEW at \in Places \ {"request", "ecall"}, Executes(t, at),
         NEW o \in Objects, NEW goal \in Places \ {"run", "request", "ecall", "resume"},
         NEW lk, NEW pr \in [Tasks -> Nat], Others(lk, links, Apart),
         Housed(lk, ListNames, Home(x, state, pr, obj)),
         x # Null => \A u \in Tasks \ {x} : Level(pr[u]) # Top(x),
         Block(t, lk, pr, o, o, goal),
         priority' = pr, UNCHANGED <<basePriority, schedVars>>
  PROVE  /\ KernelInv(Null)'
         /\ Longer(links', links, Apart, WaitQueue(o),
                   Passing(links, WaitQueue(o), {u \in Tasks : pr[u] >= pr[t]}), t)
<1> DEFINE l == WaitQueue(o)
           passed == {u \in Tasks : pr[u] >= pr[t]}
<1>1. /\ links' = Enlisted(lk, l, t, passed, pr)
      /\ state' = [state EXCEPT ![t] = "BLOCKED"] /\ pc' = [pc EXCEPT ![t] = "request"]
      /\ then' = [then EXCEPT ![t] = goal] /\ obj' = [obj EXCEPT ![t] = o]
      /\ UNCHANGED <<ticksLeft, wakeReason>>
  BY DEF Block, Goto, Enlisted, WaitqueueAdd, timeVars
<1>2. /\ state[t] = "RUNNING" /\ currentTask = t /\ t # Null /\ x \in {Null, t}
  BY ExecutesRunning
<1>3. /\ Types /\ Fresh(x) /\ Timely(links, ticksLeft) /\ Null \notin Objects
  BY NanoAssumption DEF KernelInv
<1>4. /\ state'[t] = "BLOCKED" /\ obj'[t] = o
      /\ \A u \in Tasks \ {t} : state'[u] = state[u] /\ obj'[u] = obj[u]
  BY <1>1, <1>3 DEF Types, KernelTypeOK
<1>5. Home(Null, state', pr, obj')[t] = l
  BY <1>2, <1>3, <1>4, HomeIs
<1>6. l \in Apart /\ l # Delayed /\ Top(t) \in Levels
  BY Names, TopType DEF Apart, WaitNames
<1>7. x = t => \A u \in Tasks \ {t} : state[u] # "BLOCKED" /\ Level(pr[u]) # Top(t)
  BY <1>2, <1>3 DEF Fresh
<1> HIDE DEF l, passed
<1>8. /\ Housed(Enlisted(lk, l, t, passed, pr), ListNames, Home(Null, state', pr, obj'))
      /\ Longer(Enlisted(lk, l, t, passed, pr), lk, Apart, l, Passing(lk, l, passed), t)
  <2>1. \A u \in Tasks \ {t} : state'[u] = state[u] /\ obj'[u] = obj[u]
    BY <1>4
  <2>2. QED BY <1>2, <1>5, <1>6, <1>7, <2>1, BlockHouses
<1>9. Longer(links', links, Apart, l, Passing(links, l, passed), t)
  <2>1. Chain(lk, l) = Chain(links, l)
    BY <1>6 DEF Others
  <2>2. Passing(lk, l, passed) = Passing(links, l, passed)
    BY <2>1 DEF Passing
  <2>3. QED BY <1>1, <1>8, <2>1, <2>2 DEF Longer, Others
<1>10. Timely(links', ticksLeft')
  <2>1. Chain(links', Delayed) = Chain(links, Delayed)
    BY <1>6, <1>9, Names DEF Longer, Others, Apart
  <2>2. QED BY <1>1, <1>3, <2>1 DEF Timely
<1>11. KernelInv(Null)'
  <2>1. goal \in Places \ {"request", "ecall", "resume"} /\ (goal = "run" => o = Null)
        /\ o \in Objects \cup {Null}
    OBVIOUS
  <2>2. /\ ticksLeft' \in [Tasks -> 0..MaxDelay] /\ priority' \in [Tasks -> Nat]
        /\ wakeReason' \in [Tasks -> {"NONE", "SIGNALED", "TIMEOUT"}]
        /\ basePriority' \in [Tasks -> Nat] /\ UNCHANGED schedVars
    BY <1>1, <1>3 DEF Types, KernelTypeOK
  <2>3. Housed(links', ListNames, Home(Null, state', priority', obj'))
    BY <1>1, <1>8
  <2>4. QED BY <1>1, <1>10, <2>1, <2>2, <2>3, BlockKeeps
<1>12. QED BY <1>9, <1>11 DEF l, passed

(* Who waits on an object is in its wait queue, and nobody else.           *)
LEMMA SoundWaiters == Sound => WaitersQueued
<1> SUFFICES ASSUME NEW x \in Tasks \cup {Null}, KernelInv(x), NEW t \in Tasks, NEW o \in Objects
             PROVE  On(links, WaitQueue(o), t) <=> state[t] = "BLOCKED" /\ obj[t] = o
  BY DEF Sound, WaitersQueued, NoWaiterLost
<1> DEFINE h == Home(x, state, priority, obj)
<1>1. Housed(links, ListNames, h) /\ WaitQueue(o) \in ListNames
  BY Names DEF KernelInv
<1>2. /\ Null \notin Objects /\ Fresh(x)
  BY NanoAssumption DEF KernelInv
<1>3. h[t] = WaitQueue(o) <=> state[t] = "BLOCKED" /\ obj[t] = o
  <2>1. CASE t = x
    BY <1>2, <2>1, ListAssumption, HomeOfFirst, Names DEF Fresh
  <2>2. CASE t # x
    BY <1>2, <2>2, HomeIs, Names
  <2>3. QED BY <2>1, <2>2
<1> HIDE DEF h
<1>4. QED BY <1>1, <1>3, HousedList

-----------------------------------------------------------------------------
(* The kernel. *)

(* A step keeps the invariant, with the first task as it was, unless this  *)
(* is the step that starts it.                                             *)
Goes(x) == \E y \in Tasks \cup {Null} : Keeps(y) /\ (y \in {x, Null} \/ currentTask = Null)

LEMMA KernelStep ==
  ASSUME NEW x \in Tasks \cup {Null}, KernelInv(x), Disciplined, KernelNext
  PROVE  Goes(x)
<1>1. CASE SchedStart
  <2>1. PICK f \in BootTasks : Leads(f)
    BY DEF Disciplined
  <2>2. QED BY <1>1, <2>1, StartKeeps, NanoAssumption DEF Goes, SchedStart
<1>2. CASE Tick
  BY <1>2, TickKeeps DEF Goes
<1>3. ASSUME NEW t \in Tasks, TaskCreate(t) PROVE Goes(x)
  BY <1>3, CreateKeeps DEF Goes
<1>4. ASSUME NEW t \in Tasks, TaskYield(t) PROVE Goes(x)
  BY <1>4, YieldKeeps DEF Goes
<1>5. ASSUME NEW t \in Tasks, Ecall(t) PROVE Goes(x)
  <2>1. switchPending \in BOOLEAN
    BY DEF KernelInv, Types, KernelTypeOK
  <2>2. QED BY <1>5, <2>1, EcallKeeps DEF Goes
<1>6. ASSUME NEW t \in Tasks, DelayTicks(t) PROVE Goes(x)
  BY <1>6, DelayKeeps DEF Goes
<1>7. ASSUME NEW t \in Tasks, TaskSuspend(t) \/ TaskDelete(t)
      PROVE  Goes(x)
  <2>1. PICK u \in Suspends[t] \cup Deletes[t], to \in {"SUSPENDED", "DELETED"} :
          Stop(t, u, to) /\ (to = "DELETED" => u \in Deletes[t])
    BY <1>7 DEF TaskSuspend, TaskDelete
  <2>2. u \in Tasks /\ u # Idle
    BY <2>1, NanoAssumption DEF Disciplined
  <2> DEFINE y == IF u = x THEN Null ELSE x
  <2>3. Keeps(y) /\ y \in Tasks \cup {Null}
    BY <2>1, <2>2, StopKeeps
  <2>4. QED BY <2>3 DEF Goes
<1>8. ASSUME NEW t \in Tasks, TaskResume(t) PROVE Goes(x)
  BY <1>8, ResumeKeeps DEF Goes
<1>9. ASSUME NEW t \in Tasks, ResumeReady(t) PROVE Goes(x)
  BY <1>9, ResumeReadyKeeps DEF Goes
<1>10. ASSUME NEW t \in Tasks, TaskSetPriority(t) PROVE Goes(x)
  BY <1>10, PriorityKeeps DEF Goes
<1>11. QED BY <1>1, <1>2, <1>3, <1>4, <1>5, <1>6, <1>7, <1>8, <1>9, <1>10 DEF KernelNext

LEMMA InitSound == Init => KernelInv(Null)
<1> SUFFICES ASSUME Init PROVE KernelInv(Null)
  OBVIOUS
<1> DEFINE h == [t \in Tasks |-> None]
           g == Home(Null, state, priority, obj)
           l == Ready(0)
<1>1. /\ Null \notin Tasks /\ Idle \in Tasks /\ MaxDelay \in Nat /\ MaxTasks \in Nat \ {0}
      /\ InitPriority \in [Tasks -> Nat]
  BY ListAssumption, NanoAssumption
<1>2. l \in ListNames /\ None \notin ListNames /\ l # Delayed /\ l # None /\ Delayed \in ListNames
  <2>1. 0 \in Levels
    BY NanoAssumption DEF Levels
  <2>2. QED BY <2>1, Names
<1>3. Housed(Empty, ListNames, h) /\ Chain(Empty, Delayed) = <<>>
  <2>1. \A t \in Tasks : h[t] \notin ListNames
    BY <1>2
  <2>2. Empty = [head |-> [m \in ListNames |-> Null], next |-> [t \in Tasks |-> Null]]
    BY DEF Empty
  <2> HIDE DEF h
  <2>3. Housed(Empty, ListNames, h) /\ \A m \in ListNames : Chain(Empty, m) = <<>>
    BY <2>1, <2>2, EmptyHoused
  <2>4. QED BY <1>2, <2>3
<1>4. Moves(h, g, Idle, l) /\ h[Idle] \notin ListNames
  <2>1. Level(0) = 0
    BY NanoAssumption DEF Level
  <2>2. g[Idle] = l
    <3>1. state[Idle] = "READY" /\ priority[Idle] = 0 /\ Idle # Null
      BY <1>1 DEF Init
    <3>2. g[Idle] = Ready(Level(priority[Idle]))
      BY <1>1, <3>1, HomeIs
    <3>3. QED BY <2>1, <3>1, <3>2
  <2>3. ASSUME NEW u \in Tasks \ {Idle} PROVE g[u] = h[u]
    <3>1. state[u] = "FREE" /\ u # Null
      BY <1>1 DEF Init
    <3>2. QED BY <3>1, HomeIs
  <2>4. QED BY <1>1, <1>2, <2>2, <2>3 DEF Moves
<1> HIDE DEF h, g, l
<1>5. /\ Housed(LinkLast(Empty, l, Idle), ListNames, g)
      /\ Longer(LinkLast(Empty, l, Idle), Empty, ListNames, l, Len(Chain(Empty, l)), Idle)
  BY <1>1, <1>2, <1>3, <1>4, LinkLastHouses
<1>6. links = LinkLast(Empty, l, Idle)
  BY DEF Init, l
<1>7. Chain(links, Delayed) = <<>>
  BY <1>2, <1>3, <1>5, <1>6 DEF Longer, Others
<1>8. Timely(links, ticksLeft)
  BY <1>7 DEF Timely, Ascending
<1>9. Types
  <2>1. links \in Links(ListNames)
    BY <1>5, <1>6 DEF Housed
  <2>2. links \in [head : [ListNames -> Tasks \cup {Null}], next : [Tasks -> Tasks \cup {Null}]]
    BY <2>1 DEF Links
  <2>3. /\ state \in [Tasks -> States] /\ priority \in [Tasks -> Nat]
        /\ basePriority \in [Tasks -> Nat] /\ ticksLeft \in [Tasks -> 0..MaxDelay]
    BY <1>1 DEF Init, States
  <2>4. /\ wakeReason \in [Tasks -> {"NONE", "SIGNALED", "TIMEOUT"}]
        /\ currentTask \in Tasks \cup {Null} /\ switchPending \in BOOLEAN
        /\ taskCount \in 1..MaxTasks
    <3>1. taskCount = 1 /\ currentTask = Null /\ switchPending = FALSE
      BY DEF Init
    <3>2. wakeReason = [t \in Tasks |-> "NONE"]
      BY DEF Init
    <3>3. wakeReason \in [Tasks -> {"NONE", "SIGNALED", "TIMEOUT"}]
      BY <3>2
    <3>4. 1 \in 1..MaxTasks
      BY <1>1
    <3>5. QED BY <3>1, <3>3, <3>4
  <2>5. /\ pc \in [Tasks -> Places] /\ then \in [Tasks -> Places]
        /\ obj \in [Tasks -> Objects \cup Tasks \cup {Null}]
    BY DEF Init, Places
  <2>6. QED BY <2>2, <2>3, <2>4, <2>5 DEF Types, KernelTypeOK
<1>10. Control
  BY <1>1 DEF Init, Control, Booting, Leaving, Calls
<1>11. Fresh(Null)
  BY DEF Fresh
<1>12. QED BY <1>5, <1>6, <1>8, <1>9, <1>10, <1>11 DEF KernelInv, g

(* A step of somebody else leaves the kernel as it was. *)
LEMMA StutterKeeps ==
  ASSUME NEW x, KernelInv(x), UNCHANGED kernelVars
  PROVE  Keeps(x)
<1>1. /\ links' = links /\ state' = state /\ priority' = priority /\ obj' = obj
      /\ basePriority' = basePriority /\ ticksLeft' = ticksLeft /\ wakeReason' = wakeReason
      /\ currentTask' = currentTask /\ switchPending' = switchPending /\ taskCount' = taskCount
      /\ pc' = pc /\ then' = then
  BY DEF kernelVars, listVars, schedVars, timeVars, callVars
<1>2. Types' /\ Fresh(x)' /\ Timely(links', ticksLeft')
  BY <1>1 DEF KernelInv, Types, KernelTypeOK, Fresh, Timely
<1>3. Control'
  BY <1>1 DEF KernelInv, Control, Booting, Leaving, Calls
<1>4. QED BY <1>1, <1>2, <1>3 DEF Keeps, KernelInv, Others

-----------------------------------------------------------------------------
(* What a step of the kernel leaves of the calls on objects. *)

(* The task is in no call on an object. *)
Away(t) == then[t] = "run" /\ pc[t] \in {"run", "request", "ecall", "resume"}

(* It is left where it is, or goes on with the yield it is in. *)
Passes(t) == \/ pc'[t] = pc[t] /\ then'[t] = then[t]
             \/ pc[t] = "request" /\ pc'[t] = "ecall" /\ then'[t] = then[t]
             \/ pc[t] = "ecall" /\ pc'[t] = then[t] /\ then'[t] = "run"

StaysAway(t) == Away(t)' /\ (state'[t] = "BLOCKED" => obj'[t] = Null)
StaysIn(t) == /\ obj'[t] = obj[t] /\ wakeReason'[t] = wakeReason[t] /\ Passes(t)
              /\ state'[t] = "BLOCKED" <=> state[t] = "BLOCKED"
CallKept(t) == /\ Away(t) \/ TaskCreate(t) => StaysAway(t)
               /\ ~Away(t) /\ ~TaskCreate(t) /\ obj[t] \in Objects => StaysIn(t)

(* A task that is away and blocked sleeps. *)
LEMMA AwaySleeps ==
  ASSUME NEW x, KernelInv(x), NEW t \in Tasks, Away(t), state[t] = "BLOCKED"
  PROVE  obj[t] = Null
<1>1. /\ obj[t] \in Objects \cup {Null} /\ Objects \cap Tasks = {} /\ Null \notin Tasks
      /\ pc[t] = "resume" => obj[t] \in Tasks
  BY ListAssumption, NanoAssumption DEF KernelInv, Control, Calls
<1>2. QED BY <1>1 DEF KernelInv, Control, Calls, Away

LEMMA CallsKept ==
  ASSUME NEW x \in Tasks \cup {Null}, KernelInv(x), Disciplined, KernelNext, NEW t \in Tasks
  PROVE  CallKept(t)
<1>1. Types /\ Calls /\ Null \notin Tasks /\ Null \notin Objects
  BY ListAssumption, NanoAssumption DEF KernelInv, Control
<1>2. Away(t) /\ state[t] = "BLOCKED" => obj[t] = Null
  BY AwaySleeps
<1>3. CASE SchedStart
  <2>1. \A u \in Tasks : state[u] # "BLOCKED"
    BY <1>3 DEF SchedStart, KernelInv, Control, Booting
  <2>2. state'[t] # "BLOCKED"
    BY <1>1, <1>3, <2>1 DEF SchedStart, Types, KernelTypeOK
  <2>3. /\ pc' = pc /\ then' = then /\ obj' = obj /\ wakeReason' = wakeReason
        /\ taskCount' = taskCount
    BY <1>3 DEF SchedStart, callVars, timeVars
  <2>4. ~TaskCreate(t)
    BY <1>1, <2>3 DEF TaskCreate, Types, KernelTypeOK
  <2>5. QED BY <2>1, <2>2, <2>3, <2>4 DEF CallKept, StaysAway, StaysIn, Passes, Away
<1>4. CASE Tick
  <2>1. PICK lk : \E st \in [Tasks -> States] :
          /\ Dispatched(lk, st) /\ Preserves(st)
          /\ \A u \in Tasks : st[u] # state[u] => state[u] = "BLOCKED" /\ obj[u] = Null
          /\ \A u \in Tasks : wakeReason'[u] # wakeReason[u] =>
                                state[u] = "BLOCKED" /\ obj[u] = Null
    BY <1>4, TickDispatches
  <2>2. PICK st \in [Tasks -> States] :
          /\ Dispatched(lk, st) /\ Preserves(st)
          /\ \A u \in Tasks : st[u] # state[u] => state[u] = "BLOCKED" /\ obj[u] = Null
          /\ \A u \in Tasks : wakeReason'[u] # wakeReason[u] =>
                                state[u] = "BLOCKED" /\ obj[u] = Null
    BY <2>1
  <2>3. state'[t] = "BLOCKED" => state[t] = "BLOCKED"
    BY <2>2, SwitchedStates
  <2>4. obj[t] # Null /\ state[t] = "BLOCKED" => state'[t] = "BLOCKED"
    BY <2>2 DEF Dispatched
  <2>5. ~TaskCreate(t) \/ Away(t)'
    BY <1>1 DEF TaskCreate, Away, Types, Goto
  <2>6. pc' = pc /\ then' = then /\ obj' = obj
    BY <1>4 DEF Tick, callVars
  <2>7. TaskCreate(t) => state'[t] # "BLOCKED"
    BY <1>1 DEF TaskCreate, Types, KernelTypeOK
  <2>8. QED BY <1>1, <1>2, <2>2, <2>3, <2>4, <2>5, <2>6, <2>7
        DEF CallKept, StaysAway, StaysIn, Passes, Away
<1>5. ASSUME NEW u \in Tasks, TaskCreate(u) PROVE CallKept(t)
  <2>1. CASE u = t
    BY <1>1, <1>5, <2>1 DEF CallKept, StaysAway, TaskCreate, Away, Goto, Types, KernelTypeOK
  <2>2. CASE u # t
    <3>1. /\ pc'[t] = pc[t] /\ then'[t] = then[t] /\ obj'[t] = obj[t] /\ state'[t] = state[t]
          /\ wakeReason'[t] = wakeReason[t]
      BY <1>1, <1>5, <2>2 DEF TaskCreate, Goto, Types, KernelTypeOK
    <3>2. TaskCreate(t) => state'[t] = "READY" /\ Away(t)'
      BY <1>1 DEF TaskCreate, Away, Types, KernelTypeOK, Goto
    <3>3. QED BY <1>2, <3>1, <3>2 DEF CallKept, StaysAway, StaysIn, Passes, Away
  <2>3. QED BY <2>1, <2>2
<1>6. ASSUME NEW u \in Tasks, Ecall(u) PROVE CallKept(t)
  <2>1. state'[t] = "BLOCKED" <=> state[t] = "BLOCKED"
    <3>1. CASE switchPending
      <4>1. Dispatched(links, state) /\ Preserves(state)
        BY <1>6, <3>1, EcallKeeps DEF Preserves
      <4>2. state'[t] = "BLOCKED" => state[t] = "BLOCKED"
        BY <4>1, SwitchedStates
      <4>3. QED BY <4>1, <4>2 DEF Dispatched
    <3>2. CASE ~switchPending
      BY <1>6, <3>2, EcallKeeps
    <3>3. switchPending \in BOOLEAN
      BY <1>1 DEF Types, KernelTypeOK
    <3>4. QED BY <3>1, <3>2, <3>3
  <2>2. obj' = obj /\ wakeReason' = wakeReason /\ pc[u] = "ecall" /\ taskCount' = taskCount
    BY <1>6 DEF Ecall, Executes, timeVars
  <2>3. pc'[t] = (IF t = u THEN then[t] ELSE pc[t]) /\ then'[t] = (IF t = u THEN "run" ELSE then[t])
    BY <1>1, <1>6 DEF Ecall, Goto, Types
  <2>4. ~TaskCreate(t)
    BY <1>1, <2>2 DEF TaskCreate, Types, KernelTypeOK
  <2>5. QED BY <1>2, <2>1, <2>2, <2>3, <2>4 DEF CallKept, StaysAway, StaysIn, Passes, Away
<1>7. ASSUME taskCount' = taskCount, NEW u \in Tasks, NEW at \in {"run", "resume"},
             Executes(u, at), UNCHANGED <<then, wakeReason>>,
             \A v \in Tasks \ {u} : pc'[v] = pc[v] /\ obj'[v] = obj[v],
             pc'[u] \in {"run", "request", "ecall", "resume"},
             state'[u] = "BLOCKED" => obj'[u] = Null,
             \A v \in Tasks \ {u} : state'[v] = "BLOCKED" <=> state[v] = "BLOCKED"
      PROVE  CallKept(t)
  <2>1. ~TaskCreate(t)
    BY <1>1, <1>7 DEF TaskCreate, Types, KernelTypeOK
  <2>2. Away(u)
    BY <1>1, <1>7 DEF Executes, Calls, Away
  <2>3. QED BY <1>2, <1>7, <2>1, <2>2 DEF CallKept, StaysAway, StaysIn, Passes, Away
<1>8. ASSUME NEW u \in Tasks, DelayTicks(u) PROVE CallKept(t)
  <2>1. /\ Executes(u, "run") /\ obj' = obj /\ then' = then /\ taskCount' = taskCount
        /\ wakeReason' = [wakeReason EXCEPT ![u] = "NONE"]
        /\ state' = [state EXCEPT ![u] = "BLOCKED"] /\ pc' = [pc EXCEPT ![u] = "request"]
    BY <1>8 DEF DelayTicks, Goto, schedVars
  <2>2. obj[u] = Null /\ Away(u)
    BY <1>1, <2>1 DEF Executes, Calls, Away
  <2>3. /\ pc'[t] = (IF t = u THEN "request" ELSE pc[t])
        /\ state'[t] = (IF t = u THEN "BLOCKED" ELSE state[t])
        /\ t # u => wakeReason'[t] = wakeReason[t]
    BY <1>1, <2>1 DEF Types, KernelTypeOK
  <2>4. ~TaskCreate(t)
    BY <1>1, <2>1 DEF TaskCreate, Types, KernelTypeOK
  <2>5. QED BY <1>2, <2>1, <2>2, <2>3, <2>4 DEF CallKept, StaysAway, StaysIn, Passes, Away
<1>9. ASSUME NEW u \in Tasks, TaskYield(u) PROVE CallKept(t)
  <2>1. /\ Executes(u, "run") \/ Executes(u, "request")
        /\ obj' = obj /\ then' = then /\ taskCount' = taskCount /\ state' = state
        /\ wakeReason' = wakeReason /\ pc' = [pc EXCEPT ![u] = "ecall"]
    BY <1>9 DEF TaskYield, Goto, listVars, timeVars
  <2>2. pc'[t] = (IF t = u THEN "ecall" ELSE pc[t]) /\ (pc[u] = "run" \/ pc[u] = "request")
        /\ (pc[u] = "run" => then[u] = "run")
    BY <1>1, <2>1 DEF Types, Calls, Executes
  <2>3. ~TaskCreate(t)
    BY <1>1, <2>1 DEF TaskCreate, Types, KernelTypeOK
  <2>4. QED BY <1>2, <2>1, <2>2, <2>3 DEF CallKept, StaysAway, StaysIn, Passes, Away
<1>10. ASSUME NEW u \in Tasks, TaskSuspend(u) \/ TaskDelete(u) PROVE CallKept(t)
  <2>1. PICK v \in Suspends[u] \cup Deletes[u], to \in {"SUSPENDED", "DELETED"} : Stop(u, v, to)
    BY <1>10 DEF TaskSuspend, TaskDelete
  <2>2. /\ Executes(u, "run") /\ v \in Tasks /\ state[v] # "BLOCKED" /\ to # "BLOCKED"
        /\ state' = [state EXCEPT ![v] = to]
        /\ pc' = [pc EXCEPT ![u] = IF v = u THEN "request" ELSE "run"]
        /\ UNCHANGED <<taskCount, wakeReason, then, obj>>
    BY <2>1, NanoAssumption DEF Stop, Disciplined, Goto, schedVars, timeVars
  <2>3. /\ \A w \in Tasks : state'[w] = "BLOCKED" <=> state[w] = "BLOCKED"
        /\ \A w \in Tasks \ {u} : pc'[w] = pc[w]
        /\ pc'[u] \in {"run", "request"}
    BY <1>1, <2>2 DEF Types, KernelTypeOK
  <2>4. obj'[u] = Null
    BY <1>1, <2>2 DEF Executes, Calls
  <2>5. QED BY <1>7, <2>2, <2>3, <2>4
<1>11. ASSUME NEW u \in Tasks, TaskResume(u) PROVE CallKept(t)
  <2>1. PICK v \in Resumes[u] : obj' = [obj EXCEPT ![u] = v]
    BY <1>11 DEF TaskResume
  <2>2. /\ Executes(u, "run") /\ pc' = [pc EXCEPT ![u] = "resume"]
        /\ UNCHANGED <<taskCount, wakeReason, then, state>>
    BY <1>11 DEF TaskResume, Goto, schedVars, timeVars, listVars
  <2>3. state'[u] # "BLOCKED"
    BY <2>2, ExecutesRunning
  <2>4. /\ \A w \in Tasks \ {u} : pc'[w] = pc[w] /\ obj'[w] = obj[w]
        /\ pc'[u] = "resume"
    BY <1>1, <2>1, <2>2 DEF Types
  <2>5. QED BY <1>7, <2>2, <2>3, <2>4
<1>12. ASSUME NEW u \in Tasks, ResumeReady(u) PROVE CallKept(t)
  <2>1. /\ Executes(u, "resume") /\ pc' = [pc EXCEPT ![u] = "run"]
        /\ state' = [state EXCEPT ![obj[u]] = "READY"] /\ obj' = [obj EXCEPT ![u] = Null]
        /\ UNCHANGED <<taskCount, wakeReason, then>>
    BY <1>12 DEF ResumeReady, Goto, schedVars, timeVars
  <2>2. obj[u] \in Tasks /\ state[obj[u]] = "SUSPENDED"
    BY <1>1, <2>1, NanoAssumption DEF Executes, Calls
  <2>3. /\ \A w \in Tasks \ {u} : pc'[w] = pc[w] /\ obj'[w] = obj[w]
        /\ \A w \in Tasks : state'[w] = "BLOCKED" <=> state[w] = "BLOCKED"
        /\ pc'[u] = "run" /\ obj'[u] = Null
    BY <1>1, <2>1, <2>2 DEF Types, KernelTypeOK
  <2>4. QED BY <1>7, <2>1, <2>3
<1>13. ASSUME NEW u \in Tasks, TaskSetPriority(u) PROVE CallKept(t)
  <2>1. /\ Executes(u, "run") /\ UNCHANGED <<taskCount, wakeReason, then, pc, obj, state>>
    BY <1>13 DEF TaskSetPriority, schedVars, timeVars, callVars
  <2>2. obj[u] = Null /\ pc[u] = "run"
    BY <1>1, <2>1 DEF Executes, Calls
  <2>3. QED BY <1>7, <2>1, <2>2
<1>14. QED BY <1>3, <1>4, <1>5, <1>6, <1>8, <1>9, <1>10, <1>11, <1>12, <1>13 DEF KernelNext

(* Who waits in a call that goes on at the given place is blocked, or has  *)
(* been signalled.                                                         *)
InCall(t, at) == pc[t] = at \/ then[t] = at

Awaits(t, at) ==
  /\ Away(t) \/ InCall(t, at)
  /\ InCall(t, at) => /\ obj[t] \in Objects
                      /\ state[t] # "BLOCKED" => wakeReason[t] = "SIGNALED"
  /\ state[t] = "BLOCKED" /\ obj[t] \in Objects => InCall(t, at)

LEMMA AwaitsKept ==
  ASSUME NEW t \in Tasks, NEW at \in Places \ {"run", "request", "ecall", "resume"},
         Awaits(t, at), pc'[t] = pc[t], then'[t] = then[t], obj'[t] = obj[t],
         \/ state'[t] = state[t] /\ wakeReason'[t] = wakeReason[t]
         \/ state'[t] = "READY" /\ wakeReason'[t] = "SIGNALED"
  PROVE  Awaits(t, at)'
BY DEF Awaits, InCall, Away

LEMMA KernelAwaits ==
  ASSUME NEW x \in Tasks \cup {Null}, KernelInv(x), Disciplined, KernelNext, NEW t \in Tasks,
         NEW at \in Places \ {"run", "request", "ecall", "resume"}, Awaits(t, at)
  PROVE  Awaits(t, at)'
<1>1. CallKept(t) /\ Null \notin Objects
  BY CallsKept, NanoAssumption
<1>2. CASE Away(t) \/ TaskCreate(t)
  <2>1. Away(t)' /\ (state'[t] = "BLOCKED" => obj'[t] = Null)
    BY <1>1, <1>2 DEF CallKept, StaysAway
  <2>2. QED BY <1>1, <2>1 DEF Awaits, InCall, Away
<1>3. CASE ~Away(t) /\ ~TaskCreate(t)
  <2>1. InCall(t, at) /\ obj[t] \in Objects /\ StaysIn(t)
    BY <1>1, <1>3 DEF Awaits, CallKept
  <2>2. InCall(t, at)'
    <3>1. Calls
      BY DEF KernelInv, Control
    <3>2. pc[t] = at => then[t] = "run"
      BY <3>1 DEF Calls
    <3>3. QED BY <2>1, <3>2 DEF StaysIn, Passes, InCall
  <2>3. QED BY <2>1, <2>2 DEF Awaits, StaysIn
<1>4. QED BY <1>2, <1>3

(* If tasks are created before the start only, a step of the kernel leaves *)
(* the calls on objects to their tasks.                                    *)
LEMMA CallsStay ==
  ASSUME NEW x \in Tasks \cup {Null}, KernelInv(x), Disciplined, BootOnly, KernelNext,
         NEW t \in Tasks,
         NEW at \in Places \ {"run", "request", "ecall", "resume"}, Awaits(t, at)
  PROVE  /\ InCall(t, at)' <=> InCall(t, at)
         /\ InCall(t, at) => /\ obj'[t] = obj[t]
                             /\ state'[t] = "BLOCKED" <=> state[t] = "BLOCKED"
<1>1. CallKept(t) /\ Calls /\ Booting
  BY CallsKept DEF KernelInv, Control
<1>2. TaskCreate(t) => Away(t)
  <2>1. TaskCreate(t) => currentTask = Null
    BY DEF TaskCreate, Creating, BootOnly
  <2>2. QED BY <1>1, <2>1 DEF Booting, Calls, Away
<1>3. CASE Away(t)
  BY <1>1, <1>3 DEF CallKept, StaysAway, Away, InCall
<1>4. CASE ~Away(t)
  <2>1. StaysIn(t) /\ InCall(t, at)
    BY <1>1, <1>2, <1>4 DEF CallKept, Awaits
  <2>2. pc[t] = at => then[t] = "run"
    BY <1>1 DEF Calls
  <2>3. InCall(t, at)'
    BY <2>1, <2>2 DEF StaysIn, Passes, InCall
  <2>4. QED BY <2>1, <2>3 DEF StaysIn
<1>5. QED BY <1>3, <1>4

(* Nobody but the task itself changes its priority: not while it waits.    *)
LEMMA PriorityKept ==
  ASSUME NEW x \in Tasks \cup {Null}, KernelInv(x), KernelNext,
         \A u \in Tasks : Retunes[u] \subseteq {u}, NEW t \in Tasks, state[t] = "BLOCKED"
  PROVE  priority'[t] = priority[t]
<1>1. Types
  BY DEF KernelInv
<1>2. ASSUME NEW u \in Tasks, TaskCreate(u) PROVE priority'[t] = priority[t]
  BY <1>1, <1>2 DEF TaskCreate, Types, KernelTypeOK
<1>3. ASSUME NEW u \in Tasks, TaskSetPriority(u) PROVE priority'[t] = priority[t]
  <2>1. Executes(u, "run") /\ \E p \in Levels : priority' = [priority EXCEPT ![u] = p]
    BY <1>3 DEF TaskSetPriority
  <2>2. u # t
    BY <2>1, ExecutesRunning
  <2>3. QED BY <1>1, <2>1, <2>2 DEF Types, KernelTypeOK
<1>4. SUFFICES ASSUME ~\E u \in Tasks : TaskCreate(u) \/ TaskSetPriority(u)
               PROVE  priority' = priority
  BY <1>2, <1>3
<1>5. QED BY <1>4 DEF KernelNext, SchedStart, Tick, TaskYield, Ecall, DelayTicks, TaskSuspend,
          TaskDelete, Stop, TaskResume, ResumeReady, listVars

(* The wait queues are in the order of the priorities pr. *)
Urgency(pr) == [t \in Tasks |-> 0 - pr[t]]
Ordered(lk, pr) == \A o \in Objects : Ascending(Chain(lk, WaitQueue(o)), Urgency(pr))

(* All but one wait queue are as before. *)
LEMMA OrderKept ==
  ASSUME NEW x \in Tasks \cup {Null}, KernelInv(x), NEW o \in Objects,
         Ascending(Chain(links, WaitQueue(o)), Urgency(priority)),
         Chain(links', WaitQueue(o)) = Chain(links, WaitQueue(o)),
         \A t \in Tasks : state[t] = "BLOCKED" /\ obj[t] \in Objects => priority'[t] = priority[t]
  PROVE  Ascending(Chain(links', WaitQueue(o)), Urgency(priority'))
<1> DEFINE s == Chain(links, WaitQueue(o))
<1>1. ASSUME NEW i \in 1..Len(s)
      PROVE  Urgency(priority')[s[i]] = Urgency(priority)[s[i]]
  <2>1. s[i] \in Tasks /\ On(links, WaitQueue(o), s[i])
    <3>1. Housed(links, ListNames, Home(x, state, priority, obj)) /\ WaitQueue(o) \in ListNames
      BY Names DEF KernelInv
    <3>2. s[i] \in Tasks
      BY <3>1, HousedList
    <3>3. QED BY <3>2 DEF On
  <2>2. state[s[i]] = "BLOCKED" /\ obj[s[i]] \in Objects
    BY <2>1, SoundWaiters DEF WaitersQueued, Sound
  <2>3. priority'[s[i]] = priority[s[i]]
    BY <2>1, <2>2
  <2> HIDE DEF s
  <2>4. QED BY <2>1, <2>3 DEF Urgency
<1> HIDE DEF s
<1>2. Ascending(s, Urgency(priority'))
  BY <1>1 DEF Ascending, s
<1>3. QED BY <1>2 DEF s

LEMMA OrderedKept ==
  ASSUME NEW x \in Tasks \cup {Null}, KernelInv(x), Ordered(links, priority),
         Others(links', links, WaitNames),
         \A t \in Tasks : state[t] = "BLOCKED" /\ obj[t] \in Objects => priority'[t] = priority[t]
  PROVE  Ordered(links', priority')
<1>1. ASSUME NEW o \in Objects
      PROVE  Ascending(Chain(links', WaitQueue(o)), Urgency(priority'))
  <2>1. Chain(links', WaitQueue(o)) = Chain(links, WaitQueue(o))
    BY DEF Others, WaitNames
  <2>2. Ascending(Chain(links, WaitQueue(o)), Urgency(priority))
    BY DEF Ordered
  <2>3. QED BY <2>1, <2>2, OrderKept
<1>2. QED BY <1>1 DEF Ordered

(* The first waiter of o is gone. *)
LEMMA OrderedSignal ==
  ASSUME NEW x \in Tasks \cup {Null}, KernelInv(x), Ordered(links, priority),
         NEW o \in Objects, Shorter(links', links, Apart, WaitQueue(o), 1),
         Len(Chain(links, WaitQueue(o))) > 0,
         \A t \in Tasks : state[t] = "BLOCKED" /\ obj[t] \in Objects => priority'[t] = priority[t]
  PROVE  Ordered(links', priority')
<1> DEFINE s == Chain(links, WaitQueue(o))
<1>1. ASSUME NEW q \in Objects, q # o
      PROVE  Ascending(Chain(links', WaitQueue(q)), Urgency(priority'))
  <2>1. Chain(links', WaitQueue(q)) = Chain(links, WaitQueue(q))
    BY <1>1, Names DEF Shorter, Others, Apart, WaitNames
  <2>2. Ascending(Chain(links, WaitQueue(q)), Urgency(priority))
    BY DEF Ordered
  <2>3. QED BY <2>1, <2>2, OrderKept
<1>2. Ascending(Chain(links', WaitQueue(o)), Urgency(priority'))
  <2>1. s \in Seq(Tasks) /\ NoTwice(s) /\ Len(s) \in Nat
    <3>1. Housed(links, ListNames, Home(x, state, priority, obj)) /\ WaitQueue(o) \in ListNames
      BY Names DEF KernelInv
    <3>2. QED BY <3>1, HousedList
  <2>2. \A i \in 1..Len(s) : s[i] \in Tasks /\ On(links, WaitQueue(o), s[i])
    BY <2>1, TypeOfSeq DEF On
  <2>3. \A i \in 1..Len(s) : s[i] \in Tasks /\ priority'[s[i]] = priority[s[i]]
    BY <2>2, SoundWaiters DEF WaitersQueued, Sound
  <2>4. Ascending(s, Urgency(priority))
    BY DEF Ordered
  <2> HIDE DEF s
  <2>5. Ascending(s, Urgency(priority'))
    BY <2>3, <2>4 DEF Ascending, Urgency
  <2>6. 1 \in 1..Len(s)
    BY <2>1 DEF s
  <2>7. Ascending(Without(s, 1), Urgency(priority'))
    BY <2>1, <2>5, <2>6, AscendingWithout
  <2>8. QED BY <2>7 DEF Shorter, s
<1>3. QED BY <1>1, <1>2 DEF Ordered

(* A task has joined the queue of o, behind those of its priority. *)
LEMMA OrderedWait ==
  ASSUME NEW x \in Tasks \cup {Null}, KernelInv(x), Ordered(links, priority),
         NEW o \in Objects, NEW t \in Tasks, state[t] = "RUNNING", priority' \in [Tasks -> Nat],
         Longer(links', links, Apart, WaitQueue(o),
                Passing(links, WaitQueue(o), {u \in Tasks : priority'[u] >= priority'[t]}), t),
         \A u \in Tasks : state[u] = "BLOCKED" /\ obj[u] \in Objects => priority'[u] = priority[u]
  PROVE  Ordered(links', priority')
<1> DEFINE s == Chain(links, WaitQueue(o))
           passed == {u \in Tasks : priority'[u] >= priority'[t]}
           n == Passing(links, WaitQueue(o), passed)
<1>1. ASSUME NEW q \in Objects, q # o
      PROVE  Ascending(Chain(links', WaitQueue(q)), Urgency(priority'))
  <2>1. Chain(links', WaitQueue(q)) = Chain(links, WaitQueue(q))
    BY <1>1, Names DEF Longer, Others, Apart, WaitNames
  <2>2. Ascending(Chain(links, WaitQueue(q)), Urgency(priority))
    BY DEF Ordered
  <2>3. QED BY <2>1, <2>2, OrderKept
<1>2. Ascending(Chain(links', WaitQueue(o)), Urgency(priority'))
  <2>1. Housed(links, ListNames, Home(x, state, priority, obj)) /\ WaitQueue(o) \in ListNames
    BY Names DEF KernelInv
  <2>2. s \in Seq(Tasks) /\ Len(s) \in Nat /\ \A i \in 1..Len(s) : s[i] \in Tasks
    BY <2>1, HousedList
  <2>3. /\ n \in 0..Len(s) /\ \A j \in 1..n : s[j] \in passed
        /\ n < Len(s) => s[n + 1] \notin passed
    <3> HIDE DEF passed
    <3>1. QED BY <2>1, PassingPlace
  <2>4. \A i \in 1..Len(s) : On(links, WaitQueue(o), s[i])
    BY DEF On
  <2>5. \A i \in 1..Len(s) : priority'[s[i]] = priority[s[i]]
    BY <2>2, <2>4, SoundWaiters DEF WaitersQueued, Sound
  <2>6. Ascending(s, Urgency(priority))
    BY DEF Ordered
  <2> HIDE DEF s, n
  <2>7. Ascending(s, Urgency(priority'))
    BY <2>2, <2>5, <2>6 DEF Ascending, Urgency
  <2>8. Urgency(priority') \in [Tasks -> Int]
    BY DEF Urgency
  <2>9. \A u \in Tasks : priority'[u] \in Nat /\ Urgency(priority')[u] = 0 - priority'[u]
    BY DEF Urgency
  <2>10. \A j \in 1..n : Urgency(priority')[s[j]] <= Urgency(priority')[t]
    BY <2>2, <2>3, <2>9
  <2>11. n < Len(s) => Urgency(priority')[t] <= Urgency(priority')[s[n + 1]]
    <3>1. SUFFICES ASSUME n < Len(s)
                   PROVE  Urgency(priority')[t] <= Urgency(priority')[s[n + 1]]
      OBVIOUS
    <3>2. n + 1 \in 1..Len(s)
      BY <2>2, <2>3, <3>1
    <3>3. s[n + 1] \in Tasks /\ ~(priority'[s[n + 1]] >= priority'[t])
      BY <2>2, <2>3, <3>1, <3>2
    <3>4. QED BY <2>9, <3>3
  <2>12. Ascending(Inserted(s, n, t), Urgency(priority'))
    BY <2>2, <2>3, <2>7, <2>8, <2>10, <2>11, AscendingInserted
  <2>13. QED BY <2>12 DEF Longer, s, n
<1>3. QED BY <1>1, <1>2 DEF Ordered

(* The first waiter is of the highest priority. *)
LEMMA FirstIsBest ==
  ASSUME NEW x \in Tasks \cup {Null}, KernelInv(x), Ordered(links, priority),
         NEW o \in Objects, NEW w \in Tasks, w = Chain(links, WaitQueue(o))[1],
         Len(Chain(links, WaitQueue(o))) > 0,
         NEW u \in Tasks, state[u] = "BLOCKED", obj[u] = o
  PROVE  priority[u] <= priority[w]
<1> DEFINE q == Chain(links, WaitQueue(o))
<1>1. On(links, WaitQueue(o), u)
  BY SoundWaiters DEF WaitersQueued, NoWaiterLost, Sound
<1>2. PICK i \in 1..Len(q) : q[i] = u
  BY <1>1 DEF On
<1>3. Len(q) \in Nat /\ Len(q) > 0 /\ w = q[1]
  <2>1. Housed(links, ListNames, Home(x, state, priority, obj)) /\ WaitQueue(o) \in ListNames
    BY Names DEF KernelInv
  <2>2. QED BY <2>1, HousedList
<1>4. Ascending(q, Urgency(priority))
  BY DEF Ordered
<1> HIDE DEF q
<1>5. /\ Urgency(priority)[u] = 0 - priority[u] /\ Urgency(priority)[w] = 0 - priority[w]
      /\ priority[u] \in Nat /\ priority[w] \in Nat
  BY DEF KernelInv, Urgency, Types, KernelTypeOK
<1>6. CASE i = 1
  BY <1>2, <1>3, <1>5, <1>6
<1>7. CASE i > 1
  <2>1. 1 \in 1..Len(q)
    BY <1>3
  <2>2. Urgency(priority)[w] <= Urgency(priority)[u]
    BY <1>2, <1>3, <1>4, <1>7, <2>1 DEF Ascending
  <2>3. QED BY <1>5, <2>2
<1>8. QED BY <1>2, <1>3, <1>6, <1>7

(* Nobody is in the wait queue of an object that has no first waiter. *)
LEMMA NobodyWaits ==
  ASSUME Sound, NEW o \in Objects, FirstWaiter(o) = Null, NEW t \in Tasks
  PROVE  ~(state[t] = "BLOCKED" /\ obj[t] = o)
<1>1. PICK x \in Tasks \cup {Null} : KernelInv(x)
  BY DEF Sound
<1> DEFINE s == Chain(links, WaitQueue(o))
<1>2. /\ Len(s) \in Nat /\ links.head[WaitQueue(o)] = At(s, 1)
      /\ \A i \in 1..Len(s) : s[i] \in Tasks
  <2>1. Housed(links, ListNames, Home(x, state, priority, obj)) /\ WaitQueue(o) \in ListNames
    BY <1>1, Names DEF KernelInv
  <2>2. QED BY <2>1, HousedList
<1> HIDE DEF s
<1>3. Len(s) = 0
  BY <1>2, ListAssumption DEF FirstWaiter, At
<1>4. ~On(links, WaitQueue(o), t)
  BY <1>3 DEF On, s
<1>5. QED BY <1>4, SoundWaiters DEF WaitersQueued, NoWaiterLost

(* Once the scheduler runs, it always has a current task. *)
LEMMA StartsOnce ==
  ASSUME NEW x \in Tasks \cup {Null}, KernelInv(x), KernelNext, currentTask # Null
  PROVE  currentTask' # Null
<1>1. CASE SchedStart
  BY <1>1 DEF SchedStart
<1>2. CASE Tick
  BY <1>2, TickDispatches, ListAssumption DEF Dispatched
<1>3. ASSUME NEW t \in Tasks, Ecall(t) PROVE currentTask' # Null
  <2>1. CASE switchPending
    BY <1>3, <2>1, EcallKeeps, ListAssumption DEF Dispatched
  <2>2. CASE ~switchPending
    BY <1>3, <2>2 DEF Ecall
  <2>3. QED BY <2>1, <2>2
<1>4. ASSUME NEW t \in Tasks,
             \/ TaskCreate(t) \/ TaskYield(t) \/ DelayTicks(t) \/ TaskSuspend(t)
             \/ TaskDelete(t) \/ TaskResume(t) \/ ResumeReady(t) \/ TaskSetPriority(t)
      PROVE  currentTask' # Null
  BY <1>4 DEF TaskCreate, TaskYield, DelayTicks, TaskSuspend, TaskDelete, Stop, TaskResume,
              ResumeReady, TaskSetPriority, schedVars
<1>5. QED BY <1>1, <1>2, <1>3, <1>4 DEF KernelNext

-----------------------------------------------------------------------------
(* What the invariant says. *)

LEMMA SoundTypes == Sound => KernelTypeOK
BY DEF Sound, KernelInv, Types

LEMMA SoundLists == Sound => ListsSound
<1> SUFFICES ASSUME NEW x \in Tasks \cup {Null}, KernelInv(x) PROVE ListsSound
  BY DEF Sound
<1>1. Housed(links, ListNames, Home(x, state, priority, obj))
  BY DEF KernelInv
<1> DEFINE h == Home(x, state, priority, obj)
<1> HIDE DEF h
<1>2. ASSUME NEW l \in ListNames PROVE Acyclic(links, l)
  <2>1. /\ links \in Links(ListNames) /\ Linked(links, l, Chain(links, l))
        /\ NoTwice(Chain(links, l))
    BY <1>1 DEF Housed
  <2>2. QED BY <2>1, ChainOfList
<1>3. ASSUME NEW l \in ListNames, NEW m \in ListNames, l # m, NEW t \in Tasks
      PROVE  ~(On(links, l, t) /\ On(links, m, t))
  BY <1>1, <1>3, HousedList
<1>4. QED BY <1>2, <1>3 DEF ListsSound

LEMMA SoundReady == Sound => ReadyExactlyQueued
<1> SUFFICES ASSUME NEW x \in Tasks \cup {Null}, KernelInv(x), NEW t \in Tasks
             PROVE  /\ state[t] = "READY" => On(links, Ready(Level(priority[t])), t)
                    /\ \A p \in Levels : On(links, Ready(p), t) =>
                         state[t] = "READY" \/ (state[t] = "RUNNING" /\ currentTask = t)
                    /\ state[t] = "RUNNING" => currentTask = t
  BY DEF Sound, ReadyExactlyQueued
<1> DEFINE h == Home(x, state, priority, obj)
<1>1. /\ Housed(links, ListNames, h) /\ Fresh(x) /\ priority[t] \in Nat
      /\ state[t] = "RUNNING" => currentTask = t
      /\ Null \notin Tasks
  BY ListAssumption DEF KernelInv, Types, KernelTypeOK, Control
<1>2. ASSUME state[t] = "READY" PROVE On(links, Ready(Level(priority[t])), t)
  <2>1. t # x
    BY <1>1, <1>2 DEF Fresh
  <2>2. h[t] = Ready(Level(priority[t]))
    BY <1>2, <2>1, HomeIs
  <2>3. Ready(Level(priority[t])) \in ListNames
    BY <1>1, LevelType, Names, NanoAssumption
  <2> HIDE DEF h
  <2>4. QED BY <1>1, <2>2, <2>3, HousedList
<1>3. ASSUME NEW p \in Levels, On(links, Ready(p), t)
      PROVE  state[t] = "READY" \/ (state[t] = "RUNNING" /\ currentTask = t)
  <2>1. h[t] = Ready(p)
    <3> HIDE DEF h
    <3>1. QED BY <1>1, <1>3, Names, HousedList
  <2>2. t = x \/ state[t] = "READY"
    BY <2>1, HomeReady
  <2>3. QED BY <1>1, <2>2 DEF Fresh
<1>4. QED BY <1>1, <1>2, <1>3

LEMMA SoundSleepers == Sound => SleepersAccounted
<1> SUFFICES ASSUME NEW x \in Tasks \cup {Null}, KernelInv(x) PROVE SleepersAccounted
  BY DEF Sound
<1> DEFINE h == Home(x, state, priority, obj)
           s == Chain(links, Delayed)
<1>1. Housed(links, ListNames, h) /\ Fresh(x) /\ Timely(links, ticksLeft) /\ Null \notin Tasks
  BY ListAssumption DEF KernelInv
<1>2. ASSUME NEW t \in Tasks, state[t] = "BLOCKED", obj[t] = Null
      PROVE  On(links, Delayed, t)
  <2>1. t # x
    BY <1>1, <1>2 DEF Fresh
  <2>2. h[t] = Delayed
    BY <1>2, <2>1, HomeIs
  <2> HIDE DEF h
  <2>3. QED BY <1>1, <2>2, Names, HousedList
<1>3. ASSUME NEW i \in 1..Len(s)
      PROVE  ticksLeft[s[i]] > 0 /\ (i > 1 => ticksLeft[s[i - 1]] <= ticksLeft[s[i]])
  <2>1. Len(s) \in Nat
    <3> HIDE DEF h
    <3>1. QED BY <1>1, Names, HousedList
  <2>2. i > 1 => i - 1 \in 1..Len(s) /\ i - 1 < i
    BY <2>1
  <2>3. Ascending(s, ticksLeft) /\ ticksLeft[s[i]] > 0
    BY <1>1 DEF Timely
  <2> HIDE DEF s
  <2>4. QED BY <2>2, <2>3 DEF Ascending
<1>4. QED BY <1>2, <1>3 DEF SleepersAccounted

-----------------------------------------------------------------------------
(* The theorems. *)

LEMMA StepSound ==
  ASSUME Disciplined, Sound, [KernelNext]_kernelVars PROVE Sound'
<1>1. PICK x \in Tasks \cup {Null} : KernelInv(x)
  BY DEF Sound
<1>2. \E y \in Tasks \cup {Null} : Keeps(y)
  BY <1>1, KernelStep, StutterKeeps DEF Goes
<1>3. QED BY <1>2 DEF Sound, Keeps

(* The invariant of the kernel: whatever its tasks call and whenever the   *)
(* timer interrupts them, each task is in the one list its state says.     *)
THEOREM KernelSound == ASSUME Disciplined PROVE KernelSpec => []Sound
<1>1. Init => Sound
  BY InitSound DEF Sound
<1>2. Sound /\ [KernelNext]_kernelVars => Sound'
  BY StepSound
<1>3. QED BY <1>1, <1>2, PTL DEF KernelSpec

(* Every variable of the kernel keeps its type: no lapse of next or        *)
(* g_task_count leads the lists astray (task.c, scheduler.c, delay.c).     *)
THEOREM TypesHold == ASSUME Disciplined PROVE KernelSpec => []KernelTypeOK
BY KernelSound, SoundTypes, PTL

(* The lists that share tcb->next never damage one another: none becomes   *)
(* cyclic and no task is in two (scheduler.c, delay.c).                    *)
THEOREM ListsStaySound == ASSUME Disciplined PROVE KernelSpec => []ListsSound
BY KernelSound, SoundLists, PTL

(* The ready queues hold exactly the tasks that may run, each at its level *)
(* (sched_add_ready, sched_remove_ready).                                  *)
THEOREM ReadyQueued == ASSUME Disciplined PROVE KernelSpec => []ReadyExactlyQueued
BY KernelSound, SoundReady, PTL

(* A task that sleeps is in the delay list, in its place, and nobody stays *)
(* there whose tick has passed (delay_add, delay_check_wakeups).           *)
THEOREM SleepersWillWake == ASSUME Disciplined PROVE KernelSpec => []SleepersAccounted
BY KernelSound, SoundSleepers, PTL

(* What a tick or a trapped yield does, whoever calls what else: one step  *)
(* of DispatchesBest.                                                      *)
LEMMA SwitchIsBest ==
  ASSUME Sound, Tick \/ (switchPending /\ \E t \in Tasks : Ecall(t))
  PROVE  /\ state[currentTask'] \in {"READY", "RUNNING", "BLOCKED"}
         /\ \A t \in Tasks : state'[t] = "READY" =>
              Level(priority'[t]) <= Level(priority'[currentTask'])
<1>1. PICK x \in Tasks \cup {Null} : KernelInv(x)
  BY DEF Sound
<1>2. PICK lk : \E st \in [Tasks -> States] :
        /\ Dispatched(lk, st) /\ UNCHANGED priority
        /\ \A t \in Tasks : st[t] # state[t] => state[t] = "BLOCKED"
  <2>1. CASE Tick
    <3>1. PICK lk : \E st \in [Tasks -> States] :
            /\ Dispatched(lk, st)
            /\ \A t \in Tasks : st[t] # state[t] => state[t] = "BLOCKED" /\ obj[t] = Null
      BY <1>1, <2>1, TickDispatches
    <3>2. UNCHANGED priority
      BY <2>1 DEF Tick
    <3>3. QED BY <3>1, <3>2
  <2>2. CASE switchPending /\ \E t \in Tasks : Ecall(t)
    <3>1. PICK t \in Tasks : Ecall(t)
      BY <2>2
    <3>2. Dispatched(links, state) /\ state \in [Tasks -> States] /\ UNCHANGED priority
      BY <1>1, <2>2, <3>1, EcallKeeps DEF Ecall, KernelInv, Types, KernelTypeOK
    <3>3. QED BY <3>2
  <2>3. QED BY <2>1, <2>2
<1>3. QED BY <1>2 DEF Dispatched

(* Each switch goes to a task that may run, of the highest level there is: *)
(* strict priority, preemptive (sched_schedule, select_next_task).         *)
THEOREM SwitchesDispatchBest == ASSUME Disciplined PROVE KernelSpec => DispatchesBest
<1>1. Sound /\ [KernelNext]_kernelVars =>
        [Tick \/ (switchPending /\ \E t \in Tasks : Ecall(t)) =>
           /\ state[currentTask'] \in {"READY", "RUNNING", "BLOCKED"}
           /\ \A t \in Tasks : state'[t] = "READY" =>
                Level(priority'[t]) <= Level(priority'[currentTask'])]_kernelVars
  BY SwitchIsBest
<1>2. QED BY <1>1, KernelSound, PTL DEF KernelSpec, DispatchesBest

(* Only task_create brings a deleted task back.                            *)
LEMMA StepKeepsDeleted ==
  ASSUME Sound, KernelNext, NEW t \in Tasks, state[t] = "DELETED", state'[t] # "DELETED"
  PROVE  taskCount' = taskCount + 1
<1>1. PICK x \in Tasks \cup {Null} : KernelInv(x)
  BY DEF Sound
<1>2. Types /\ Booting /\ Calls
  BY <1>1 DEF KernelInv, Control
<1>3. SUFFICES ASSUME \A u \in Tasks : ~TaskCreate(u) PROVE FALSE
  BY DEF TaskCreate
<1>4. CASE SchedStart
  BY <1>2, <1>4 DEF SchedStart, Booting
<1>5. CASE Tick
  <2>1. PICK lk : \E st \in [Tasks -> States] : Dispatched(lk, st) /\ Preserves(st)
    BY <1>1, <1>5, TickDispatches
  <2>2. QED BY <2>1, SwitchedStates
<1>6. ASSUME NEW u \in Tasks, Ecall(u) PROVE FALSE
  <2>1. switchPending \in BOOLEAN
    BY <1>2 DEF Types, KernelTypeOK
  <2>2. switchPending
    BY <1>1, <1>6, <2>1, EcallKeeps
  <2>3. Dispatched(links, state) /\ Preserves(state)
    BY <1>1, <1>6, <2>2, EcallKeeps DEF Preserves
  <2>4. QED BY <2>3, SwitchedStates
<1>7. ASSUME NEW u \in Tasks, DelayTicks(u) PROVE FALSE
  <2>1. u = t
    BY <1>2, <1>7 DEF DelayTicks, Types, KernelTypeOK
  <2>2. state[u] = "RUNNING"
    BY <1>1, <1>2, <1>7, ExecutesRunning DEF DelayTicks
  <2>3. QED BY <2>1, <2>2
<1>8. ASSUME NEW u \in Tasks, TaskSuspend(u) \/ TaskDelete(u) PROVE FALSE
  <2>1. PICK v \in Suspends[u] \cup Deletes[u], to \in {"SUSPENDED", "DELETED"} : Stop(u, v, to)
    BY <1>8 DEF TaskSuspend, TaskDelete
  <2>2. state[v] # "DELETED" /\ state' = [state EXCEPT ![v] = to]
    BY <2>1 DEF Stop
  <2>3. QED BY <1>2, <2>2 DEF Types, KernelTypeOK
<1>9. ASSUME NEW u \in Tasks, ResumeReady(u) PROVE FALSE
  <2>1. state[obj[u]] = "SUSPENDED" /\ state' = [state EXCEPT ![obj[u]] = "READY"]
    BY <1>2, <1>9 DEF ResumeReady, Executes, Calls
  <2>2. QED BY <1>2, <2>1 DEF Types, KernelTypeOK
<1>10. ASSUME NEW u \in Tasks, TaskYield(u) \/ TaskResume(u) \/ TaskSetPriority(u) PROVE FALSE
  BY <1>10 DEF TaskYield, TaskResume, TaskSetPriority, listVars
<1>11. QED BY <1>3, <1>4, <1>5, <1>6, <1>7, <1>8, <1>9, <1>10 DEF KernelNext

(* A TCB once deleted runs no more code until task_create takes it again   *)
(* (task_delete, task_resume, sched_schedule).                             *)
THEOREM DeletedStaysDeleted == ASSUME Disciplined PROVE KernelSpec => DeletedStays
<1>1. Sound /\ [KernelNext]_kernelVars =>
        [\A t \in Tasks : state[t] = "DELETED" /\ state'[t] # "DELETED" =>
           taskCount' = taskCount + 1]_kernelVars
  BY StepKeepsDeleted
<1>2. QED BY <1>1, KernelSound, PTL DEF KernelSpec, DeletedStays
=============================================================================
