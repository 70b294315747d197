------------------------- MODULE SecureKernelProofs -------------------------
(***************************************************************************)
(* For any tasks, levels, memory map and both builds: if the task that     *)
(* runs first is alone at the highest level, nobody stops a blocked task   *)
(* or the idle task, whoever resumes a task is the only other one that may *)
(* resume or delete it, and with CONFIG_USER_MODE all tasks but the idle   *)
(* task are user tasks, then no task is lost or listed twice and every     *)
(* task can be gone on with where it was left.                             *)
(*                                                                         *)
(* The argument for the lists is that of NanoKernelProofs, but nothing     *)
(* says which list a blocked task waits in: the home h of each task is any *)
(* function that fits the states (Placed). A trap is the argument for the  *)
(* contexts: with the stacks as Contexts has them, the frame goes to the   *)
(* empty stack of the current task, and is the one it started with.        *)
(***************************************************************************)
EXTENDS SecureKernel, TaskListProofs

-----------------------------------------------------------------------------
(* The invariant: lists. *)

None == <<"none", 0>>
Sleepers == {Delayed, Delay}
Apart == ListNames \ ReadyNames

(* List l, or None, is where t belongs, with the states st and priorities  *)
(* pr; x, if not null, runs and is still queued.                           *)
Belongs(l, x, t, st, pr) ==
  /\ t = x => l = Ready(Top(x))
  /\ t # x /\ st[t] = "READY" => l = Ready(Level(pr[t]))
  /\ t # x /\ st[t] = "BLOCKED" => l \in Apart
  /\ t # x /\ st[t] \notin {"READY", "BLOCKED"} => l = None
Placed(h, x, st, pr) == \A t \in Tasks : Belongs(h[t], x, t, st, pr)

(* The lists of sleepers are in order, and nobody in them is due. *)
Ordered(lk, l, left) == /\ Ascending(Chain(lk, l), left)
                        /\ \A i \in 1..Len(Chain(lk, l)) : left[Chain(lk, l)[i]] > 0
Timely(lk, left) == \A l \in Sleepers : Ordered(lk, l, left)

(* Who waits for an object cannot have it. *)
Waiting(h, n, o) == \A t \in Tasks : /\ h[t] = Sem => n = 0
                                     /\ h[t] = Mutex => o \notin {Null, t}

Lists(x, h) == /\ Housed(links, ListNames, h)
               /\ Placed(h, x, state, priority)
               /\ Timely(links, ticksLeft)
               /\ Waiting(h, count, owner)

-----------------------------------------------------------------------------
(* The invariant: control. *)

States == {"FREE", "READY", "RUNNING", "BLOCKED", "SUSPENDED", "DELETED"}
Points == {Point("run"), Point("request"), Point("ecall")} \cup {<<"resume", u>> : u \in Tasks}

Types == /\ userMode \in BOOLEAN /\ userMode \in Builds
         /\ state \in [Tasks -> States] /\ ticksLeft \in [Tasks -> Nat]
         /\ priority \in [Tasks -> Nat] /\ basePriority \in [Tasks -> Nat]
         /\ owner \in Tasks \cup {Null} /\ currentTask \in Tasks \cup {Null}
         /\ switchPending \in BOOLEAN
         /\ pc \in [Tasks -> Points]

Fresh(x) == x # Null => /\ x \in BootTasks /\ Leads(x)
                        /\ currentTask = x /\ state[x] = "RUNNING"
                        /\ owner \in {Null, x}
                        /\ \A u \in Tasks \ {x} : /\ state[u] # "BLOCKED"
                                                  /\ Level(priority[u]) # Top(x)

(* Before sched_start, tasks are only created. *)
Booting == currentTask = Null =>
  /\ \A t \in Tasks : /\ state[t] \in {"FREE", "READY"}
                      /\ priority[t] = InitPriority[t] /\ pc[t] = Point("run")
  /\ owner = Null

(* Whoever is current and not RUNNING is about to give the hart away. *)
Leaving == currentTask # Null /\ state[currentTask] # "RUNNING" =>
  \/ pc[currentTask] = Point("request")
  \/ pc[currentTask] = Point("ecall") /\ switchPending

(* The task that is being resumed is another one, and still suspended. *)
Resuming == \A t, u \in Tasks : pc[t] = <<"resume", u>> =>
  t # u /\ May(t, "resume", u) /\ state[u] = "SUSPENDED"

Control == /\ \A t \in Tasks : /\ state[t] = "RUNNING" => currentTask = t
                               /\ IsUser(t) => pc[t] = Point("run")
           /\ state[Idle] \in {"READY", "RUNNING"}
           /\ Booting /\ Leaving /\ Resuming

-----------------------------------------------------------------------------
(* The invariant: contexts. *)

Stacks == Tasks \X {"kernel", "own"}
Hart == [mode : {"M", "U", "halted"},
         sp : (Stacks \cup {<<Null, "none">>}) \X Nat,
         mscratch : (Stacks \cup {<<Null, "none">>}) \X Nat,
         pmpaddr : {PmpInit}]

(* A task that is left has the frame it started with. *)
Left(t) == /\ frames[FrameStack(t)] = <<FirstFrame(t)>>
           /\ savedSp[t] = <<FrameStack(t), 1>>

(* mscratch while a task runs. *)
ScratchOf(t, scratch) ==
  IF IsUser(t) THEN scratch = <<Kernel(t), 0>>
  ELSE scratch = Zero \/ (userMode /\ t = Idle /\ scratch = <<Own(t), 0>>)

Running(t) == /\ hart.mode = IF IsUser(t) THEN "U" ELSE "M"
              /\ hart.sp = <<Own(t), 0>>
              /\ frames[FrameStack(t)] = <<>>
              /\ ScratchOf(t, hart.mscratch)

Contexts == /\ hart \in Hart
            /\ frames = [s \in Stacks |-> frames[s]]
            /\ savedSp = [t \in Tasks |-> savedSp[t]]
            /\ \A t \in Tasks : Live(t) /\ t # currentTask => Left(t)
            /\ currentTask = Null => hart = BootHart
            /\ currentTask # Null /\ hart.mode # "halted" => Running(currentTask)

KernelInv(x, h) == Types /\ Lists(x, h) /\ Fresh(x) /\ Control
Sound == \E x \in Tasks \cup {Null} : \E h : KernelInv(x, h)

-----------------------------------------------------------------------------
(* Names and homes. *)

LEMMA Names ==
  /\ \A p \in Levels : Ready(p) \in ListNames /\ Ready(p) \in ReadyNames
  /\ Apart = {Delayed, Delay, Sem, Mutex}
  /\ Apart \subseteq ListNames /\ Apart \cap ReadyNames = {}
  /\ None \notin ListNames /\ None \notin ReadyNames /\ None \notin Apart
  /\ ReadyNames \subseteq ListNames
  /\ \A p, q : Ready(p) = Ready(q) => p = q
  /\ \A p : Ready(p) \notin Apart /\ Ready(p) # None
  /\ Delayed # Delay /\ Delayed # Sem /\ Delayed # Mutex
  /\ Delay # Sem /\ Delay # Mutex /\ Sem # Mutex
BY DEF ReadyNames, ListNames, Apart, Ready, Delayed, Delay, Sem, Mutex, None

LEMMA Kernel0 ==
  /\ MaxPriority \in Nat \ {0} /\ Null \notin Tasks /\ Idle \in Tasks /\ Idle \notin BootTasks
  /\ Sleepers \subseteq Apart
BY SecureAssumption, ListAssumption, Names DEF Sleepers

LEMMA TopType == ASSUME NEW t \in Tasks PROVE Top(t) \in Levels /\ Top(t) \in Nat
BY LevelType, SecureAssumption DEF Top

(* Task t moves, and nobody else. *)
Sent(h, t, l) == [u \in Tasks |-> IF u = t THEN l ELSE h[u]]

LEMMA SentMoves ==
  ASSUME NEW h, NEW t \in Tasks, NEW l
  PROVE  /\ Moves(h, Sent(h, t, l), t, l)
         /\ Sent(h, t, l)[t] = l /\ \A u \in Tasks \ {t} : Sent(h, t, l)[u] = h[u]
BY DEF Sent, Moves

LEMMA PlacedSent ==
  ASSUME NEW h, NEW x, NEW y, NEW st1, NEW st2, NEW pr1, NEW pr2, NEW t \in Tasks, NEW l,
         Placed(h, x, st1, pr1),
         \A u \in Tasks \ {t} : /\ st1[u] = st2[u] /\ pr1[u] = pr2[u]
                                /\ u = x <=> u = y,
         Belongs(l, y, t, st2, pr2)
  PROVE  Placed(Sent(h, t, l), y, st2, pr2)
<1>1. ASSUME NEW u \in Tasks, u # t PROVE Belongs(Sent(h, t, l)[u], y, u, st2, pr2)
  BY <1>1, SentMoves DEF Placed, Belongs
<1>2. Belongs(Sent(h, t, l)[t], y, t, st2, pr2)
  <2>1. Sent(h, t, l)[t] = l
    BY DEF Sent
  <2>2. QED BY <2>1
<1>3. QED BY <1>1, <1>2 DEF Placed

(* Nothing that matters to the home of a task has changed. *)
LEMMA PlacedKept ==
  ASSUME NEW h, NEW x, NEW y, NEW st1, NEW st2, NEW pr1, NEW pr2,
         Placed(h, x, st1, pr1),
         \A u \in Tasks : /\ st1[u] = st2[u]
                          /\ u = x <=> u = y
                          /\ st1[u] = "READY" => pr1[u] = pr2[u]
  PROVE  Placed(h, y, st2, pr2)
BY DEF Placed, Belongs

(* Only the ready tasks and the first one belong to the ready queues, only *)
(* blocked ones to other lists.                                            *)
LEMMA Whereabouts ==
  ASSUME NEW h, NEW x, NEW st, NEW pr, Placed(h, x, st, pr), NEW t \in Tasks
  PROVE  /\ \A p : h[t] = Ready(p) => \/ t = x /\ p = Top(x)
                                      \/ t # x /\ st[t] = "READY" /\ p = Level(pr[t])
         /\ h[t] \in Apart => t # x /\ st[t] = "BLOCKED"
         /\ t # x /\ st[t] = "READY" => h[t] = Ready(Level(pr[t]))
         /\ t # x /\ st[t] = "BLOCKED" => h[t] \in Apart
         /\ t # x /\ st[t] \notin {"READY", "BLOCKED"} => h[t] = None
         /\ t = x => h[t] = Ready(Top(x))
<1>1. Belongs(h[t], x, t, st, pr)
  BY DEF Placed
<1>2. QED BY <1>1, Names DEF Belongs

(* Off its ready queue, if it is in one. *)
LEMMA TakenOut ==
  ASSUME NEW lk, NEW h, Housed(lk, ListNames, h), NEW t \in Tasks, NEW pr,
         h[t] \in ReadyNames \/ h[t] = None
  PROVE  /\ Housed(RemoveReady(lk, pr, t), ListNames, Sent(h, t, None))
         /\ Others(RemoveReady(lk, pr, t), lk, Apart)
<1> DEFINE g == Sent(h, t, None)
           new == RemoveReady(lk, pr, t)
<1>1. Moves(h, g, t, None) /\ g[t] = None /\ \A u \in Tasks \ {t} : g[u] = h[u]
  BY SentMoves
<1>2. None \notin ListNames /\ ReadyNames \subseteq ListNames
  BY Names
<1>3. CASE h[t] \in ReadyNames
  <2>1. PICK p \in Levels : h[t] = Ready(p)
    BY <1>3 DEF ReadyNames
  <2> HIDE DEF g
  <2>2. /\ Housed(RemoveReady(lk, pr, t), ListNames, g)
        /\ Shorter(RemoveReady(lk, pr, t), lk, ListNames, Ready(p), Place(lk, Ready(p), t))
    BY <1>1, <1>2, <2>1, RemoveReadyHouses
  <2>3. \A m \in Apart : m \in ListNames /\ m # Ready(p)
    BY <2>1, Names
  <2>4. QED BY <2>2, <2>3 DEF Shorter, Others, g
<1>4. CASE h[t] = None
  <2>1. h[t] \notin ReadyNames
    BY <1>4, Names
  <2>2. new = lk
    BY <1>2, <2>1, RemoveReadyNothing
  <2>3. \A u \in Tasks : g[u] = h[u]
    BY <1>1, <1>4
  <2> HIDE DEF g
  <2>4. Housed(lk, ListNames, g)
    BY <2>3 DEF Housed
  <2>5. QED BY <2>2, <2>4 DEF Others, g
<1>5. QED BY <1>3, <1>4

(* Off its ready queue, if it is in one, and to the end of its own.        *)
LEMMA Requeued ==
  ASSUME NEW lk, NEW h, Housed(lk, ListNames, h), NEW t \in Tasks, NEW pr, pr[t] \in Nat,
         h[t] \in ReadyNames \/ h[t] = None
  PROVE  /\ Housed(Resorted(lk, pr, t), ListNames, Sent(h, t, Ready(Level(pr[t]))))
         /\ Others(Resorted(lk, pr, t), lk, Apart)
<1> DEFINE g == Sent(h, t, Ready(Level(pr[t])))
<1>1. Moves(h, g, t, Ready(Level(pr[t])))
  BY SentMoves
<1>2. /\ MaxPriority \in Nat \ {0} /\ ReadyNames \subseteq ListNames /\ None \notin ListNames
      /\ h[t] \in ReadyNames \/ h[t] \notin ListNames
  BY Names, Kernel0
<1> HIDE DEF g
<1>3. /\ Housed(AddReady(RemoveReady(lk, pr, t), pr, t), ListNames, g)
      /\ Others(AddReady(RemoveReady(lk, pr, t), pr, t), lk, ListNames \ ReadyNames)
  BY <1>1, <1>2, MovedInReady
<1>4. QED BY <1>3 DEF Resorted, Apart, g

(* Into the ready queue of its level. *)
LEMMA Readied ==
  ASSUME NEW lk, NEW h, Housed(lk, ListNames, h), NEW t \in Tasks, NEW pr, pr[t] \in Nat,
         h[t] = None
  PROVE  /\ Housed(AddReady(lk, pr, t), ListNames, Sent(h, t, Ready(Level(pr[t]))))
         /\ Others(AddReady(lk, pr, t), lk, Apart)
<1> DEFINE g == Sent(h, t, Ready(Level(pr[t])))
           l == Ready(Level(pr[t]))
<1>1. Moves(h, g, t, l)
  BY SentMoves
<1>2. h[t] \notin ListNames /\ l \in ListNames
  BY Names, LevelType, Kernel0
<1> HIDE DEF g
<1>3. /\ Housed(AddReady(lk, pr, t), ListNames, g)
      /\ Longer(AddReady(lk, pr, t), lk, ListNames, l, Len(Chain(lk, l)), t)
  BY <1>1, <1>2, AddReadyHouses
<1>4. \A m \in Apart : m \in ListNames /\ m # l
  BY Names
<1>5. QED BY <1>3, <1>4 DEF Longer, Others, g

-----------------------------------------------------------------------------
(* The switch. *)

LEMMA SelectBest ==
  ASSUME NEW lk, NEW h, Housed(lk, ListNames, h), NEW i \in Tasks, h[i] \in ReadyNames
  PROVE  /\ SelectNext(lk) \in Tasks
         /\ \E p \in Levels : /\ h[SelectNext(lk)] = Ready(p)
                              /\ \A u \in Tasks, q \in Levels : h[u] = Ready(q) => q <= p
<1>1. MaxPriority \in Nat \ {0} /\ ReadyNames \subseteq ListNames
  BY Names, Kernel0
<1>2. /\ Used(lk) # {} /\ Highest(lk) \in Levels
      /\ lk.head[Ready(Highest(lk))] \in Tasks
      /\ h[lk.head[Ready(Highest(lk))]] = Ready(Highest(lk))
      /\ \A u \in Tasks, q \in Levels : h[u] = Ready(q) => q <= Highest(lk)
  BY <1>1, HighestLevel
<1>3. SelectNext(lk) = lk.head[Ready(Highest(lk))]
  BY <1>2 DEF SelectNext, Used, Highest
<1>4. QED BY <1>2, <1>3

(* What sched_schedule makes of the lists lk and the states st, in which   *)
(* the current task alone may run, and alone may run and be queued.        *)
Runnable(x, st) == /\ st \in [Tasks -> States] /\ st[Idle] \in {"READY", "RUNNING"}
                   /\ currentTask \in Tasks
                   /\ x = Null \/ (x = currentTask /\ st[x] = "RUNNING")
                   /\ \A t \in Tasks : st[t] = "RUNNING" => t = currentTask

(* Nobody joins a list other than the ready queues. *)
Stay(g, h) == \A t \in Tasks : g[t] \in Apart => g[t] = h[t]

Dispatched(lk, st, h) ==
  /\ \E g : Housed(links', ListNames, g) /\ Placed(g, Null, state', priority) /\ Stay(g, h)
  /\ Others(links', lk, Apart)
  /\ state' \in [Tasks -> States]
  /\ currentTask' \in Tasks /\ state'[currentTask'] = "RUNNING"
  /\ st[currentTask'] \in {"READY", "RUNNING"}
  /\ \A t \in Tasks \ {currentTask'} :
       state'[t] = IF t = currentTask /\ st[t] = "RUNNING" THEN "READY" ELSE st[t]
  /\ switchPending' = FALSE

LEMMA ScheduleDispatches ==
  ASSUME NEW x, NEW lk, NEW st, NEW h, priority \in [Tasks -> Nat], Runnable(x, st),
         Housed(lk, ListNames, h), Placed(h, x, st, priority),
         Schedule(lk, st)
  PROVE  Dispatched(lk, st, h)
<1> DEFINE cur == currentTask
           requeue == st[cur] = "RUNNING"
           ready == [st EXCEPT ![cur] = IF requeue THEN "READY" ELSE @]
           queued == IF requeue THEN Resorted(lk, priority, cur) ELSE lk
           next == SelectNext(queued)
           g == IF requeue THEN Sent(h, cur, Ready(Level(priority[cur]))) ELSE h
<1>1. /\ links' = RemoveReady(queued, priority, next)
      /\ state' = [st EXCEPT ![cur] = IF requeue THEN "READY" ELSE @, ![next] = "RUNNING"]
      /\ currentTask' = next /\ switchPending' = FALSE
  BY Zenon DEF Schedule
<1>2. /\ st \in [Tasks -> States] /\ cur \in Tasks /\ Idle \in Tasks
      /\ ready \in [Tasks -> States] /\ Null \notin Tasks
      /\ \A t \in Tasks : t # cur => ready[t] = st[t]
      /\ ready[cur] = IF requeue THEN "READY" ELSE st[cur]
  BY Kernel0 DEF Runnable, States
<1>3. \A t \in Tasks : ready[t] # "RUNNING"
  BY <1>2 DEF Runnable
<1>4. ready[Idle] = "READY"
  BY <1>2 DEF Runnable
<1>5. state' = [ready EXCEPT ![next] = "RUNNING"]
  BY <1>1, <1>2
<1> HIDE DEF next, ready
<1>6. /\ Housed(queued, ListNames, g) /\ Others(queued, lk, Apart)
      /\ Placed(g, Null, ready, priority) /\ Stay(g, h)
  <2>1. CASE requeue
    <3> DEFINE l == Ready(Level(priority[cur]))
    <3>1. h[cur] \in ReadyNames \/ h[cur] = None
      <4>1. CASE x = cur
        BY <1>2, <4>1, Whereabouts, TopType, Names
      <4>2. CASE x # cur
        BY <1>2, <2>1, <4>2, Whereabouts
      <4>3. QED BY <4>1, <4>2
    <3>2. l \notin Apart
      BY Names
    <3> HIDE DEF cur, requeue
    <3>3. /\ Housed(Resorted(lk, priority, cur), ListNames, Sent(h, cur, l))
          /\ Others(Resorted(lk, priority, cur), lk, Apart)
      BY <1>2, <3>1, Requeued
    <3>4. Belongs(l, Null, cur, ready, priority)
      BY <1>2, <2>1 DEF Belongs
    <3>5. \A u \in Tasks \ {cur} : /\ st[u] = ready[u] /\ priority[u] = priority[u]
                                   /\ u = x <=> u = Null
      BY <1>2 DEF Runnable, cur
    <3> HIDE DEF l
    <3>6. Placed(Sent(h, cur, l), Null, ready, priority)
      BY <1>2, <3>4, <3>5, PlacedSent
    <3>7. Stay(Sent(h, cur, l), h)
      BY <3>2 DEF Stay, Sent
    <3>8. QED BY <2>1, <3>3, <3>6, <3>7 DEF l
  <2>2. CASE ~requeue
    <3>1. ready = st /\ x = Null
      BY <1>2, <2>2 DEF Runnable, ready
    <3>2. QED BY <2>2, <3>1 DEF Others, Stay
  <2>3. QED BY <2>1, <2>2
<1> HIDE DEF queued, g
<1>7. next \in Tasks /\ ready[next] = "READY" /\ g[next] \in ReadyNames
  <2>1. g[Idle] \in ReadyNames
    <3>1. g[Idle] = Ready(Level(priority[Idle])) /\ Level(priority[Idle]) \in Levels
      BY <1>2, <1>4, <1>6, Whereabouts, LevelType, Kernel0
    <3>2. QED BY <3>1, Names
  <2>2. PICK p \in Levels : next \in Tasks /\ g[next] = Ready(p)
    BY <1>2, <1>6, <2>1, SelectBest DEF next
  <2>3. next # Null
    BY <1>2, <2>2
  <2>4. ready[next] = "READY"
    BY <1>6, <2>2, <2>3, Whereabouts
  <2>5. QED BY <2>2, <2>4, Names
<1> DEFINE f == Sent(g, next, None)
<1>8. Housed(links', ListNames, f) /\ Others(links', lk, Apart)
  <2>1. /\ Housed(RemoveReady(queued, priority, next), ListNames, f)
        /\ Others(RemoveReady(queued, priority, next), queued, Apart)
    BY <1>6, <1>7, TakenOut
  <2>2. Others(queued, lk, Apart)
    BY <1>6
  <2>3. QED BY <1>1, <2>1, <2>2, OthersTrans
<1>9. Placed(f, Null, state', priority)
  <2>1. Belongs(None, Null, next, state', priority)
    BY <1>2, <1>5, <1>7 DEF Belongs
  <2>2. \A u \in Tasks \ {next} : /\ ready[u] = state'[u] /\ priority[u] = priority[u]
                                  /\ u = Null <=> u = Null
    BY <1>2, <1>5
  <2>3. QED BY <1>6, <1>7, <2>1, <2>2, PlacedSent
<1>10. Stay(f, h)
  BY <1>6, Names DEF Stay, Sent
<1>11. state' \in [Tasks -> States] /\ state'[next] = "RUNNING"
  BY <1>2, <1>5, <1>7 DEF States
<1>12. st[next] \in {"READY", "RUNNING"}
  BY <1>2, <1>7
<1>13. \A t \in Tasks \ {next} :
         state'[t] = IF t = cur /\ st[t] = "RUNNING" THEN "READY" ELSE st[t]
  BY <1>2, <1>5
<1>14. QED BY <1>1, <1>7, <1>8, <1>9, <1>10, <1>11, <1>12, <1>13 DEF Dispatched

-----------------------------------------------------------------------------
(* Waking. *)

LEMMA PlacedReadied ==
  ASSUME NEW h, NEW x, NEW st, NEW pr, Placed(h, x, st, pr), NEW u \in Tasks, u # x,
         NEW after, after[u] = "READY", \A v \in Tasks \ {u} : after[v] = st[v]
  PROVE  Placed(Sent(h, u, Ready(Level(pr[u]))), x, after, pr)
<1>1. Belongs(Ready(Level(pr[u])), x, u, after, pr)
  BY DEF Belongs
<1>2. \A v \in Tasks \ {u} : /\ st[v] = after[v] /\ pr[v] = pr[v]
                             /\ v = x <=> v = x
  OBVIOUS
<1>3. QED BY <1>1, <1>2, PlacedSent

(* The head of a list of sleepers or waiters joins its ready queue. *)
WokenLists(lk, l, pr) == AddReady(Pop(lk, l), pr, lk.head[l])
WokenHome(lk, l, pr, h) == Sent(h, lk.head[l], Ready(Level(pr[lk.head[l]])))

LEMMA FirstWoken ==
  ASSUME NEW lk, NEW h, NEW x, NEW st, NEW pr, pr \in [Tasks -> Nat],
         Housed(lk, ListNames, h), Placed(h, x, st, pr),
         NEW l \in Apart, lk.head[l] # Null
  PROVE  /\ lk.head[l] \in Tasks /\ lk.head[l] # x
         /\ st[lk.head[l]] = "BLOCKED" /\ h[lk.head[l]] = l
         /\ Len(Chain(lk, l)) > 0
         /\ Housed(WokenLists(lk, l, pr), ListNames, WokenHome(lk, l, pr, h))
         /\ Stay(WokenHome(lk, l, pr, h), h)
         /\ Chain(WokenLists(lk, l, pr), l) = Without(Chain(lk, l), 1)
         /\ Others(WokenLists(lk, l, pr), lk, Apart \ {l})
<1> PICK u : u = lk.head[l]
  OBVIOUS
<1> DEFINE f == Sent(h, u, None)
           new == AddReady(Pop(lk, l), pr, u)
           r == Ready(Level(pr[u]))
           g == Sent(h, u, r)
           popped == Pop(lk, l)
<1>1. l \in ListNames /\ None \notin ListNames
  BY Names
<1>2. /\ u \in Tasks /\ h[u] = l
      /\ Len(Chain(lk, l)) > 0
      /\ Housed(Pop(lk, l), ListNames, f)
      /\ Shorter(Pop(lk, l), lk, ListNames, l, 1)
  <2>1. \A v \in Tasks : Moves(h, Sent(h, v, None), v, None)
    BY SentMoves
  <2>2. u \in Tasks
    <3>1. lk.head[l] = At(Chain(lk, l), 1)
          /\ \A i \in 1..Len(Chain(lk, l)) : Chain(lk, l)[i] \in Tasks
      BY <1>1, HousedList
    <3>2. QED BY <3>1 DEF At
  <2> HIDE DEF f
  <2>3. Moves(h, f, u, None)
    BY <2>1, <2>2 DEF f
  <2>4. Moves(h, f, lk.head[l], None)
    BY <2>3
  <2>5. /\ lk.head[l] \in Tasks /\ h[lk.head[l]] = l
        /\ Len(Chain(lk, l)) > 0 /\ lk.head[l] = Chain(lk, l)[1]
        /\ Housed(Pop(lk, l), ListNames, f)
        /\ Shorter(Pop(lk, l), lk, ListNames, l, 1)
    <3>1. Housed(lk, ListNames, h)
      OBVIOUS
    <3>2. l \in ListNames
      BY <1>1
    <3>3. None \notin ListNames
      BY <1>1
    <3>4. lk.head[l] # Null
      OBVIOUS
    <3>5. QED BY <2>4, <3>1, <3>2, <3>3, <3>4, PopHouses
  <2>6. QED BY <2>5
<1>3. u # x /\ st[u] = "BLOCKED"
  BY <1>2, Whereabouts
<1>4. r \notin Apart /\ \A m \in Apart : m \in ListNames /\ m # r
  BY Names
<1>5. /\ Housed(AddReady(popped, pr, u), ListNames, Sent(f, u, r))
      /\ Others(AddReady(popped, pr, u), popped, Apart)
  <2>1. f[u] = None /\ pr[u] \in Nat
    BY <1>2 DEF Sent
  <2> HIDE DEF f, popped
  <2>2. Housed(popped, ListNames, f)
    BY <1>2 DEF popped
  <2>3. QED BY <1>2, <2>1, <2>2, Readied
<1>6. Sent(f, u, r) = g
  BY DEF Sent
<1>7. Stay(g, h)
  BY <1>4 DEF Stay, Sent
<1> HIDE DEF popped, f, g, r
<1>8. /\ Chain(new, l) = Without(Chain(lk, l), 1)
      /\ Others(new, lk, Apart \ {l})
  BY <1>2, <1>4, <1>5 DEF Shorter, Others, popped
<1>9. Housed(new, ListNames, g)
  BY <1>5, <1>6 DEF popped
<1>10. WokenLists(lk, l, pr) = new /\ WokenHome(lk, l, pr, h) = g
  BY DEF WokenLists, WokenHome, g, r
<1> HIDE DEF new
<1>11. QED BY <1>2, <1>3, <1>7, <1>8, <1>9, <1>10

(* What the walk over the list of sleepers m has reached, from the lists   *)
(* old on, when the states of woken tasks have been changed in j.          *)
Woken(st) == /\ st \in [Tasks -> States]
             /\ \A t \in Tasks : st[t] # state[t] => state[t] = "BLOCKED" /\ st[t] = "READY"
Waking(x, h, old, m, left, j) ==
  /\ \E g : Housed(j.links, ListNames, g) /\ Placed(g, x, j.state, priority) /\ Stay(g, h)
  /\ Woken(j.state)
  /\ Ascending(Chain(j.links, m), left)
  /\ Others(j.links, old, Apart \ {m})
Due(j, m, left) == j.links.head[m] # Null /\ ~(left[j.links.head[m]] > 0)
WakeNext(j, m) == MakeReady(Pop(j.links, m), j.state, j.links.head[m])

LEMMA NextWakes ==
  ASSUME NEW x, NEW h, NEW old, NEW m \in Sleepers, NEW left, priority \in [Tasks -> Nat],
         NEW j, Waking(x, h, old, m, left, j), Due(j, m, left)
  PROVE  /\ Waking(x, h, old, m, left, WakeNext(j, m))
         /\ Len(Chain(WakeNext(j, m).links, m)) = Len(Chain(j.links, m)) - 1
         /\ WakeNext(j, m) \in [links : Links(ListNames), state : [Tasks -> States]]
<1> DEFINE u == j.links.head[m]
           new == AddReady(Pop(j.links, m), priority, u)
           after == [j.state EXCEPT ![u] = "READY"]
<1>1. WakeNext(j, m) = [links |-> new, state |-> after]
  BY DEF WakeNext, MakeReady
<1>2. PICK g : Housed(j.links, ListNames, g) /\ Placed(g, x, j.state, priority) /\ Stay(g, h)
  BY DEF Waking
<1> DEFINE f == Sent(g, u, Ready(Level(priority[u])))
<1>3. m \in Apart /\ m \in ListNames /\ u # Null /\ j.state \in [Tasks -> States]
  BY Kernel0, Names DEF Due, Waking, Woken
<1>4. /\ u \in Tasks /\ u # x /\ j.state[u] = "BLOCKED" /\ g[u] = m
      /\ Len(Chain(j.links, m)) > 0
      /\ Housed(new, ListNames, f)
      /\ Placed(f, x, after, priority)
      /\ Stay(f, g)
      /\ Chain(new, m) = Without(Chain(j.links, m), 1)
      /\ Others(new, j.links, Apart \ {m})
  <2> DEFINE lk == j.links
             st == j.state
  <2>1. Housed(lk, ListNames, g) /\ Placed(g, x, st, priority) /\ st \in [Tasks -> States]
    BY <1>2, <1>3
  <2>2. m \in Apart /\ lk.head[m] # Null
    BY <1>3
  <2> HIDE DEF lk, st
  <2>3. /\ lk.head[m] \in Tasks /\ lk.head[m] # x
        /\ st[lk.head[m]] = "BLOCKED" /\ g[lk.head[m]] = m
        /\ Len(Chain(lk, m)) > 0
        /\ Housed(WokenLists(lk, m, priority), ListNames, WokenHome(lk, m, priority, g))
        /\ Stay(WokenHome(lk, m, priority, g), g)
        /\ Chain(WokenLists(lk, m, priority), m) = Without(Chain(lk, m), 1)
        /\ Others(WokenLists(lk, m, priority), lk, Apart \ {m})
    BY <2>1, <2>2, FirstWoken
  <2>4. u = lk.head[m] /\ new = WokenLists(lk, m, priority) /\ f = WokenHome(lk, m, priority, g)
    BY DEF lk, WokenLists, WokenHome
  <2> HIDE DEF u
  <2>5. after[u] = "READY" /\ \A v \in Tasks \ {u} : after[v] = st[v]
    BY <2>1, <2>3, <2>4 DEF st
  <2> HIDE DEF new, after
  <2>6. Placed(f, x, after, priority)
    BY <2>1, <2>3, <2>4, <2>5, PlacedReadied
  <2> HIDE DEF f
  <2>7. QED BY <2>3, <2>4, <2>6 DEF lk, st
<1> HIDE DEF u, new, after, f
<1>5. /\ Chain(j.links, m) \in Seq(Tasks) /\ NoTwice(Chain(j.links, m))
      /\ 1 \in 1..Len(Chain(j.links, m))
  <2>1. Len(Chain(j.links, m)) \in Nat /\ Chain(j.links, m) \in Seq(Tasks)
        /\ NoTwice(Chain(j.links, m))
    BY <1>2, <1>3, HousedList
  <2>2. QED BY <1>4, <2>1
<1>6. /\ Ascending(Chain(new, m), left)
      /\ Len(Chain(new, m)) = Len(Chain(j.links, m)) - 1
  <2>1. Ascending(Chain(j.links, m), left)
    BY DEF Waking
  <2>2. Ascending(Without(Chain(j.links, m), 1), left)
    BY <1>5, <2>1, AscendingWithout
  <2>3. Len(Without(Chain(j.links, m), 1)) = Len(Chain(j.links, m)) - 1
    BY <1>5, WithoutShape
  <2>4. QED BY <1>4, <2>2, <2>3
<1>7. Others(new, old, Apart \ {m})
  BY <1>4, OthersTrans DEF Waking
<1>8. Woken(after)
  <2>1. Woken(j.state)
    BY DEF Waking
  <2>2. state[u] = "BLOCKED"
    BY <1>4, <2>1 DEF Woken
  <2>3. QED BY <1>4, <2>1, <2>2 DEF Woken, after, States
<1>9. Stay(f, h)
  BY <1>2, <1>4 DEF Stay
<1>10. new \in Links(ListNames) /\ after \in [Tasks -> States]
  BY <1>4, <1>8 DEF Housed, Woken
<1>11. QED BY <1>1, <1>4, <1>6, <1>7, <1>8, <1>9, <1>10 DEF Waking

(* A list of sleepers is woken until nobody in it is due. *)
LEMMA WakeHouses ==
  ASSUME NEW x, NEW h, NEW m \in Sleepers, NEW left \in [Tasks -> Nat],
         priority \in [Tasks -> Nat],
         NEW k \in [links : Links(ListNames), state : [Tasks -> States]],
         Waking(x, h, k.links, m, left, k)
  PROVE  /\ Waking(x, h, k.links, m, left, Wake(k, m, left))
         /\ Wake(k, m, left) \in [links : Links(ListNames), state : [Tasks -> States]]
         /\ Ordered(Wake(k, m, left).links, m, left)
<1> DEFINE C == Cardinality(Tasks)
           K == [links : Links(ListNames), state : [Tasks -> States]]
           D == {j \in K : Waking(x, h, k.links, m, left, j)}
           step == [j \in D |-> IF Due(j, m, left) THEN WakeNext(j, m) ELSE j]
           Walk(f) == f = [n \in 0..C |->
                        IF n = 0 THEN k
                        ELSE LET j == f[n - 1]
                                 t == j.links.head[m]
                             IN  IF t = Null \/ left[t] > 0 THEN j
                                 ELSE MakeReady(Pop(j.links, m), j.state, t)]
           wake == CHOOSE f : Walk(f)
<1>1. C \in Nat /\ Len(Chain(k.links, m)) \in Nat /\ Len(Chain(k.links, m)) <= C
  <2>1. PICK g : Housed(k.links, ListNames, g)
    BY DEF Waking
  <2>2. m \in ListNames
    BY Kernel0, Names
  <2>3. Chain(k.links, m) \in Seq(Tasks) /\ NoTwice(Chain(k.links, m))
        /\ Len(Chain(k.links, m)) \in Nat
    BY <2>1, <2>2, HousedList
  <2>4. QED BY <2>3, ShortEnough
<1>2. k \in D
  OBVIOUS
<1>3. ASSUME NEW j \in D, Due(j, m, left)
      PROVE  WakeNext(j, m) \in D
  <2>1. Waking(x, h, k.links, m, left, j)
    OBVIOUS
  <2>2. Waking(x, h, k.links, m, left, WakeNext(j, m)) /\ WakeNext(j, m) \in K
    BY <1>3, <2>1, NextWakes
  <2>3. QED BY <2>2
<1>4. step \in [D -> D]
  <2> HIDE DEF D
  <2>1. QED BY <1>3
<1>5. PICK f \in [0..C -> D] : f[0] = k /\ \A n \in 1..C : f[n] = step[f[n - 1]]
  <2>1. Iterations(C, D, k, step) # {}
    <3> HIDE DEF C, D, step
    <3>1. QED BY <1>1, <1>2, <1>4, Iterates
  <2> HIDE DEF C, D, step
  <2>2. QED BY <2>1 DEF Iterations
<1>6. Walk(f)
  <2>1. ASSUME NEW n \in 0..C, n # 0
        PROVE  f[n] = LET j == f[n - 1]
                          t == j.links.head[m]
                      IN  IF t = Null \/ left[t] > 0 THEN j
                          ELSE MakeReady(Pop(j.links, m), j.state, t)
    <3>1. n - 1 \in 0..C /\ n \in 1..C
      BY <1>1, <2>1
    <3>2. f[n - 1] \in D
      <4> HIDE DEF D
      <4>1. QED BY <3>1
    <3>3. f[n] = step[f[n - 1]]
      BY <1>5, <3>1
    <3> HIDE DEF D
    <3>4. QED BY <3>2, <3>3 DEF Due, WakeNext
  <2> HIDE DEF D, step
  <2>2. QED BY <1>5, <2>1
<1>7. Walk(wake)
  <2> HIDE DEF Walk
  <2>1. QED BY <1>6
<1>8. Wake(k, m, left) = wake[C]
  BY DEF Wake
<1> HIDE DEF wake
<1>9. wake[0] = k
  BY <1>1, <1>7
<1>10. ASSUME NEW n \in 1..C
       PROVE  wake[n] = IF Due(wake[n - 1], m, left) THEN WakeNext(wake[n - 1], m) ELSE wake[n - 1]
  <2> DEFINE j == wake[n - 1]
             t == j.links.head[m]
  <2>1. n \in 0..C /\ n # 0
    BY <1>1
  <2>2. wake[n] = IF t = Null \/ left[t] > 0 THEN j
                  ELSE MakeReady(Pop(j.links, m), j.state, t)
    BY <1>7, <2>1
  <2>3. QED BY <2>2 DEF Due, WakeNext
<1> DEFINE length(j) == Len(Chain(j.links, m))
           Good(n) == /\ wake[n] \in K /\ Waking(x, h, k.links, m, left, wake[n])
                      /\ Due(wake[n], m, left) => length(wake[n]) = length(k) - n
           S == {n \in 0..C : Good(n)}
<1>11. 0 \in S
  BY <1>1, <1>2, <1>9
<1>12. ASSUME NEW n \in 1..C, n - 1 \in S PROVE n \in S
  <2>1. Good(n - 1) /\ length(k) \in Nat /\ n \in Int /\ n \in 0..C
    BY <1>1, <1>12
  <2>2. CASE ~Due(wake[n - 1], m, left)
    <3>1. wake[n] = wake[n - 1]
      BY <1>10, <2>2
    <3>2. QED BY <2>1, <2>2, <3>1
  <2>3. CASE Due(wake[n - 1], m, left)
    <3>1. wake[n] = WakeNext(wake[n - 1], m)
      BY <1>10, <2>3
    <3>2. Waking(x, h, k.links, m, left, wake[n - 1])
      BY <2>1
    <3>3. /\ Waking(x, h, k.links, m, left, wake[n]) /\ wake[n] \in K
          /\ length(wake[n]) = length(wake[n - 1]) - 1
      <4> HIDE DEF C, D, Good, S
      <4>1. PICK i : i = wake[n - 1]
        OBVIOUS
      <4>2. /\ Waking(x, h, k.links, m, left, WakeNext(i, m))
            /\ Len(Chain(WakeNext(i, m).links, m)) = Len(Chain(i.links, m)) - 1
            /\ WakeNext(i, m) \in K
        BY <2>3, <3>2, <4>1, NextWakes
      <4>3. QED BY <3>1, <4>1, <4>2
    <3>4. length(wake[n - 1]) = length(k) - (n - 1)
      BY <2>1, <2>3
    <3> HIDE DEF length
    <3>5. length(wake[n]) = length(k) - n
      BY <2>1, <3>3, <3>4
    <3>6. QED BY <2>1, <3>3, <3>5
  <2>4. QED BY <2>2, <2>3
<1>13. 0..C \subseteq S
  <2> HIDE DEF S
  <2>1. QED BY <1>1, <1>11, <1>12, UpTo
<1> DEFINE j == wake[C]
           s == Chain(j.links, m)
<1>14. Good(C)
  <2>1. C \in 0..C
    BY <1>1
  <2>2. C \in S
    BY <1>13, <2>1
  <2> HIDE DEF Good
  <2>3. QED BY <2>2
<1>15. /\ s \in Seq(Tasks) /\ Len(s) \in Nat /\ j.links.head[m] = At(s, 1)
       /\ \A i \in 1..Len(s) : s[i] \in Tasks
  <2>1. PICK g : Housed(j.links, ListNames, g)
    BY <1>14 DEF Waking
  <2>2. m \in ListNames
    BY Kernel0, Names
  <2> HIDE DEF j
  <2>3. QED BY <2>1, <2>2, HousedList
<1>16. ~Due(j, m, left)
  <2>1. SUFFICES ASSUME Due(j, m, left) PROVE FALSE
    OBVIOUS
  <2>2. Len(s) = length(k) - C /\ length(k) <= C /\ length(k) \in Nat
    BY <1>1, <1>14, <2>1
  <2>3. Len(s) = 0
    <3> HIDE DEF s, length, C
    <3>1. QED BY <1>1, <1>15, <2>2
  <2>4. j.links.head[m] = Null
    <3> HIDE DEF s, j
    <3>1. QED BY <1>15, <2>3 DEF At
  <2>5. QED BY <2>1, <2>4 DEF Due
<1>17. Ascending(s, left) /\ \A i \in 1..Len(s) : left[s[i]] > 0
  <2> HIDE DEF j
  <2>1. Ascending(s, left)
    BY <1>14 DEF Waking, j
  <2> HIDE DEF s
  <2>2. ASSUME NEW i \in 1..Len(s) PROVE left[s[i]] > 0
    <3>1. 1 \in 1..Len(s) /\ s[1] \in Tasks
      BY <1>15
    <3>2. j.links.head[m] = s[1] /\ s[1] # Null
      BY <1>15, <3>1, Kernel0 DEF At
    <3>3. left[s[1]] > 0
      BY <1>16, <3>2 DEF Due
    <3>4. 1 < i => left[s[1]] <= left[s[i]]
      BY <2>1, <3>1 DEF Ascending
    <3>5. s[i] \in Tasks /\ (1 < i \/ i = 1)
      BY <1>15
    <3>6. QED BY <3>1, <3>3, <3>4, <3>5
  <2>3. QED BY <2>1, <2>2
<1>18. QED BY <1>8, <1>14, <1>17 DEF Ordered

-----------------------------------------------------------------------------
(* Sleepers. *)

LEMMA OrderedKept ==
  ASSUME NEW lk, NEW h, Housed(lk, ListNames, h), NEW l \in ListNames, NEW left, NEW after, NEW new,
         Ordered(lk, l, left), Chain(new, l) = Chain(lk, l),
         \A t \in Tasks : h[t] = l => after[t] = left[t]
  PROVE  Ordered(new, l, after)
<1>1. \A i \in 1..Len(Chain(lk, l)) : Chain(lk, l)[i] \in Tasks /\ h[Chain(lk, l)[i]] = l
  BY HousedList
<1>2. \A i \in 1..Len(Chain(lk, l)) : after[Chain(lk, l)[i]] = left[Chain(lk, l)[i]]
  BY <1>1
<1>3. QED BY <1>2 DEF Ordered, Ascending

LEMMA TimelyKept ==
  ASSUME NEW lk, NEW h, Housed(lk, ListNames, h), NEW left, NEW after, NEW new,
         Timely(lk, left), Others(new, lk, Sleepers),
         \A t \in Tasks : h[t] \in Sleepers => after[t] = left[t]
  PROVE  Timely(new, after)
<1>1. ASSUME NEW l \in Sleepers PROVE Ordered(new, l, after)
  <2>1. l \in ListNames /\ Ordered(lk, l, left) /\ Chain(new, l) = Chain(lk, l)
    BY Kernel0, Names DEF Timely, Others
  <2>2. \A t \in Tasks : h[t] = l => after[t] = left[t]
    OBVIOUS
  <2>3. QED BY <2>1, <2>2, OrderedKept
<1>2. QED BY <1>1 DEF Timely

(* A sleeper goes behind those whose tick is not after its own.            *)
LEMMA TimelyInserted ==
  ASSUME NEW lk, NEW h, Housed(lk, ListNames, h), NEW left \in [Tasks -> Nat], Timely(lk, left),
         NEW l \in Sleepers, NEW t \in Tasks, h[t] \notin Sleepers, NEW ticks \in Nat \ {0},
         NEW after, after = [left EXCEPT ![t] = ticks],
         NEW passed, passed = {u \in Tasks : left[u] <= ticks},
         NEW new, Chain(new, l) = Inserted(Chain(lk, l), Passing(lk, l, passed), t),
         Others(new, lk, Sleepers \ {l})
  PROVE  Timely(new, after)
<1> DEFINE s == Chain(lk, l)
           n == Passing(lk, l, passed)
           r == Inserted(s, n, t)
<1>1. l \in ListNames
  BY Kernel0, Names
<1>2. /\ s \in Seq(Tasks) /\ Len(s) \in Nat
      /\ \A i \in 1..Len(s) : s[i] \in Tasks /\ s[i] # t
  <2>1. /\ s \in Seq(Tasks) /\ Len(s) \in Nat
        /\ \A i \in 1..Len(s) : s[i] \in Tasks /\ h[s[i]] = l
    BY <1>1, HousedList
  <2>2. QED BY <2>1
<1>3. /\ n \in 0..Len(s)
      /\ \A j \in 1..n : s[j] \in passed
      /\ n < Len(s) => s[n + 1] \notin passed
  BY <1>1, PassingPlace
<1>4. /\ after \in [Tasks -> Int] /\ after[t] = ticks /\ ticks > 0
      /\ \A u \in Tasks \ {t} : after[u] = left[u]
  OBVIOUS
<1>5. Ascending(s, left) /\ \A i \in 1..Len(s) : left[s[i]] > 0
  BY DEF Timely, Ordered
<1> HIDE DEF n, s
<1>6. Ascending(s, after)
  BY <1>2, <1>4, <1>5 DEF Ascending
<1>7. \A j \in 1..n : after[s[j]] <= after[t]
  BY <1>2, <1>3, <1>4
<1>8. n < Len(s) => after[t] <= after[s[n + 1]]
  <2>1. SUFFICES ASSUME n < Len(s) PROVE after[t] <= after[s[n + 1]]
    OBVIOUS
  <2>2. n + 1 \in 1..Len(s)
    BY <1>2, <1>3, <2>1
  <2>3. s[n + 1] \in Tasks \ {t} /\ ~(left[s[n + 1]] <= ticks)
    BY <1>2, <1>3, <2>1, <2>2
  <2>4. QED BY <1>4, <2>3
<1>9. Ascending(r, after)
  BY <1>2, <1>3, <1>4, <1>6, <1>7, <1>8, AscendingInserted
<1>10. ASSUME NEW i \in 1..Len(r) PROVE after[r[i]] > 0
  <2>1. /\ r \in Seq(Tasks)
        /\ \A u \in Tasks : Member(r, u) <=> u = t \/ Member(s, u)
    BY <1>2, <1>3, InsertedShape
  <2> HIDE DEF r
  <2>2. r[i] \in Tasks /\ Member(r, r[i])
    <3>1. \A j \in 1..Len(r) : r[j] \in Tasks
      BY <2>1, TypeOfSeq
    <3>2. QED BY <3>1 DEF Member
  <2>3. r[i] = t \/ Member(s, r[i])
    BY <2>1, <2>2
  <2>4. CASE r[i] = t
    BY <1>4, <2>4
  <2>5. CASE Member(s, r[i])
    <3>1. PICK j \in 1..Len(s) : s[j] = r[i]
      BY <2>5 DEF Member
    <3>2. QED BY <1>2, <1>4, <1>5, <3>1
  <2>6. QED BY <2>3, <2>4, <2>5
<1>11. Ordered(new, l, after)
  <2>1. Chain(new, l) = r
    BY DEF s, n
  <2> HIDE DEF r
  <2>2. QED BY <1>9, <1>10, <2>1 DEF Ordered
<1>12. ASSUME NEW m \in Sleepers, m # l PROVE Ordered(new, m, after)
  <2>1. m \in ListNames /\ Ordered(lk, m, left) /\ Chain(new, m) = Chain(lk, m)
    BY <1>12, Kernel0, Names DEF Timely, Others
  <2>2. \A u \in Tasks : h[u] = m => after[u] = left[u]
    BY <1>4
  <2>3. QED BY <2>1, <2>2, OrderedKept
<1>13. QED BY <1>11, <1>12 DEF Timely

LEMMA WaitingKept ==
  ASSUME NEW g, NEW h, NEW n, NEW o, Waiting(h, n, o), Stay(g, h)
  PROVE  Waiting(g, n, o)
BY Names DEF Waiting, Stay

-----------------------------------------------------------------------------
(* The steps that switch keep the invariant. *)

LEMMA PointsDiffer ==
  /\ Point("run") # Point("request") /\ Point("run") # Point("ecall")
  /\ Point("request") # Point("ecall")
  /\ Point("run") \in Points /\ Point("request") \in Points /\ Point("ecall") \in Points
  /\ \A u : /\ <<"resume", u>> # Point("run") /\ <<"resume", u>> # Point("request")
            /\ <<"resume", u>> # Point("ecall")
            /\ u \in Tasks => <<"resume", u>> \in Points
            /\ \A v : <<"resume", u>> = <<"resume", v>> => u = v
BY DEF Point, Points

LEMMA SwitchKeeps ==
  ASSUME Types, Control, NEW lk, NEW st, NEW h, Dispatched(lk, st, h),
         st \in [Tasks -> States], currentTask \in Tasks,
         Waiting(h, count, owner), Timely(lk, ticksLeft'), ticksLeft' \in [Tasks -> Nat],
         \A t \in Tasks : /\ state[t] = "SUSPENDED" => st[t] = "SUSPENDED"
                          /\ st[t] = "RUNNING" => t = currentTask,
         st[Idle] \in {"READY", "RUNNING"},
         pc' \in [Tasks -> Points], \A t \in Tasks : pc'[t] \in {pc[t], Point("run")},
         UNCHANGED <<userMode, priority, basePriority, count, owner>>
  PROVE  Sound'
<1>1. /\ Others(links', lk, Apart)
      /\ state' \in [Tasks -> States]
      /\ currentTask' \in Tasks /\ state'[currentTask'] = "RUNNING"
      /\ st[currentTask'] \in {"READY", "RUNNING"}
      /\ \A t \in Tasks \ {currentTask'} :
           state'[t] = IF t = currentTask /\ st[t] = "RUNNING" THEN "READY" ELSE st[t]
      /\ switchPending' = FALSE
  BY DEF Dispatched
<1>2. PICK g : Housed(links', ListNames, g) /\ Placed(g, Null, state', priority) /\ Stay(g, h)
  BY DEF Dispatched
<1>3. Lists(Null, g)'
  <2>1. Waiting(g, count, owner)
    BY <1>2, WaitingKept
  <2>2. Timely(links', ticksLeft')
    <3>1. PICK left : left = ticksLeft'
      OBVIOUS
    <3>2. \A l \in Sleepers : Chain(links', l) = Chain(lk, l)
      BY <1>1, Kernel0 DEF Others
    <3>3. QED BY <3>2 DEF Timely, Ordered
  <2>3. QED BY <1>2, <2>1, <2>2 DEF Lists
<1>4. Types'
  BY <1>1 DEF Types
<1>5. Fresh(Null)'
  BY DEF Fresh
<1>6. Control'
  <2>1. ASSUME NEW t \in Tasks
        PROVE  /\ state'[t] = "RUNNING" => currentTask' = t
               /\ IsUser(t)' => pc'[t] = Point("run")
    BY <1>1 DEF Control, IsUser
  <2>2. state'[Idle] \in {"READY", "RUNNING"}
    BY <1>1, Kernel0
  <2>3. Booting' /\ Leaving'
    BY <1>1, Kernel0 DEF Booting, Leaving
  <2>4. Resuming'
    <3>1. ASSUME NEW t \in Tasks, NEW u \in Tasks, pc'[t] = <<"resume", u>>
          PROVE  t # u /\ May(t, "resume", u) /\ state'[u] = "SUSPENDED"
      <4>1. pc[t] = <<"resume", u>>
        BY <3>1, PointsDiffer
      <4>2. t # u /\ May(t, "resume", u) /\ state[u] = "SUSPENDED" /\ st[u] = "SUSPENDED"
        BY <4>1 DEF Control, Resuming
      <4>3. QED BY <1>1, <4>2
    <3>2. QED BY <3>1 DEF Resuming
  <2>5. QED BY <2>1, <2>2, <2>3, <2>4 DEF Control
<1>7. KernelInv(Null, g)'
  BY <1>3, <1>4, <1>5, <1>6 DEF KernelInv
<1>8. QED BY <1>7 DEF Sound

(* The trap of the current task leaves the lists lk and the states st to   *)
(* sched_schedule, and no other task has come to life since.               *)
Harmless(st) == \A t \in Tasks \ {currentTask} :
                  st[t] \notin {"FREE", "DELETED"} => Live(t)
Switched == \E lk : \E st : \E h : Dispatched(lk, st, h) /\ Harmless(st) /\ Schedule(lk, st)

LEMMA TickKeeps ==
  ASSUME NEW x \in Tasks \cup {Null}, NEW h, KernelInv(x, h), Timer
  PROVE  Sound' /\ Switched
<1> DEFINE left == ticksLeft'
           K == [links : Links(ListNames), state : [Tasks -> States]]
           k0 == [links |-> links, state |-> state]
           k1 == CheckDelayed(left)
           k2 == TickIncrement(left)
<1>1. /\ Types /\ Control /\ Lists(x, h) /\ Fresh(x) /\ currentTask \in Tasks
      /\ Housed(links, ListNames, h) /\ Placed(h, x, state, priority)
      /\ priority \in [Tasks -> Nat] /\ ticksLeft \in [Tasks -> Nat] /\ state \in [Tasks -> States]
  BY DEF KernelInv, Timer, Ticking, Types, Lists
<1>2. /\ left \in [Tasks -> Nat]
      /\ \A t \in Tasks : left[t] = IF ticksLeft[t] > 0 THEN ticksLeft[t] - 1 ELSE 0
  BY <1>1 DEF Timer
<1>3. Delayed \in Sleepers /\ Delay \in Sleepers /\ Delayed # Delay /\ Sleepers \subseteq Apart
      /\ Sleepers \subseteq ListNames
  BY Kernel0, Names DEF Sleepers
<1>4. ASSUME NEW m \in Sleepers PROVE Ascending(Chain(links, m), left)
  <2>1. \A i \in 1..Len(Chain(links, m)) : Chain(links, m)[i] \in Tasks
    BY <1>1, <1>3, HousedList
  <2>2. ASSUME NEW t \in Tasks, NEW u \in Tasks, ticksLeft[t] <= ticksLeft[u]
        PROVE  left[t] <= left[u]
    <3>1. ticksLeft[t] \in Nat /\ ticksLeft[u] \in Nat
      BY <1>1
    <3> HIDE DEF left
    <3>2. QED BY <1>2, <2>2, <3>1
  <2> HIDE DEF left
  <2>3. Ascending(Chain(links, m), ticksLeft)
    BY <1>1 DEF Lists, Timely, Ordered
  <2>4. QED BY <2>1, <2>2, <2>3 DEF Ascending
<1>5. Schedule(k2.links, k2.state)
  BY DEF Timer
<1>6. k1 = Wake(k0, Delayed, left) /\ k2 = Wake(k1, Delay, left)
  BY DEF CheckDelayed, TickIncrement, CheckWakeups
<1>7. k0 \in K /\ k0.links = links /\ k0.state = state
  BY <1>1 DEF Housed
<1> HIDE DEF k0, k1, k2, left
<1>8. Waking(x, h, k0.links, Delayed, left, k0)
  BY <1>1, <1>3, <1>4, <1>7 DEF Waking, Woken, Stay, Others
<1>9. /\ Waking(x, h, k0.links, Delayed, left, k1) /\ k1 \in K
      /\ Ordered(k1.links, Delayed, left)
  BY <1>1, <1>2, <1>3, <1>6, <1>7, <1>8, WakeHouses
<1>10. Waking(x, h, k1.links, Delay, left, k1)
  <2>1. Chain(k1.links, Delay) = Chain(links, Delay)
    BY <1>3, <1>7, <1>9 DEF Waking, Others
  <2>2. Ascending(Chain(k1.links, Delay), left)
    BY <1>3, <1>4, <2>1
  <2>3. QED BY <1>9, <2>2 DEF Waking, Others
<1>11. /\ Waking(x, h, k1.links, Delay, left, k2) /\ k2 \in K
       /\ Ordered(k2.links, Delay, left)
  BY <1>1, <1>2, <1>3, <1>6, <1>9, <1>10, WakeHouses
<1>12. Timely(k2.links, left)
  <2>1. Chain(k2.links, Delayed) = Chain(k1.links, Delayed)
    BY <1>3, <1>11 DEF Waking, Others
  <2>2. Ordered(k2.links, Delayed, left)
    BY <1>9, <2>1 DEF Ordered
  <2>3. QED BY <1>11, <2>2 DEF Timely, Sleepers
<1>13. PICK g : Housed(k2.links, ListNames, g) /\ Placed(g, x, k2.state, priority) /\ Stay(g, h)
  BY <1>11 DEF Waking
<1>14. Woken(k2.state) /\ k2.state \in [Tasks -> States]
  BY <1>11 DEF Waking, Woken
<1>15. \A t \in Tasks : /\ state[t] = "SUSPENDED" => k2.state[t] = "SUSPENDED"
                        /\ k2.state[t] = "RUNNING" => state[t] = "RUNNING"
                        /\ state[t] \in {"READY", "RUNNING"} => k2.state[t] = state[t]
  BY <1>14 DEF Woken
<1>16. Runnable(x, k2.state)
  <2>1. /\ k2.state[Idle] \in {"READY", "RUNNING"}
        /\ \A t \in Tasks : k2.state[t] = "RUNNING" => t = currentTask
    BY <1>1, <1>15, Kernel0 DEF Control
  <2>2. x = Null \/ (x = currentTask /\ k2.state[x] = "RUNNING")
    BY <1>1, <1>15 DEF Fresh
  <2>3. QED BY <1>1, <1>14, <2>1, <2>2 DEF Runnable
<1>17. Dispatched(k2.links, k2.state, g)
  BY <1>1, <1>5, <1>13, <1>16, ScheduleDispatches
<1>18. Waiting(g, count, owner)
  BY <1>1, <1>13, WaitingKept DEF Lists
<1>19. UNCHANGED <<userMode, priority, basePriority, count, owner, pc>>
  BY DEF Timer, prioVars, objectVars, taskVars
<1>20. Sound'
  <2>1. pc' \in [Tasks -> Points] /\ \A t \in Tasks : pc'[t] \in {pc[t], Point("run")}
    BY <1>1, <1>19 DEF Types
  <2>2. k2.state[Idle] \in {"READY", "RUNNING"}
        /\ \A t \in Tasks : /\ state[t] = "SUSPENDED" => k2.state[t] = "SUSPENDED"
                            /\ k2.state[t] = "RUNNING" => t = currentTask
    BY <1>15, <1>16 DEF Runnable
  <2>3. Timely(k2.links, ticksLeft') /\ ticksLeft' \in [Tasks -> Nat]
    BY <1>2, <1>12 DEF left
  <2>4. PICK lk, st : lk = k2.links /\ st = k2.state
    OBVIOUS
  <2>5. /\ Dispatched(lk, st, g) /\ st \in [Tasks -> States] /\ Timely(lk, ticksLeft')
        /\ \A t \in Tasks : /\ state[t] = "SUSPENDED" => st[t] = "SUSPENDED"
                            /\ st[t] = "RUNNING" => t = currentTask
        /\ st[Idle] \in {"READY", "RUNNING"}
    BY <1>14, <1>17, <2>2, <2>3, <2>4
  <2>6. QED BY <1>1, <1>18, <1>19, <2>1, <2>3, <2>5, SwitchKeeps
<1>21. Harmless(k2.state)
  BY <1>14 DEF Harmless, Woken, Live
<1>22. QED BY <1>5, <1>17, <1>20, <1>21 DEF Switched

LEMMA ScheduleKeeps ==
  ASSUME NEW x, NEW lk, NEW st, NEW h, Types, Control, Runnable(x, st), Harmless(st),
         Housed(lk, ListNames, h), Placed(h, x, st, priority), Schedule(lk, st),
         Waiting(h, count, owner), Timely(lk, ticksLeft'), ticksLeft' \in [Tasks -> Nat],
         \A t \in Tasks : state[t] = "SUSPENDED" => st[t] = "SUSPENDED",
         pc' \in [Tasks -> Points], \A t \in Tasks : pc'[t] \in {pc[t], Point("run")},
         UNCHANGED <<userMode, priority, basePriority, count, owner>>
  PROVE  Sound' /\ Switched
<1>1. Dispatched(lk, st, h)
  BY ScheduleDispatches DEF Types
<1>2. /\ st \in [Tasks -> States] /\ currentTask \in Tasks
      /\ \A t \in Tasks : /\ state[t] = "SUSPENDED" => st[t] = "SUSPENDED"
                          /\ st[t] = "RUNNING" => t = currentTask
      /\ st[Idle] \in {"READY", "RUNNING"}
  BY DEF Runnable
<1>3. Sound'
  BY <1>1, <1>2, SwitchKeeps
<1>4. QED BY <1>1, <1>3 DEF Switched

(* The task whose code runs, in machine mode, is RUNNING and no user task. *)
LEMMA RunsFacts ==
  ASSUME NEW x \in Tasks \cup {Null}, NEW h, KernelInv(x, h), Contexts,
         NEW t \in Tasks, NEW at, Runs(t, at)
  PROVE  /\ currentTask = t /\ pc[t] = at /\ t # Null /\ ~IsUser(t) /\ x \in {Null, t}
         /\ \A u \in Tasks : state[u] = "RUNNING" => u = t
         /\ at \notin {Point("request"), Point("ecall")} => state[t] = "RUNNING"
         /\ ~switchPending /\ at = Point("ecall") => state[t] = "RUNNING"
<1>1. currentTask = t /\ pc[t] = at /\ t # Null /\ hart.mode = "M"
  BY Kernel0 DEF Runs
<1>2. ~IsUser(t)
  BY <1>1 DEF Contexts, Running
<1>3. x \in {Null, t}
  BY <1>1 DEF KernelInv, Fresh
<1>4. QED BY <1>1, <1>2, <1>3, PointsDiffer DEF KernelInv, Control, Leaving

LEMMA CallsFacts ==
  ASSUME NEW t \in Tasks, NEW c \in Calls[t]
  PROVE  t # Idle /\ c.ticks \in Nat
BY SecureAssumption

LEMMA DoesFacts ==
  ASSUME NEW x \in Tasks \cup {Null}, NEW h, KernelInv(x, h), Contexts,
         NEW t \in Tasks, NEW op, NEW ticks, Does(t, op, ticks)
  PROVE  /\ Runs(t, Point("run")) /\ t # Idle
         /\ currentTask = t /\ pc[t] = Point("run") /\ t # Null /\ ~IsUser(t) /\ x \in {Null, t}
         /\ state[t] = "RUNNING"
         /\ \A u \in Tasks : state[u] = "RUNNING" => u = t
         /\ [op |-> op, ticks |-> ticks] \in Calls[t]
<1>1. Runs(t, Point("run")) /\ [op |-> op, ticks |-> ticks] \in Calls[t]
  BY DEF Does
<1>2. /\ currentTask = t /\ pc[t] = Point("run") /\ t # Null /\ ~IsUser(t) /\ x \in {Null, t}
      /\ \A u \in Tasks : state[u] = "RUNNING" => u = t
      /\ Point("run") \notin {Point("request"), Point("ecall")} => state[t] = "RUNNING"
  BY <1>1, RunsFacts
<1>3. QED BY <1>1, <1>2, CallsFacts, PointsDiffer

LEMMA UserFacts ==
  ASSUME NEW x \in Tasks \cup {Null}, NEW h, KernelInv(x, h), Contexts,
         NEW t \in Tasks, NEW op, UserDoes(t, op)
  PROVE  /\ currentTask = t /\ t # Null /\ t # Idle /\ IsUser(t) /\ x \in {Null, t}
         /\ state[t] = "RUNNING" /\ pc[t] = Point("run") /\ hart.mode = "U"
         /\ \A u \in Tasks : state[u] = "RUNNING" => u = t
<1>1. currentTask = t /\ hart.mode = "U" /\ t # Null
  BY Kernel0 DEF UserDoes
<1>2. IsUser(t)
  BY <1>1 DEF Contexts, Running
<1>3. t # Idle
  BY <1>2, SecureAssumption DEF IsUser
<1>4. pc[t] = Point("run") /\ state[t] = "RUNNING"
  BY <1>1, <1>2, PointsDiffer DEF KernelInv, Control, Leaving
<1>5. QED BY <1>1, <1>2, <1>3, <1>4 DEF KernelInv, Control, Fresh

(* With the lists and states as they are. *)
LEMMA YieldingKeeps ==
  ASSUME NEW x \in Tasks \cup {Null}, NEW h, KernelInv(x, h), currentTask \in Tasks,
         Schedule(links, state), UNCHANGED <<userMode, ticksLeft, prioVars, count, owner>>,
         pc' \in [Tasks -> Points], \A t \in Tasks : pc'[t] \in {pc[t], Point("run")}
  PROVE  Sound' /\ Switched
<1>1. /\ Types /\ Control /\ Lists(x, h) /\ Fresh(x)
      /\ Housed(links, ListNames, h) /\ Placed(h, x, state, priority)
      /\ Waiting(h, count, owner)
  BY DEF KernelInv, Lists
<1>2. Runnable(x, state)
  BY <1>1 DEF Runnable, Types, Control, Fresh
<1>3. Harmless(state)
  BY DEF Harmless, Live
<1>4. /\ UNCHANGED <<userMode, priority, basePriority, count, owner>>
      /\ Timely(links, ticksLeft') /\ ticksLeft' \in [Tasks -> Nat]
  <2>1. ticksLeft' = ticksLeft
    OBVIOUS
  <2>2. QED BY <1>1, <2>1 DEF Lists, Types, prioVars
<1>5. \A t \in Tasks : state[t] = "SUSPENDED" => state[t] = "SUSPENDED"
  OBVIOUS
<1>6. QED BY <1>1, <1>2, <1>3, <1>4, <1>5, ScheduleKeeps

(* SYS_EXIT and SYS_DELAY: the current task leaves its ready queue, if it  *)
(* is still in one, and in the second case joins the list of task_delay.   *)
LEMMA ExitKeeps ==
  ASSUME NEW x \in Tasks \cup {Null}, NEW h, KernelInv(x, h), NEW t \in Tasks, t # Idle,
         currentTask = t, state[t] = "RUNNING", x \in {Null, t},
         NEW st, st = [state EXCEPT ![t] = "DELETED"],
         Schedule(RemoveReady(links, priority, t), st),
         UNCHANGED <<userMode, ticksLeft, prioVars, count, owner, pc>>
  PROVE  Sound' /\ Switched
<1> DEFINE lk == RemoveReady(links, priority, t)
           g == Sent(h, t, None)
<1>1. /\ Types /\ Control /\ Lists(x, h) /\ Fresh(x)
      /\ Housed(links, ListNames, h) /\ Placed(h, x, state, priority)
      /\ Waiting(h, count, owner) /\ Timely(links, ticksLeft)
  BY DEF KernelInv, Lists
<1>2. /\ h[t] \in ReadyNames \/ h[t] = None
      /\ h[t] \notin Apart
  <2>1. CASE x = t
    BY <1>1, <2>1, Whereabouts, TopType, Names
  <2>2. CASE x # t
    BY <1>1, <2>2, Whereabouts, Names
  <2>3. QED BY <2>1, <2>2
<1>3. Housed(lk, ListNames, g) /\ Others(lk, links, Apart)
  BY <1>1, <1>2, TakenOut
<1>4. /\ st \in [Tasks -> States] /\ st[t] = "DELETED"
      /\ \A u \in Tasks \ {t} : st[u] = state[u]
  BY <1>1 DEF Types, States
<1>5. Placed(g, Null, st, priority)
  <2>1. Belongs(None, Null, t, st, priority)
    BY <1>4, Kernel0 DEF Belongs
  <2>2. \A u \in Tasks \ {t} : /\ state[u] = st[u] /\ priority[u] = priority[u]
                               /\ u = x <=> u = Null
    BY <1>4, Kernel0
  <2>3. QED BY <1>1, <2>1, <2>2, PlacedSent
<1>6. Runnable(Null, st) /\ Harmless(st)
  BY <1>1, <1>4, Kernel0 DEF Runnable, Harmless, Live, Control
<1>7. Waiting(g, count, owner)
  <2>1. Stay(g, h)
    BY Names DEF Stay, Sent
  <2>2. QED BY <1>1, <2>1, WaitingKept
<1>8. Timely(lk, ticksLeft)
  BY <1>3, Kernel0, <1>1 DEF Others, Timely, Ordered
<1>9. /\ UNCHANGED <<userMode, priority, basePriority, count, owner>>
      /\ Timely(lk, ticksLeft') /\ ticksLeft' \in [Tasks -> Nat]
      /\ pc' \in [Tasks -> Points] /\ \A u \in Tasks : pc'[u] \in {pc[u], Point("run")}
  <2>1. ticksLeft' = ticksLeft
    OBVIOUS
  <2>2. QED BY <1>1, <1>8, <2>1 DEF Types, prioVars
<1>10. \A u \in Tasks : state[u] = "SUSPENDED" => st[u] = "SUSPENDED"
  BY <1>4
<1> HIDE DEF lk, g
<1>11. Schedule(lk, st)
  BY DEF lk
<1>12. QED BY <1>1, <1>3, <1>5, <1>6, <1>7, <1>9, <1>10, <1>11, ScheduleKeeps

LEMMA SleepKeeps ==
  ASSUME NEW x \in Tasks \cup {Null}, NEW h, KernelInv(x, h), NEW t \in Tasks, t # Idle,
         currentTask = t, state[t] = "RUNNING", x \in {Null, t}, NEW ticks \in Nat \ {0},
         NEW st, st = [state EXCEPT ![t] = "BLOCKED"],
         Schedule(AddDelayed(RemoveReady(links, priority, t), t, ticks), st),
         ticksLeft' = [ticksLeft EXCEPT ![t] = ticks],
         UNCHANGED <<userMode, prioVars, count, owner, pc>>
  PROVE  Sound' /\ Switched
<1> DEFINE mid == RemoveReady(links, priority, t)
           passed == Later(ticks)
           lk == Insert(mid, Delayed, t, passed)
           f == Sent(h, t, None)
           g == Sent(h, t, Delayed)
<1>1. /\ Types /\ Control /\ Lists(x, h) /\ Fresh(x)
      /\ Housed(links, ListNames, h) /\ Placed(h, x, state, priority)
      /\ Waiting(h, count, owner) /\ Timely(links, ticksLeft)
      /\ ticksLeft \in [Tasks -> Nat]
  BY DEF KernelInv, Lists, Types
<1>2. /\ h[t] \in ReadyNames \/ h[t] = None
      /\ h[t] \notin Apart
  <2>1. CASE x = t
    BY <1>1, <2>1, Whereabouts, TopType, Names
  <2>2. CASE x # t
    BY <1>1, <2>2, Whereabouts, Names
  <2>3. QED BY <2>1, <2>2
<1>3. Housed(mid, ListNames, f) /\ Others(mid, links, Apart) /\ f[t] = None
  BY <1>1, <1>2, TakenOut DEF Sent
<1>4. Delayed \in ListNames /\ Delayed \in Sleepers /\ f[t] \notin ListNames /\ f[t] \notin Sleepers
      /\ Sleepers \subseteq Apart /\ Apart \subseteq ListNames
  BY <1>3, Names, Kernel0 DEF Sleepers
<1>5. Moves(f, g, t, Delayed)
  BY DEF Sent, Moves
<1> HIDE DEF mid, passed, f, g
<1>6. /\ Housed(lk, ListNames, g)
      /\ Longer(lk, mid, ListNames, Delayed, Passing(mid, Delayed, passed), t)
  BY <1>3, <1>4, <1>5, InsertHouses
<1> HIDE DEF lk
<1>7. Timely(mid, ticksLeft)
  BY <1>1, <1>3, <1>4 DEF Others, Timely, Ordered
<1>8. Timely(lk, ticksLeft')
  <2>1. PICK after : after = ticksLeft'
    OBVIOUS
  <2>2. /\ after = [ticksLeft EXCEPT ![t] = ticks]
        /\ passed = {u \in Tasks : ticksLeft[u] <= ticks}
    BY <2>1 DEF passed, Later
  <2>3. /\ Chain(lk, Delayed) = Inserted(Chain(mid, Delayed), Passing(mid, Delayed, passed), t)
        /\ Others(lk, mid, Sleepers \ {Delayed})
    BY <1>4, <1>6 DEF Longer, Others
  <2>4. Timely(lk, after)
    BY <1>1, <1>3, <1>4, <1>7, <2>2, <2>3, TimelyInserted
  <2>5. QED BY <2>1, <2>4
<1>9. /\ st \in [Tasks -> States] /\ st[t] = "BLOCKED"
      /\ \A u \in Tasks \ {t} : st[u] = state[u]
  BY <1>1 DEF Types, States
<1>10. Placed(g, Null, st, priority)
  <2>1. Belongs(Delayed, Null, t, st, priority)
    BY <1>4, <1>9, Kernel0 DEF Belongs
  <2>2. \A u \in Tasks \ {t} : /\ state[u] = st[u] /\ priority[u] = priority[u]
                               /\ u = x <=> u = Null
    BY <1>9, Kernel0
  <2>3. Placed(Sent(h, t, Delayed), Null, st, priority)
    BY <1>1, <2>1, <2>2, PlacedSent
  <2>4. QED BY <2>3 DEF g
<1>11. Runnable(Null, st) /\ Harmless(st)
  BY <1>1, <1>9, Kernel0 DEF Runnable, Harmless, Live, Control
<1>12. Waiting(g, count, owner)
  BY <1>1, Names DEF Waiting, g, Sent
<1>13. /\ UNCHANGED <<userMode, priority, basePriority, count, owner>>
       /\ ticksLeft' \in [Tasks -> Nat]
       /\ pc' \in [Tasks -> Points] /\ \A u \in Tasks : pc'[u] \in {pc[u], Point("run")}
  BY <1>1 DEF Types, prioVars
<1>14. \A u \in Tasks : state[u] = "SUSPENDED" => st[u] = "SUSPENDED"
  BY <1>9
<1>15. Schedule(lk, st)
  BY DEF lk, mid, passed, AddDelayed
<1>16. QED BY <1>1, <1>6, <1>8, <1>10, <1>11, <1>12, <1>13, <1>14, <1>15, ScheduleKeeps

(* A trap from which the interrupted task goes on. *)
Returned == TrapExit(TrapEntry.hart, TrapEntry.frames, TrapEntry.hart.sp)
            /\ UNCHANGED <<state, currentTask, savedSp>>

(* The lists stay as they are: what else may change. *)
LEMMA SameKeeps ==
  ASSUME NEW x \in Tasks \cup {Null}, NEW h, KernelInv(x, h), currentTask \in Tasks,
         UNCHANGED <<links, state, ticksLeft, userMode, currentTask>>,
         priority' \in [Tasks -> Nat], basePriority' \in [Tasks -> Nat],
         \A u \in Tasks : state[u] = "READY" => priority'[u] = priority[u],
         \A u \in Tasks \ {x} : x # Null => Level(priority'[u]) # Top(x),
         owner' \in Tasks \cup {Null}, x # Null => owner' \in {Null, x},
         Waiting(h, count', owner'),
         switchPending' \in BOOLEAN, Leaving',
         pc' \in [Tasks -> Points],
         \A u \in Tasks : pc'[u] \in {pc[u], Point("run"), Point("request"), Point("ecall")},
         \A u \in Tasks : IsUser(u) => pc'[u] = Point("run")
  PROVE  Sound'
<1>1. /\ Types /\ Control /\ Lists(x, h) /\ Fresh(x)
      /\ Housed(links, ListNames, h) /\ Placed(h, x, state, priority)
      /\ Timely(links, ticksLeft)
  BY DEF KernelInv, Lists
<1>2. Placed(h, x, state', priority')
  <2>1. PICK st, pr : st = state' /\ pr = priority'
    OBVIOUS
  <2>2. \A u \in Tasks : /\ state[u] = st[u]
                         /\ u = x <=> u = x
                         /\ state[u] = "READY" => priority[u] = pr[u]
    BY <2>1
  <2>3. Placed(h, x, st, pr)
    BY <1>1, <2>2, PlacedKept
  <2>4. QED BY <2>1, <2>3
<1>3. Lists(x, h)'
  BY <1>1, <1>2 DEF Lists
<1>4. Types'
  BY <1>1 DEF Types
<1>5. Fresh(x)'
  BY <1>1 DEF Fresh
<1>6. Control'
  <2>1. ASSUME NEW u \in Tasks
        PROVE  /\ state'[u] = "RUNNING" => currentTask' = u
               /\ IsUser(u)' => pc'[u] = Point("run")
    BY <1>1 DEF Control, IsUser
  <2>2. Booting'
    BY Kernel0 DEF Booting
  <2>3. Resuming'
    <3>1. ASSUME NEW u \in Tasks, NEW v \in Tasks, pc'[u] = <<"resume", v>>
          PROVE  u # v /\ May(u, "resume", v) /\ state'[v] = "SUSPENDED"
      <4>1. pc[u] = <<"resume", v>>
        BY <3>1, PointsDiffer
      <4>2. QED BY <1>1, <4>1 DEF Control, Resuming
    <3>2. QED BY <3>1 DEF Resuming
  <2>4. QED BY <1>1, <2>1, <2>2, <2>3 DEF Control
<1>7. KernelInv(x, h)'
  BY <1>3, <1>4, <1>5, <1>6 DEF KernelInv
<1>8. QED BY <1>7 DEF Sound

LEMMA SyscallKeeps ==
  ASSUME NEW x \in Tasks \cup {Null}, NEW h, KernelInv(x, h), Contexts,
         NEW t \in Tasks, Syscall(t)
  PROVE  Sound' /\ (Switched \/ Returned)
<1>1. PICK c \in Calls[t] :
        /\ UserDoes(t, c.op)
        /\ \/ Schedule(links, state) /\ UNCHANGED ticksLeft
           \/ LET k == TaskDelay(t, c.ticks)
              IN  ticksLeft' = k.left /\ Schedule(k.links, k.state)
           \/ /\ LET k == TaskExit(t) IN Schedule(k.links, k.state)
              /\ UNCHANGED ticksLeft
           \/ Returned /\ UNCHANGED <<listVars, currentTask, savedSp, switchPending>>
  BY Zenon DEF Syscall, Returned, listVars
<1>2. UNCHANGED <<prioVars, objectVars, taskVars, pc>>
  BY DEF Syscall
<1>3. UNCHANGED <<userMode, priority, basePriority, count, owner, pc>>
  BY <1>2 DEF prioVars, objectVars, taskVars
<1>4. /\ currentTask = t /\ t # Null /\ t # Idle /\ IsUser(t) /\ x \in {Null, t}
      /\ state[t] = "RUNNING" /\ pc[t] = Point("run")
  BY <1>1, UserFacts
<1>5. c.ticks \in Nat
  BY CallsFacts
<1>6. Types /\ Control /\ Lists(x, h) /\ Fresh(x) /\ pc \in [Tasks -> Points]
  BY DEF KernelInv, Types
<1>7. pc' \in [Tasks -> Points] /\ \A u \in Tasks : pc'[u] \in {pc[u], Point("run")}
  BY <1>3, <1>6
<1>8. UNCHANGED <<userMode, prioVars, count, owner, pc>>
  BY <1>3 DEF prioVars
<1>9. CASE Schedule(links, state) /\ UNCHANGED ticksLeft
  BY <1>4, <1>7, <1>8, <1>9, YieldingKeeps
<1>10. CASE LET k == TaskDelay(t, c.ticks)
            IN  ticksLeft' = k.left /\ Schedule(k.links, k.state)
  <2>1. CASE c.ticks = 0
    <3>1. Schedule(links, state) /\ UNCHANGED ticksLeft
      BY <1>10, <2>1, Zenon DEF TaskDelay
    <3>2. QED BY <1>4, <1>7, <1>8, <3>1, YieldingKeeps
  <2>2. CASE c.ticks # 0
    <3>1. PICK st : st = [state EXCEPT ![t] = "BLOCKED"]
      OBVIOUS
    <3>2. TaskDelay(t, c.ticks) = [links |-> AddDelayed(RemoveReady(links, priority, t), t, c.ticks),
                                   state |-> st,
                                   left |-> [ticksLeft EXCEPT ![t] = c.ticks]]
      BY <2>2, <3>1 DEF TaskDelay
    <3>3. /\ Schedule(AddDelayed(RemoveReady(links, priority, t), t, c.ticks), st)
          /\ ticksLeft' = [ticksLeft EXCEPT ![t] = c.ticks]
      BY <1>10, <3>2
    <3>4. c.ticks \in Nat \ {0}
      BY <1>5, <2>2
    <3>5. QED BY <1>4, <1>8, <3>1, <3>3, <3>4, SleepKeeps
  <2>3. QED BY <2>1, <2>2
<1>11. CASE /\ LET k == TaskExit(t) IN Schedule(k.links, k.state)
            /\ UNCHANGED ticksLeft
  <2>1. PICK st : st = [state EXCEPT ![t] = "DELETED"]
    OBVIOUS
  <2>2. TaskExit(t) = [links |-> RemoveReady(links, priority, t), state |-> st]
    BY <2>1 DEF TaskExit
  <2>3. Schedule(RemoveReady(links, priority, t), st) /\ UNCHANGED ticksLeft
    BY <1>11, <2>2
  <2>4. UNCHANGED <<userMode, ticksLeft, prioVars, count, owner, pc>>
    BY <1>8, <2>3
  <2>5. QED BY <1>4, <2>1, <2>3, <2>4, ExitKeeps
<1>12. CASE Returned /\ UNCHANGED <<listVars, currentTask, savedSp, switchPending>>
  <2>1. UNCHANGED <<links, state, ticksLeft, currentTask, switchPending>>
    BY <1>12 DEF listVars
  <2>2. /\ priority' \in [Tasks -> Nat] /\ basePriority' \in [Tasks -> Nat]
        /\ \A u \in Tasks : state[u] = "READY" => priority'[u] = priority[u]
        /\ \A u \in Tasks \ {x} : x # Null => Level(priority'[u]) # Top(x)
        /\ owner' \in Tasks \cup {Null} /\ (x # Null => owner' \in {Null, x})
        /\ Waiting(h, count', owner')
        /\ switchPending' \in BOOLEAN /\ Leaving'
        /\ \A u \in Tasks : pc'[u] \in {pc[u], Point("run"), Point("request"), Point("ecall")}
        /\ \A u \in Tasks : IsUser(u) => pc'[u] = Point("run")
    BY <1>3, <1>6, <2>1 DEF Types, Fresh, Lists, Control, Leaving
  <2>3. UNCHANGED <<links, state, ticksLeft, userMode, currentTask>>
    BY <1>3, <2>1
  <2>4. Sound'
    BY <1>4, <1>7, <2>2, <2>3, SameKeeps
  <2>5. QED BY <1>12, <2>4
<1>13. QED BY <1>1, <1>9, <1>10, <1>11, <1>12

LEMMA FaultKeeps ==
  ASSUME NEW x \in Tasks \cup {Null}, NEW h, KernelInv(x, h), Fault(currentTask),
         currentTask \in Tasks
  PROVE  Sound'
<1>1. UNCHANGED <<links, state, ticksLeft, priority, basePriority, count, owner, userMode,
                  switchPending, currentTask, pc>>
  BY DEF Fault, listVars, prioVars, objectVars, taskVars
<1>2. Types /\ Control /\ Lists(x, h) /\ Fresh(x)
  BY DEF KernelInv
<1>3. /\ priority' \in [Tasks -> Nat] /\ basePriority' \in [Tasks -> Nat]
      /\ \A u \in Tasks : state[u] = "READY" => priority'[u] = priority[u]
      /\ \A u \in Tasks \ {x} : x # Null => Level(priority'[u]) # Top(x)
      /\ owner' \in Tasks \cup {Null} /\ (x # Null => owner' \in {Null, x})
      /\ Waiting(h, count', owner')
      /\ switchPending' \in BOOLEAN /\ Leaving'
      /\ pc' \in [Tasks -> Points]
      /\ \A u \in Tasks : pc'[u] \in {pc[u], Point("run"), Point("request"), Point("ecall")}
      /\ \A u \in Tasks : IsUser(u) => pc'[u] = Point("run")
  BY <1>1, <1>2 DEF Types, Fresh, Lists, Control, Leaving
<1>4. UNCHANGED <<links, state, ticksLeft, userMode, currentTask>>
  BY <1>1
<1>5. QED BY <1>3, <1>4, SameKeeps

LEMMA YieldKeeps ==
  ASSUME NEW x \in Tasks \cup {Null}, NEW h, KernelInv(x, h), Contexts,
         NEW t \in Tasks, TaskYield(t)
  PROVE  Sound'
<1>1. PICK at \in {Point("run"), Point("request")} : Runs(t, at)
  BY DEF TaskYield, Does
<1>2. currentTask = t /\ pc[t] = at /\ t # Null /\ ~IsUser(t)
  BY <1>1, RunsFacts
<1>3. UNCHANGED <<links, state, ticksLeft, priority, basePriority, count, owner, userMode,
                  currentTask>>
      /\ switchPending' = TRUE /\ pc' = [pc EXCEPT ![t] = Point("ecall")]
  BY DEF TaskYield, Goto, listVars, prioVars, objectVars, taskVars, trapVars
<1>4. Types /\ Control /\ Lists(x, h) /\ Fresh(x)
  BY DEF KernelInv
<1>5. /\ pc' \in [Tasks -> Points] /\ pc'[t] = Point("ecall")
      /\ \A u \in Tasks : pc'[u] \in {pc[u], Point("run"), Point("request"), Point("ecall")}
      /\ \A u \in Tasks : IsUser(u) => pc'[u] = Point("run")
  BY <1>2, <1>3, <1>4, PointsDiffer DEF Types, Control
<1>6. /\ priority' \in [Tasks -> Nat] /\ basePriority' \in [Tasks -> Nat]
      /\ \A u \in Tasks : state[u] = "READY" => priority'[u] = priority[u]
      /\ \A u \in Tasks \ {x} : x # Null => Level(priority'[u]) # Top(x)
      /\ owner' \in Tasks \cup {Null} /\ (x # Null => owner' \in {Null, x})
      /\ Waiting(h, count', owner')
      /\ switchPending' \in BOOLEAN
  BY <1>3, <1>4 DEF Types, Fresh, Lists
<1>7. Leaving'
  BY <1>2, <1>3, <1>5 DEF Leaving
<1>8. UNCHANGED <<links, state, ticksLeft, userMode, currentTask>>
  BY <1>3
<1>9. QED BY <1>2, <1>5, <1>6, <1>7, <1>8, SameKeeps

LEMMA EcallKeeps ==
  ASSUME NEW x \in Tasks \cup {Null}, NEW h, KernelInv(x, h), Contexts,
         NEW t \in Tasks, Ecall(t)
  PROVE  Sound' /\ (Switched \/ Returned)
<1>1. /\ Runs(t, Point("ecall"))
      /\ pc' = [pc EXCEPT ![t] = Point("run")]
      /\ UNCHANGED <<ticksLeft, priority, basePriority, count, owner, userMode>>
      /\ switchPending => Schedule(links, state)
      /\ ~switchPending => Returned /\ UNCHANGED <<links, state, currentTask, savedSp, switchPending>>
  BY Zenon DEF Ecall, Goto, Returned, prioVars, objectVars, taskVars
<1>2. /\ currentTask = t /\ pc[t] = Point("ecall") /\ t # Null /\ ~IsUser(t)
      /\ ~switchPending => state[t] = "RUNNING"
  BY <1>1, RunsFacts
<1>3. Types /\ Control /\ Lists(x, h) /\ Fresh(x) /\ switchPending \in BOOLEAN
  BY DEF KernelInv, Types
<1>4. /\ pc' \in [Tasks -> Points]
      /\ \A u \in Tasks : pc'[u] \in {pc[u], Point("run")}
      /\ \A u \in Tasks : IsUser(u) => pc'[u] = Point("run")
  BY <1>1, <1>2, <1>3, PointsDiffer DEF Types, Control
<1>5. CASE switchPending
  <2>1. Schedule(links, state)
    BY <1>1, <1>5
  <2>2. UNCHANGED <<userMode, ticksLeft, prioVars, count, owner>>
    BY <1>1 DEF prioVars
  <2>3. QED BY <1>2, <1>4, <2>1, <2>2, YieldingKeeps
<1>6. CASE ~switchPending
  <2>1. UNCHANGED <<links, state, currentTask, savedSp, switchPending>>
    BY <1>1, <1>6
  <2>2. /\ priority' \in [Tasks -> Nat] /\ basePriority' \in [Tasks -> Nat]
        /\ \A u \in Tasks : state[u] = "READY" => priority'[u] = priority[u]
        /\ \A u \in Tasks \ {x} : x # Null => Level(priority'[u]) # Top(x)
        /\ owner' \in Tasks \cup {Null} /\ (x # Null => owner' \in {Null, x})
        /\ Waiting(h, count', owner')
        /\ switchPending' \in BOOLEAN
    BY <1>1, <1>3, <2>1 DEF Types, Fresh, Lists
  <2>3. Leaving'
    BY <1>2, <1>6, <2>1 DEF Leaving
  <2>4. UNCHANGED <<links, state, ticksLeft, userMode, currentTask>>
    BY <1>1, <2>1
  <2>5. \A u \in Tasks : pc'[u] \in {pc[u], Point("run"), Point("request"), Point("ecall")}
    BY <1>4
  <2>6. Sound'
    BY <1>2, <1>4, <2>2, <2>3, <2>4, <2>5, SameKeeps
  <2>7. QED BY <1>1, <1>6, <2>6
<1>7. QED BY <1>3, <1>5, <1>6

-----------------------------------------------------------------------------
(* The first task starts, and stays in its queue.                          *)
LEMMA StartKeeps ==
  ASSUME NEW x \in Tasks \cup {Null}, NEW h, KernelInv(x, h), NEW f \in BootTasks, Leads(f),
         SchedStart
  PROVE  Sound' /\ SelectNext(links) = f
<1> DEFINE next == SelectNext(links)
<1>1. /\ Null \notin Tasks /\ f \in Tasks /\ f # Idle /\ Idle \in Tasks
      /\ InitPriority \in [Tasks -> Nat] /\ InitPriority[Idle] = 0
  BY ListAssumption, SecureAssumption
<1>2. Types /\ Control /\ Booting /\ Lists(x, h) /\ Fresh(x) /\ currentTask = Null
  BY DEF KernelInv, Control, SchedStart
<1>3. x = Null
  BY <1>1, <1>2 DEF Fresh
<1>4. /\ Housed(links, ListNames, h) /\ Placed(h, Null, state, priority)
      /\ Timely(links, ticksLeft) /\ Waiting(h, count, owner)
  BY <1>2, <1>3 DEF Lists
<1>5. /\ state[f] = "READY" /\ owner = Null
      /\ \A t \in Tasks : /\ state[t] \in {"FREE", "READY"} /\ pc[t] = Point("run")
                          /\ priority[t] = InitPriority[t]
  BY <1>1, <1>2 DEF Booting, SchedStart
<1>6. Top(f) \in Levels /\ Top(f) \in Nat /\ h[f] = Ready(Top(f))
  <2>1. h[f] = Ready(Level(priority[f]))
    BY <1>1, <1>4, <1>5, Whereabouts
  <2>2. QED BY <1>1, <1>5, <2>1, TopType DEF Top
<1>7. \A t \in Tasks \ {f} : Level(priority[t]) \in Nat /\ Level(priority[t]) < Top(f)
  <2>1. Level(0) = 0
    BY Kernel0 DEF Level
  <2>2. ASSUME NEW t \in Tasks \ {f}, t # Idle
        PROVE  Level(priority[t]) \in Nat /\ Level(priority[t]) < Top(f)
    BY <1>1, <1>5, <2>2, LevelType, Kernel0 DEF Leads
  <2>3. QED BY <1>1, <1>5, <2>1, <2>2 DEF Leads
<1> HIDE DEF next
<1>8. next = f
  <2>1. h[f] \in ReadyNames
    BY <1>6, Names
  <2>2. PICK p \in Levels : /\ next \in Tasks /\ h[next] = Ready(p)
                            /\ \A u \in Tasks, q \in Levels : h[u] = Ready(q) => q <= p
    BY <1>1, <1>4, <2>1, SelectBest DEF next
  <2>3. Top(f) <= p
    BY <1>1, <1>6, <2>2
  <2>4. p = Level(priority[next])
    <3>1. next # Null
      BY <1>1, <2>2
    <3>2. QED BY <1>4, <2>2, <3>1, Whereabouts
  <2>5. SUFFICES ASSUME next # f PROVE FALSE
    OBVIOUS
  <2>6. p \in Nat /\ p < Top(f)
    BY <1>7, <2>2, <2>4, <2>5
  <2>7. QED BY <1>6, <2>3, <2>6
<1>9. /\ currentTask' = f /\ state' = [state EXCEPT ![f] = "RUNNING"]
      /\ UNCHANGED <<links, ticksLeft, priority, basePriority, count, owner, userMode,
                     switchPending, pc>>
  BY <1>8 DEF SchedStart, next, prioVars, objectVars, taskVars
<1>10. /\ state' \in [Tasks -> States] /\ state'[f] = "RUNNING"
       /\ \A t \in Tasks \ {f} : state'[t] = state[t]
  BY <1>1, <1>2, <1>9 DEF Types, States
<1>11. Placed(h, f, state', priority')
  <2>1. ASSUME NEW t \in Tasks PROVE Belongs(h[t], f, t, state', priority')
    <3>1. CASE t = f
      BY <1>6, <3>1 DEF Belongs
    <3>2. CASE t # f
      <4>1. state'[t] = state[t] /\ priority'[t] = priority[t] /\ t # Null
        BY <1>1, <1>9, <1>10, <3>2
      <4>2. Belongs(h[t], Null, t, state, priority)
        BY <1>4 DEF Placed
      <4>3. QED BY <3>2, <4>1, <4>2 DEF Belongs
    <3>3. QED BY <3>1, <3>2
  <2>2. QED BY <2>1 DEF Placed
<1>12. Lists(f, h)'
  BY <1>4, <1>9, <1>11 DEF Lists
<1>13. Types'
  BY <1>1, <1>2, <1>9, <1>10 DEF Types
<1>14. Fresh(f)'
  <2>1. \A u \in Tasks \ {f} : state'[u] # "BLOCKED" /\ Level(priority'[u]) # Top(f)
    BY <1>5, <1>6, <1>7, <1>9, <1>10
  <2>2. QED BY <1>5, <1>9, <1>10, <2>1 DEF Fresh
<1>15. Control'
  <2>1. ASSUME NEW t \in Tasks
        PROVE  /\ state'[t] = "RUNNING" => currentTask' = t
               /\ IsUser(t)' => pc'[t] = Point("run")
    BY <1>5, <1>9, <1>10
  <2>2. state'[Idle] \in {"READY", "RUNNING"}
    BY <1>1, <1>2, <1>10 DEF Control
  <2>3. Booting' /\ Leaving'
    BY <1>1, <1>9, <1>10 DEF Booting, Leaving
  <2>4. Resuming'
    BY <1>5, <1>9, PointsDiffer DEF Resuming
  <2>5. QED BY <2>1, <2>2, <2>3, <2>4 DEF Control
<1>16. KernelInv(f, h)'
  BY <1>12, <1>13, <1>14, <1>15 DEF KernelInv
<1>17. QED BY <1>1, <1>8, <1>16 DEF Sound, next

-----------------------------------------------------------------------------
(* Steps of a machine-mode task between two switches.                      *)

(* One task but the idle one has changed its state.                        *)
LEMMA ControlKept ==
  ASSUME Control, NEW t \in Tasks, currentTask = t, ~IsUser(t),
         UNCHANGED <<userMode, currentTask>>,
         NEW u \in Tasks, u # Idle, state'[u] # "RUNNING",
         \A v \in Tasks \ {u} : state'[v] = state[v],
         \A v \in Tasks \ {t} : pc'[v] \in {pc[v], Point("run")},
         Leaving', Resuming'
  PROVE  Control'
<1>1. ASSUME NEW v \in Tasks
      PROVE  /\ state'[v] = "RUNNING" => currentTask' = v
             /\ IsUser(v)' => pc'[v] = Point("run")
  BY DEF Control, IsUser
<1>2. state'[Idle] \in {"READY", "RUNNING"}
  BY Kernel0 DEF Control
<1>3. Booting'
  BY Kernel0 DEF Booting
<1>4. QED BY <1>1, <1>2, <1>3 DEF Control

(* The current task joins a list of sleepers or waiters, before it leaves  *)
(* its ready queue: if it is still there, as the first task, it is alone   *)
(* in it, and nobody else has blocked.                                     *)
LEMMA BlockHouses ==
  ASSUME NEW x \in Tasks \cup {Null}, NEW lk, NEW f, NEW pr, pr \in [Tasks -> Nat], Fresh(x),
         Housed(lk, ListNames, f), Placed(f, x, state, pr), x # Null => pr = priority,
         state \in [Tasks -> States],
         NEW t \in Tasks, state[t] = "RUNNING", x \in {Null, t}, NEW l \in Apart, NEW passed
  PROVE  /\ Housed(Enlisted(lk, l, t, passed, priority), ListNames, Sent(f, t, l))
         /\ Longer(Enlisted(lk, l, t, passed, priority), lk, Apart, l, Passing(lk, l, passed), t)
<1>1. l \in ListNames \ ReadyNames /\ ReadyNames \subseteq ListNames /\ Apart = ListNames \ ReadyNames
  BY DEF Apart, ListNames, ReadyNames
<1>2. f[t] \notin ListNames \/ Alone(f, t, l)
  <2>1. CASE x = Null
    <3>1. t # x
      BY <2>1, Kernel0
    <3>2. QED BY <3>1, Whereabouts, Names
  <2>2. CASE x # Null
    <3>1. x = t /\ f[t] = Ready(Top(t)) /\ Ready(Top(t)) \in ReadyNames
      BY <2>2, Whereabouts, TopType, Names
    <3>2. ASSUME NEW u \in Tasks \ {t} PROVE f[u] # f[t] /\ f[u] # l
      <4>1. /\ state[u] # "BLOCKED" /\ Level(priority[u]) # Top(t) /\ pr = priority
        BY <2>2, <3>1 DEF Fresh
      <4>2. /\ \A p : f[u] = Ready(p) => \/ u = x /\ p = Top(x)
                                         \/ u # x /\ state[u] = "READY" /\ p = Level(pr[u])
            /\ f[u] \in Apart => u # x /\ state[u] = "BLOCKED"
        BY Whereabouts
      <4>3. QED BY <3>1, <4>1, <4>2
    <3>3. f[t] # l
      BY <3>1, Names
    <3>4. QED BY <3>1, <3>2, <3>3 DEF Alone
  <2>3. QED BY <2>1, <2>2
<1>3. Moves(f, Sent(f, t, l), t, l)
  BY DEF Sent, Moves
<1>4. PICK g : g = Sent(f, t, l)
  OBVIOUS
<1>5. /\ Housed(Enlisted(lk, l, t, passed, priority), ListNames, g)
      /\ Longer(Enlisted(lk, l, t, passed, priority), lk, ListNames \ ReadyNames, l,
                Passing(lk, l, passed), t)
  BY <1>1, <1>2, <1>3, <1>4, EnlistHouses
<1>6. QED BY <1>1, <1>4, <1>5

(* ... and it goes on to ask for a switch. *)
LEMMA BlockKeeps ==
  ASSUME NEW x \in Tasks \cup {Null}, Types, Control, Fresh(x),
         NEW f, Placed(f, x, state, priority'), priority' \in [Tasks -> Nat],
         NEW t \in Tasks, t # Idle, currentTask = t, state[t] = "RUNNING", ~IsUser(t), x \in {Null, t},
         NEW l \in Apart, Housed(links', ListNames, Sent(f, t, l)),
         Timely(links', ticksLeft'), Waiting(Sent(f, t, l), count, owner),
         state' = [state EXCEPT ![t] = "BLOCKED"], ticksLeft' \in [Tasks -> Nat],
         pc' = [pc EXCEPT ![t] = Point("request")],
         UNCHANGED <<userMode, basePriority, count, owner, switchPending, currentTask>>
  PROVE  Sound'
<1>1. /\ state' \in [Tasks -> States] /\ state'[t] = "BLOCKED"
      /\ \A u \in Tasks \ {t} : state'[u] = state[u]
      /\ pc' \in [Tasks -> Points] /\ pc'[t] = Point("request")
      /\ \A u \in Tasks \ {t} : pc'[u] = pc[u]
  BY PointsDiffer DEF Types, States
<1>2. Placed(Sent(f, t, l), Null, state', priority')
  <2>1. PICK st, pr : st = state' /\ pr = priority'
    OBVIOUS
  <2>2. Belongs(l, Null, t, st, pr)
    BY <1>1, <2>1, Kernel0 DEF Belongs
  <2>3. \A u \in Tasks \ {t} : /\ state[u] = st[u] /\ pr[u] = pr[u]
                               /\ u = x <=> u = Null
    BY <1>1, <2>1, Kernel0
  <2>4. Placed(f, x, state, pr)
    BY <2>1
  <2>5. Placed(Sent(f, t, l), Null, st, pr)
    BY <2>2, <2>3, <2>4, PlacedSent
  <2>6. QED BY <2>1, <2>5
<1>3. Lists(Null, Sent(f, t, l))'
  BY <1>2 DEF Lists
<1>4. Types'
  BY <1>1 DEF Types
<1>5. Leaving'
  BY <1>1 DEF Leaving
<1>6. Resuming'
  <2>1. ASSUME NEW u \in Tasks, NEW v \in Tasks, pc'[u] = <<"resume", v>>
        PROVE  u # v /\ May(u, "resume", v) /\ state'[v] = "SUSPENDED"
    <3>1. pc[u] = <<"resume", v>>
      BY <1>1, <2>1, PointsDiffer
    <3>2. QED BY <1>1, <3>1 DEF Control, Resuming
  <2>2. QED BY <2>1 DEF Resuming
<1>7. Control'
  <2>1. /\ UNCHANGED <<userMode, currentTask>> /\ state'[t] # "RUNNING"
        /\ \A v \in Tasks \ {t} : state'[v] = state[v]
        /\ \A v \in Tasks \ {t} : pc'[v] \in {pc[v], Point("run")}
    BY <1>1
  <2>2. QED BY <1>5, <1>6, <2>1, ControlKept
<1>8. KernelInv(Null, Sent(f, t, l))'
  BY <1>3, <1>4, <1>7 DEF KernelInv, Fresh
<1>9. QED BY <1>8 DEF Sound

LEMMA DelayKeeps ==
  ASSUME NEW x \in Tasks \cup {Null}, NEW h, KernelInv(x, h), Contexts,
         NEW t \in Tasks, DelayTicks(t)
  PROVE  Sound'
<1>1. PICK c \in Calls[t] :
        /\ c.ticks > 0 /\ Runs(t, Point("run"))
        /\ LET k == Blocked(DelayAdd(links, t, c.ticks), state, t)
           IN  links' = k.links /\ state' = k.state
        /\ ticksLeft' = [ticksLeft EXCEPT ![t] = c.ticks]
  BY Zenon DEF DelayTicks
<1> DEFINE passed == Later(c.ticks)
<1>2. /\ links' = Enlisted(links, Delay, t, passed, priority)
      /\ state' = [state EXCEPT ![t] = "BLOCKED"]
      /\ pc' = [pc EXCEPT ![t] = Point("request")]
      /\ UNCHANGED <<userMode, priority, basePriority, count, owner, switchPending, currentTask>>
  <2>1. pc' = [pc EXCEPT ![t] = Point("request")]
        /\ UNCHANGED <<userMode, priority, basePriority, count, owner, switchPending, currentTask>>
    BY DEF DelayTicks, Goto, prioVars, objectVars, taskVars, trapVars
  <2>2. QED BY <1>1, <2>1 DEF Blocked, DelayAdd, Enlisted
<1>3. /\ currentTask = t /\ t # Null /\ ~IsUser(t) /\ x \in {Null, t} /\ state[t] = "RUNNING"
      /\ c.ticks \in Nat \ {0} /\ t # Idle
  <2>1. /\ currentTask = t /\ pc[t] = Point("run") /\ t # Null /\ ~IsUser(t) /\ x \in {Null, t}
        /\ \A u \in Tasks : state[u] = "RUNNING" => u = t
        /\ Point("run") \notin {Point("request"), Point("ecall")} => state[t] = "RUNNING"
    BY <1>1, RunsFacts
  <2>2. c.ticks \in Nat /\ t # Idle
    BY CallsFacts
  <2>3. QED BY <1>1, <2>1, <2>2, PointsDiffer
<1>4. /\ Types /\ Control /\ Fresh(x) /\ Housed(links, ListNames, h)
      /\ Placed(h, x, state, priority) /\ Timely(links, ticksLeft) /\ Waiting(h, count, owner)
      /\ ticksLeft \in [Tasks -> Nat] /\ priority \in [Tasks -> Nat] /\ state \in [Tasks -> States]
  BY DEF KernelInv, Lists, Types
<1>5. Delay \in Apart /\ Delay \in Sleepers /\ Sleepers \subseteq Apart /\ Delay # Sem /\ Delay # Mutex
  BY Names, Kernel0 DEF Sleepers
<1>6. h[t] \notin Sleepers
  <2>1. h[t] \in Apart => t # x /\ state[t] = "BLOCKED"
    BY <1>4, Whereabouts
  <2>2. QED BY <1>3, <1>5, <2>1
<1> HIDE DEF passed
<1>7. /\ Housed(Enlisted(links, Delay, t, passed, priority), ListNames, Sent(h, t, Delay))
      /\ Longer(Enlisted(links, Delay, t, passed, priority), links, Apart, Delay,
                Passing(links, Delay, passed), t)
  BY <1>3, <1>4, <1>5, BlockHouses
<1>8. Timely(links', ticksLeft')
  <2>1. PICK new, after : new = links' /\ after = ticksLeft'
    OBVIOUS
  <2>2. /\ after = [ticksLeft EXCEPT ![t] = c.ticks]
        /\ passed = {u \in Tasks : ticksLeft[u] <= c.ticks}
    BY <1>1, <2>1 DEF passed, Later
  <2>3. /\ Chain(new, Delay) = Inserted(Chain(links, Delay), Passing(links, Delay, passed), t)
        /\ Others(new, links, Sleepers \ {Delay})
    BY <1>2, <1>5, <1>7, <2>1 DEF Longer, Others
  <2>4. Timely(new, after)
    BY <1>3, <1>4, <1>5, <1>6, <2>2, <2>3, TimelyInserted
  <2>5. QED BY <2>1, <2>4
<1>9. Waiting(Sent(h, t, Delay), count, owner)
  BY <1>4, <1>5 DEF Waiting, Sent
<1>10. ticksLeft' \in [Tasks -> Nat] /\ priority' \in [Tasks -> Nat] /\ Placed(h, x, state, priority')
       /\ Housed(links', ListNames, Sent(h, t, Delay))
  BY <1>1, <1>2, <1>3, <1>4, <1>7
<1>11. QED BY <1>2, <1>3, <1>4, <1>5, <1>8, <1>9, <1>10, BlockKeeps

LEMMA SemWaitKeeps ==
  ASSUME NEW x \in Tasks \cup {Null}, NEW h, KernelInv(x, h), Contexts,
         NEW t \in Tasks, SemWait(t)
  PROVE  Sound'
<1> DEFINE passed == {u \in Tasks : priority[u] >= priority[t]}
<1>1. /\ Does(t, "semWait", 0)
      /\ UNCHANGED <<owner, ticksLeft, priority, basePriority, userMode, switchPending, currentTask>>
      /\ \/ count > 0 /\ count' = count - 1 /\ UNCHANGED <<links, state, pc>>
         \/ /\ count = 0 /\ count' = count
            /\ links' = Enlisted(links, Sem, t, passed, priority)
            /\ state' = [state EXCEPT ![t] = "BLOCKED"]
            /\ pc' = [pc EXCEPT ![t] = Point("request")]
  BY DEF SemWait, Wait, Blocked, WaitqueueAdd, Enlisted, Goto, prioVars, taskVars, trapVars
<1>2. /\ Runs(t, Point("run")) /\ t # Idle
      /\ currentTask = t /\ pc[t] = Point("run") /\ t # Null /\ ~IsUser(t) /\ x \in {Null, t}
      /\ state[t] = "RUNNING"
      /\ \A u \in Tasks : state[u] = "RUNNING" => u = t
      /\ [op |-> "semWait", ticks |-> 0] \in Calls[t]
  BY <1>1, DoesFacts
<1>3. /\ Types /\ Control /\ Fresh(x) /\ Housed(links, ListNames, h)
      /\ Placed(h, x, state, priority) /\ Timely(links, ticksLeft) /\ Waiting(h, count, owner)
      /\ ticksLeft \in [Tasks -> Nat] /\ priority \in [Tasks -> Nat] /\ state \in [Tasks -> States]
      /\ basePriority \in [Tasks -> Nat] /\ owner \in Tasks \cup {Null} /\ switchPending \in BOOLEAN
      /\ pc \in [Tasks -> Points]
  BY DEF KernelInv, Lists, Types
<1>4. Sem \in Apart /\ Sleepers \subseteq Apart \ {Sem} /\ Sem # Mutex
  BY Names, Kernel0 DEF Sleepers
<1> HIDE DEF passed
<1>5. CASE count > 0 /\ count' = count - 1 /\ UNCHANGED <<links, state, pc>>
  <2>1. /\ priority' \in [Tasks -> Nat] /\ basePriority' \in [Tasks -> Nat]
        /\ \A u \in Tasks : state[u] = "READY" => priority'[u] = priority[u]
        /\ \A u \in Tasks \ {x} : x # Null => Level(priority'[u]) # Top(x)
        /\ owner' \in Tasks \cup {Null} /\ (x # Null => owner' \in {Null, x})
        /\ switchPending' \in BOOLEAN /\ Leaving' /\ pc' \in [Tasks -> Points]
        /\ \A u \in Tasks : pc'[u] \in {pc[u], Point("run"), Point("request"), Point("ecall")}
        /\ \A u \in Tasks : IsUser(u) => pc'[u] = Point("run")
    BY <1>1, <1>3, <1>5 DEF Fresh, Control, Leaving
  <2>2. Waiting(h, count', owner')
    <3>1. \A u \in Tasks : h[u] # Sem
      <4>1. count # 0
        BY <1>5
      <4>2. QED BY <1>3, <4>1 DEF Waiting
    <3>2. QED BY <1>1, <1>3, <3>1 DEF Waiting
  <2>3. UNCHANGED <<links, state, ticksLeft, userMode, currentTask>>
    BY <1>1, <1>5
  <2>4. QED BY <1>2, <2>1, <2>2, <2>3, SameKeeps
<1>6. CASE /\ count = 0 /\ count' = count
           /\ links' = Enlisted(links, Sem, t, passed, priority)
           /\ state' = [state EXCEPT ![t] = "BLOCKED"]
           /\ pc' = [pc EXCEPT ![t] = Point("request")]
  <2>1. /\ Housed(Enlisted(links, Sem, t, passed, priority), ListNames, Sent(h, t, Sem))
        /\ Longer(Enlisted(links, Sem, t, passed, priority), links, Apart, Sem,
                  Passing(links, Sem, passed), t)
    BY <1>2, <1>3, <1>4, BlockHouses
  <2>2. Timely(links', ticksLeft')
    <3>1. PICK new, after : new = links' /\ after = ticksLeft'
      OBVIOUS
    <3>2. Others(new, links, Sleepers) /\ after = ticksLeft
      BY <1>1, <1>4, <1>6, <2>1, <3>1 DEF Longer, Others
    <3>3. Timely(new, after)
      BY <1>3, <3>2 DEF Timely, Ordered, Others
    <3>4. QED BY <3>1, <3>3
  <2>3. Waiting(Sent(h, t, Sem), count, owner)
    BY <1>3, <1>4, <1>6 DEF Waiting, Sent
  <2>4. /\ ticksLeft' \in [Tasks -> Nat] /\ priority' \in [Tasks -> Nat]
        /\ Placed(h, x, state, priority') /\ Housed(links', ListNames, Sent(h, t, Sem))
        /\ UNCHANGED <<userMode, basePriority, count, owner, switchPending, currentTask>>
    BY <1>1, <1>3, <1>6, <2>1
  <2>5. QED BY <1>2, <1>3, <1>4, <1>6, <2>2, <2>3, <2>4, BlockKeeps
<1>7. QED BY <1>1, <1>5, <1>6

(* mutex_lock: who waits is not the first task, since the first one would  *)
(* be the owner; the owner may move to a higher ready queue.               *)
LEMMA LockKeeps ==
  ASSUME NEW x \in Tasks \cup {Null}, NEW h, KernelInv(x, h), Contexts,
         NEW t \in Tasks, MutexLock(t)
  PROVE  Sound'
<1> DEFINE passed == {u \in Tasks : priority'[u] >= priority[t]}
           moved == priority' # priority /\ state[owner] = "READY"
           lk == IF moved THEN Resorted(links, priority', owner) ELSE links
           f == IF moved THEN Sent(h, owner, Ready(Level(priority'[owner]))) ELSE h
<1>1. /\ Does(t, "lock", 0)
      /\ UNCHANGED <<count, ticksLeft, basePriority, userMode, switchPending, currentTask>>
      /\ \/ owner \in {Null, t} /\ owner' = t /\ UNCHANGED <<links, state, priority, pc>>
         \/ /\ owner \notin {Null, t} /\ owner' = owner
            /\ priority' = [priority EXCEPT ![owner] = IF @ < priority[t] THEN priority[t] ELSE @]
            /\ links' = Enlisted(lk, Mutex, t, passed, priority)
            /\ state' = [state EXCEPT ![t] = "BLOCKED"]
            /\ pc' = [pc EXCEPT ![t] = Point("request")]
  BY DEF MutexLock, Wait, Blocked, Enlisted, Goto, taskVars, trapVars
<1>2. /\ Runs(t, Point("run")) /\ t # Idle
      /\ currentTask = t /\ pc[t] = Point("run") /\ t # Null /\ ~IsUser(t) /\ x \in {Null, t}
      /\ state[t] = "RUNNING"
      /\ \A u \in Tasks : state[u] = "RUNNING" => u = t
      /\ [op |-> "lock", ticks |-> 0] \in Calls[t]
  BY <1>1, DoesFacts
<1>3. /\ Types /\ Control /\ Fresh(x) /\ Housed(links, ListNames, h)
      /\ Placed(h, x, state, priority) /\ Timely(links, ticksLeft) /\ Waiting(h, count, owner)
      /\ ticksLeft \in [Tasks -> Nat] /\ priority \in [Tasks -> Nat] /\ state \in [Tasks -> States]
      /\ basePriority \in [Tasks -> Nat] /\ owner \in Tasks \cup {Null} /\ switchPending \in BOOLEAN
      /\ pc \in [Tasks -> Points]
  BY DEF KernelInv, Lists, Types
<1>4. Mutex \in Apart /\ Sleepers \subseteq Apart \ {Mutex} /\ Sem # Mutex
  BY Names, Kernel0 DEF Sleepers
<1>5. CASE owner \in {Null, t} /\ owner' = t /\ UNCHANGED <<links, state, priority, pc>>
  <2>1. /\ priority' \in [Tasks -> Nat] /\ basePriority' \in [Tasks -> Nat]
        /\ \A u \in Tasks : state[u] = "READY" => priority'[u] = priority[u]
        /\ \A u \in Tasks \ {x} : x # Null => Level(priority'[u]) # Top(x)
        /\ owner' \in Tasks \cup {Null} /\ (x # Null => owner' \in {Null, x})
        /\ switchPending' \in BOOLEAN /\ Leaving' /\ pc' \in [Tasks -> Points]
        /\ \A u \in Tasks : pc'[u] \in {pc[u], Point("run"), Point("request"), Point("ecall")}
        /\ \A u \in Tasks : IsUser(u) => pc'[u] = Point("run")
    BY <1>1, <1>2, <1>3, <1>5 DEF Fresh, Control, Leaving
  <2>2. Waiting(h, count', owner')
    BY <1>1, <1>2, <1>3, <1>5, Kernel0 DEF Waiting
  <2>3. UNCHANGED <<links, state, ticksLeft, userMode, currentTask>>
    BY <1>1, <1>5
  <2>4. QED BY <1>2, <2>1, <2>2, <2>3, SameKeeps
<1>6. CASE /\ owner \notin {Null, t} /\ owner' = owner
           /\ priority' = [priority EXCEPT ![owner] = IF @ < priority[t] THEN priority[t] ELSE @]
           /\ links' = Enlisted(lk, Mutex, t, passed, priority)
           /\ state' = [state EXCEPT ![t] = "BLOCKED"]
           /\ pc' = [pc EXCEPT ![t] = Point("request")]
  <2>1. x = Null /\ owner \in Tasks /\ owner # t
    BY <1>2, <1>3, <1>6 DEF Fresh
  <2>2. PICK pr : pr = priority'
    OBVIOUS
  <2>3. /\ pr \in [Tasks -> Nat] /\ pr[owner] \in Nat
        /\ \A u \in Tasks \ {owner} : pr[u] = priority[u]
        /\ pr # priority => pr[owner] # priority[owner]
    BY <1>3, <1>6, <2>1, <2>2
  <2>4. /\ Housed(lk, ListNames, f) /\ Placed(f, Null, state, pr)
        /\ Others(lk, links, Apart) /\ Stay(f, h)
    <3>1. CASE moved
      <4>1. h[owner] \in ReadyNames
        <5>1. owner # x
          BY <2>1, Kernel0
        <5>2. h[owner] = Ready(Level(priority[owner])) /\ priority[owner] \in Nat
          BY <1>3, <2>1, <3>1, <5>1, Whereabouts
        <5>3. QED BY <5>2, LevelType, Kernel0, Names
      <4>2. PICK n : n = Ready(Level(pr[owner]))
        OBVIOUS
      <4>3. /\ Housed(Resorted(links, pr, owner), ListNames, Sent(h, owner, Ready(Level(pr[owner]))))
            /\ Others(Resorted(links, pr, owner), links, Apart)
        BY <1>3, <2>1, <2>3, <4>1, Requeued
      <4>4. Belongs(n, Null, owner, state, pr)
        BY <2>1, <3>1, <4>2, Kernel0 DEF Belongs
      <4>5. \A u \in Tasks \ {owner} : /\ state[u] = state[u] /\ priority[u] = pr[u]
                                       /\ u = Null <=> u = Null
        BY <2>3
      <4>6. Placed(h, Null, state, priority)
        BY <1>3, <2>1
      <4>7. Placed(Sent(h, owner, n), Null, state, pr)
        BY <2>1, <4>4, <4>5, <4>6, PlacedSent
      <4>8. Stay(Sent(h, owner, n), h)
        BY <4>2, Names DEF Stay, Sent
      <4>9. QED BY <2>2, <3>1, <4>2, <4>3, <4>7, <4>8
    <3>2. CASE ~moved
      <4>1. lk = links /\ f = h
        BY <3>2
      <4>2. \A u \in Tasks : /\ state[u] = state[u]
                             /\ u = x <=> u = Null
                             /\ state[u] = "READY" => priority[u] = pr[u]
        BY <2>1, <2>2, <2>3, <3>2
      <4>3. Placed(h, Null, state, pr)
        BY <1>3, <4>2, PlacedKept
      <4>4. QED BY <1>3, <4>1, <4>3 DEF Others, Stay
    <3>3. QED BY <3>1, <3>2
  <2> HIDE DEF lk, f, passed, moved
  <2>5. /\ Housed(Enlisted(lk, Mutex, t, passed, priority), ListNames, Sent(f, t, Mutex))
        /\ Longer(Enlisted(lk, Mutex, t, passed, priority), lk, Apart, Mutex,
                  Passing(lk, Mutex, passed), t)
    <3>1. PICK p : p = passed
      OBVIOUS
    <3>2. Fresh(Null) /\ Null \in Tasks \cup {Null} /\ Null \in {Null, t}
      BY DEF Fresh
    <3>3. /\ Housed(Enlisted(lk, Mutex, t, p, priority), ListNames, Sent(f, t, Mutex))
          /\ Longer(Enlisted(lk, Mutex, t, p, priority), lk, Apart, Mutex, Passing(lk, Mutex, p), t)
      BY <1>2, <1>3, <1>4, <2>3, <2>4, <3>2, BlockHouses
    <3>4. QED BY <3>1, <3>3
  <2>6. Timely(links', ticksLeft')
    <3>1. PICK new, after : new = links' /\ after = ticksLeft'
      OBVIOUS
    <3>2. Others(new, links, Sleepers) /\ after = ticksLeft
      BY <1>1, <1>4, <1>6, <2>4, <2>5, <3>1 DEF Longer, Others
    <3>3. Timely(new, after)
      BY <1>3, <3>2 DEF Timely, Ordered, Others
    <3>4. QED BY <3>1, <3>3
  <2>7. Waiting(Sent(f, t, Mutex), count, owner)
    <3>1. Waiting(f, count, owner)
      BY <1>3, <2>4, WaitingKept
    <3>2. QED BY <1>4, <1>6, <3>1 DEF Waiting, Sent
  <2>8. /\ ticksLeft' \in [Tasks -> Nat] /\ priority' \in [Tasks -> Nat]
        /\ Placed(f, Null, state, priority') /\ Housed(links', ListNames, Sent(f, t, Mutex))
        /\ UNCHANGED <<userMode, basePriority, count, owner, switchPending, currentTask>>
    BY <1>1, <1>3, <1>6, <2>2, <2>3, <2>4, <2>5
  <2>9. Fresh(Null) /\ Null \in Tasks \cup {Null} /\ Null \in {Null, t}
    BY DEF Fresh
  <2>10. QED BY <1>2, <1>3, <1>4, <1>6, <2>6, <2>7, <2>8, <2>9, BlockKeeps
<1>7. QED BY <1>1, <1>5, <1>6

(* task_suspend, task_delete, task_exit_handler: nobody who resumes the    *)
(* task may delete it.                                                     *)
LEMMA StopKeeps ==
  ASSUME Disciplined, NEW x \in Tasks \cup {Null}, NEW h, KernelInv(x, h), Contexts,
         NEW t \in Tasks, NEW u \in Tasks, NEW op, Does(t, op, 0),
         NEW stopped \in {"SUSPENDED", "DELETED"}, Stop(t, u, stopped),
         stopped = "DELETED" => op = "delete" \/ u = t
  PROVE  Sound'
<1> DEFINE y == IF u = x THEN Null ELSE x
           g == Sent(h, u, None)
<1>1. /\ Runs(t, Point("run")) /\ t # Idle
      /\ currentTask = t /\ pc[t] = Point("run") /\ t # Null /\ ~IsUser(t) /\ x \in {Null, t}
      /\ state[t] = "RUNNING"
      /\ \A v \in Tasks : state[v] = "RUNNING" => v = t
      /\ [op |-> op, ticks |-> 0] \in Calls[t]
  BY DoesFacts
<1>2. /\ u \in Manages[t] /\ state[u] # "BLOCKED" /\ u # Idle
      /\ links' = RemoveReady(links, priority, u)
      /\ state' = [state EXCEPT ![u] = stopped]
      /\ pc' = IF t = u THEN [pc EXCEPT ![t] = Point("request")] ELSE pc
      /\ UNCHANGED <<ticksLeft, priority, basePriority, count, owner, userMode, switchPending,
                     currentTask>>
  BY DEF Stop, Disciplined, Goto, prioVars, objectVars, taskVars, trapVars
<1>3. /\ Types /\ Control /\ Fresh(x) /\ Housed(links, ListNames, h)
      /\ Placed(h, x, state, priority) /\ Timely(links, ticksLeft) /\ Waiting(h, count, owner)
      /\ state \in [Tasks -> States] /\ pc \in [Tasks -> Points]
  BY DEF KernelInv, Lists, Types
<1>4. /\ state' \in [Tasks -> States] /\ state'[u] = stopped
      /\ \A v \in Tasks \ {u} : state'[v] = state[v]
      /\ pc' \in [Tasks -> Points] /\ \A v \in Tasks \ {t} : pc'[v] = pc[v]
      /\ pc'[t] = IF t = u THEN Point("request") ELSE Point("run")
  BY <1>1, <1>2, <1>3, PointsDiffer DEF States
<1>5. h[u] \in ReadyNames \/ h[u] = None
  <2>1. CASE u = x
    BY <1>3, <2>1, Whereabouts, TopType, Names
  <2>2. CASE u # x
    <3>1. /\ state[u] = "READY" => h[u] = Ready(Level(priority[u]))
          /\ state[u] # "READY" => h[u] = None
      BY <1>2, <1>3, <2>2, Whereabouts
    <3>2. priority[u] \in Nat
      BY <1>3 DEF Types
    <3>3. QED BY <3>1, <3>2, LevelType, Kernel0, Names
  <2>3. QED BY <2>1, <2>2
<1>6. y \in Tasks \cup {Null} /\ u # y /\ \A v \in Tasks \ {u} : v = x <=> v = y
  BY Kernel0
<1> HIDE DEF y, g
<1>7. Housed(links', ListNames, g) /\ Others(links', links, Apart)
  <2>1. /\ Housed(RemoveReady(links, priority, u), ListNames, Sent(h, u, None))
        /\ Others(RemoveReady(links, priority, u), links, Apart)
    BY <1>3, <1>5, TakenOut
  <2>2. QED BY <1>2, <2>1 DEF g
<1>8. Placed(g, y, state', priority')
  <2>1. PICK st, pr : st = state' /\ pr = priority'
    OBVIOUS
  <2>2. Belongs(None, y, u, st, pr)
    BY <1>4, <1>6, <2>1 DEF Belongs
  <2>3. \A v \in Tasks \ {u} : /\ state[v] = st[v] /\ priority[v] = pr[v]
                               /\ v = x <=> v = y
    BY <1>2, <1>4, <1>6, <2>1
  <2>4. Placed(Sent(h, u, None), y, st, pr)
    BY <1>3, <2>2, <2>3, PlacedSent
  <2>5. QED BY <2>1, <2>4 DEF g
<1>9. Timely(links', ticksLeft') /\ Waiting(g, count', owner')
  <2>1. Timely(links', ticksLeft)
    BY <1>3, <1>7, Kernel0 DEF Others, Timely, Ordered
  <2>2. Stay(g, h)
    BY Names DEF Stay, g, Sent
  <2>3. Waiting(g, count, owner)
    BY <1>3, <2>2, WaitingKept
  <2>4. ticksLeft' = ticksLeft /\ count' = count /\ owner' = owner
    BY <1>2
  <2>5. QED BY <2>1, <2>3, <2>4
<1>10. Types'
  BY <1>2, <1>3, <1>4 DEF Types
<1>11. Fresh(y)'
  <2>1. SUFFICES ASSUME y # Null PROVE Fresh(y)'
    BY DEF Fresh
  <2>2. y = x /\ x = t /\ u # t
    BY <1>1, <2>1 DEF y
  <2>3. QED BY <1>2, <1>3, <1>4, <2>2 DEF Fresh
<1>12. Resuming'
  <2>1. ASSUME NEW v \in Tasks, NEW w \in Tasks, pc'[v] = <<"resume", w>>
        PROVE  v # w /\ May(v, "resume", w) /\ state'[w] = "SUSPENDED"
    <3>1. v # t /\ pc[v] = <<"resume", w>>
      BY <1>1, <1>4, <2>1, PointsDiffer
    <3>2. v # w /\ May(v, "resume", w) /\ state[w] = "SUSPENDED"
      BY <1>3, <3>1 DEF Control, Resuming
    <3>3. CASE w # u
      BY <1>4, <3>2, <3>3
    <3>4. CASE w = u
      <4>1. t # u
        BY <1>1, <3>2, <3>4
      <4>2. op # "delete"
        <5>1. ~May(t, "delete", u)
          BY <3>1, <3>2, <3>4, <4>1 DEF Disciplined
        <5>2. QED BY <1>1, <1>2, <5>1 DEF May
      <4>3. QED BY <1>4, <3>2, <3>4, <4>1, <4>2
    <3>5. QED BY <3>3, <3>4
  <2>2. QED BY <2>1 DEF Resuming
<1>13. Leaving'
  BY <1>1, <1>2, <1>4 DEF Leaving
<1>14. Control'
  <2>1. /\ UNCHANGED <<userMode, currentTask>> /\ state'[u] # "RUNNING"
        /\ \A v \in Tasks \ {u} : state'[v] = state[v]
        /\ \A v \in Tasks \ {t} : pc'[v] \in {pc[v], Point("run")}
    BY <1>2, <1>4
  <2>2. QED BY <1>1, <1>2, <1>3, <1>12, <1>13, <2>1, ControlKept
<1>15. KernelInv(y, g)'
  BY <1>7, <1>8, <1>9, <1>10, <1>11, <1>14 DEF KernelInv, Lists
<1>16. QED BY <1>6, <1>15 DEF Sound

(* task_resume: the test ... *)
LEMMA ResumeTestKeeps ==
  ASSUME NEW x \in Tasks \cup {Null}, NEW h, KernelInv(x, h), Contexts,
         NEW t \in Tasks, NEW u \in Tasks, TaskResume(t, u)
  PROVE  Sound'
<1>1. /\ Does(t, "resume", 0) /\ u \in Manages[t] /\ state[u] = "SUSPENDED"
      /\ pc' = [pc EXCEPT ![t] = <<"resume", u>>]
      /\ UNCHANGED <<links, state, ticksLeft, priority, basePriority, count, owner, userMode,
                     switchPending, currentTask>>
  BY DEF TaskResume, Goto, listVars, prioVars, objectVars, taskVars, trapVars
<1>2. /\ Runs(t, Point("run")) /\ t # Idle
      /\ currentTask = t /\ pc[t] = Point("run") /\ t # Null /\ ~IsUser(t) /\ x \in {Null, t}
      /\ state[t] = "RUNNING"
      /\ \A v \in Tasks : state[v] = "RUNNING" => v = t
      /\ [op |-> "resume", ticks |-> 0] \in Calls[t]
  BY <1>1, DoesFacts
<1>3. Types /\ Control /\ Lists(x, h) /\ Fresh(x) /\ pc \in [Tasks -> Points]
  BY DEF KernelInv, Types
<1>4. /\ pc' \in [Tasks -> Points] /\ pc'[t] = <<"resume", u>>
      /\ \A v \in Tasks \ {t} : pc'[v] = pc[v]
  BY <1>1, <1>3, PointsDiffer
<1>5. Types' /\ Lists(x, h)' /\ Fresh(x)'
  BY <1>1, <1>3, <1>4 DEF Types, Lists, Fresh
<1>6. Resuming'
  <2>1. ASSUME NEW v \in Tasks, NEW w \in Tasks, pc'[v] = <<"resume", w>>
        PROVE  v # w /\ May(v, "resume", w) /\ state'[w] = "SUSPENDED"
    <3>1. CASE v = t
      <4>1. w = u
        BY <1>4, <2>1, <3>1, PointsDiffer
      <4>2. QED BY <1>1, <1>2, <3>1, <4>1 DEF May
    <3>2. CASE v # t
      <4>1. pc[v] = <<"resume", w>>
        BY <1>4, <2>1, <3>2
      <4>2. QED BY <1>1, <1>3, <4>1 DEF Control, Resuming
    <3>3. QED BY <3>1, <3>2
  <2>2. QED BY <2>1 DEF Resuming
<1>7. Control'
  <2>1. ASSUME NEW v \in Tasks
        PROVE  /\ state'[v] = "RUNNING" => currentTask' = v
               /\ IsUser(v)' => pc'[v] = Point("run")
    BY <1>1, <1>2, <1>3, <1>4 DEF Control, IsUser
  <2>2. state'[Idle] \in {"READY", "RUNNING"} /\ Booting' /\ Leaving'
    BY <1>1, <1>2, <1>3, Kernel0 DEF Control, Booting, Leaving
  <2>3. QED BY <1>6, <2>1, <2>2 DEF Control
<1>8. QED BY <1>5, <1>7 DEF KernelInv, Sound

(* ... and the section: the task is still suspended, and nobody else was   *)
(* about to resume it.                                                     *)
LEMMA ResumeKeeps ==
  ASSUME Disciplined, NEW x \in Tasks \cup {Null}, NEW h, KernelInv(x, h), Contexts,
         NEW t \in Tasks, NEW u \in Tasks, Resume(t, u)
  PROVE  Sound'
<1>0. PICK g : g = Sent(h, u, Ready(Level(priority[u])))
  OBVIOUS
<1>1. /\ Runs(t, <<"resume", u>>)
      /\ pc' = [pc EXCEPT ![t] = Point("run")]
      /\ links' = AddReady(links, priority, u) /\ state' = [state EXCEPT ![u] = "READY"]
      /\ UNCHANGED <<ticksLeft, priority, basePriority, count, owner, userMode,
                     switchPending, currentTask>>
  BY DEF Resume, MakeReady, Goto, prioVars, objectVars, taskVars, trapVars
<1>2. /\ currentTask = t /\ pc[t] = <<"resume", u>> /\ t # Null /\ ~IsUser(t) /\ x \in {Null, t}
      /\ state[t] = "RUNNING"
  <2>1. <<"resume", u>> \notin {Point("request"), Point("ecall")}
    BY PointsDiffer
  <2>2. /\ currentTask = t /\ pc[t] = <<"resume", u>> /\ t # Null /\ ~IsUser(t) /\ x \in {Null, t}
        /\ \A v \in Tasks : state[v] = "RUNNING" => v = t
        /\ <<"resume", u>> \notin {Point("request"), Point("ecall")} => state[t] = "RUNNING"
        /\ ~switchPending /\ <<"resume", u>> = Point("ecall") => state[t] = "RUNNING"
    BY <1>1, RunsFacts
  <2>3. QED BY <2>1, <2>2
<1>3. /\ Types /\ Control /\ Fresh(x) /\ Housed(links, ListNames, h)
      /\ Placed(h, x, state, priority) /\ Timely(links, ticksLeft) /\ Waiting(h, count, owner)
      /\ state \in [Tasks -> States] /\ pc \in [Tasks -> Points] /\ priority \in [Tasks -> Nat]
  BY DEF KernelInv, Lists, Types
<1>4. t # u /\ May(t, "resume", u) /\ state[u] = "SUSPENDED" /\ u # Idle
  BY <1>2, <1>3 DEF Control, Resuming
<1>5. /\ state' \in [Tasks -> States] /\ state'[u] = "READY"
      /\ \A v \in Tasks \ {u} : state'[v] = state[v]
      /\ pc' \in [Tasks -> Points] /\ pc'[t] = Point("run")
      /\ \A v \in Tasks \ {t} : pc'[v] = pc[v]
  BY <1>1, <1>3, PointsDiffer DEF States
<1>6. u # x /\ h[u] = None
  <2>1. u # x
    BY <1>2, <1>4, Kernel0
  <2>2. QED BY <1>3, <1>4, <2>1, Whereabouts
<1>7. Housed(links', ListNames, g) /\ Others(links', links, Apart)
  BY <1>0, <1>1, <1>3, <1>6, Readied
<1>8. Placed(g, x, state', priority')
  <2>1. PICK st : st = state'
    OBVIOUS
  <2>2. st[u] = "READY" /\ \A v \in Tasks \ {u} : st[v] = state[v]
    BY <1>5, <2>1
  <2>3. Placed(g, x, st, priority)
    BY <1>0, <1>3, <1>6, <2>2, PlacedReadied
  <2>4. QED BY <1>1, <2>1, <2>3
<1>9. Timely(links', ticksLeft') /\ Waiting(g, count', owner')
  <2>1. Timely(links', ticksLeft)
    BY <1>3, <1>7, Kernel0 DEF Others, Timely, Ordered
  <2>2. Stay(g, h)
    BY <1>0, Names DEF Stay, Sent
  <2>3. Waiting(g, count, owner)
    BY <1>3, <2>2, WaitingKept
  <2>4. ticksLeft' = ticksLeft /\ count' = count /\ owner' = owner
    BY <1>1
  <2>5. QED BY <2>1, <2>3, <2>4
<1>10. Types' /\ Fresh(x)'
  BY <1>1, <1>2, <1>3, <1>4, <1>5, <1>6 DEF Types, Fresh
<1>11. Resuming'
  <2>1. ASSUME NEW v \in Tasks, NEW w \in Tasks, pc'[v] = <<"resume", w>>
        PROVE  v # w /\ May(v, "resume", w) /\ state'[w] = "SUSPENDED"
    <3>1. v # t /\ pc[v] = <<"resume", w>>
      BY <1>5, <2>1, PointsDiffer
    <3>2. v # w /\ May(v, "resume", w) /\ state[w] = "SUSPENDED"
      BY <1>3, <3>1 DEF Control, Resuming
    <3>3. w # u
      BY <1>4, <3>1, <3>2 DEF Disciplined
    <3>4. QED BY <1>5, <3>2, <3>3
  <2>2. QED BY <2>1 DEF Resuming
<1>12. Leaving'
  BY <1>1, <1>2, <1>4, <1>5 DEF Leaving
<1>13. Control'
  <2>1. /\ UNCHANGED <<userMode, currentTask>> /\ state'[u] # "RUNNING"
        /\ \A v \in Tasks \ {u} : state'[v] = state[v]
        /\ \A v \in Tasks \ {t} : pc'[v] \in {pc[v], Point("run")}
    BY <1>1, <1>5
  <2>2. QED BY <1>2, <1>3, <1>4, <1>11, <1>12, <2>1, ControlKept
<1>14. Lists(x, g)'
  BY <1>7, <1>8, <1>9 DEF Lists
<1>15. KernelInv(x, g)'
  BY <1>10, <1>13, <1>14 DEF KernelInv
<1>16. QED BY <1>15 DEF Sound

LEMMA RetuneKeeps ==
  ASSUME Disciplined, NEW x \in Tasks \cup {Null}, NEW h, KernelInv(x, h), Contexts,
         NEW t \in Tasks, NEW u \in Tasks, TaskSetPriority(t, u)
  PROVE  Sound'
<1>1. /\ Does(t, "retune", 0) /\ u \in Manages[t] /\ u # Idle
      /\ links' = IF state[u] = "READY" THEN Resorted(links, priority', u) ELSE links
      /\ UNCHANGED <<state, ticksLeft, count, owner, userMode, switchPending, currentTask, pc>>
  BY DEF TaskSetPriority, Disciplined, objectVars, taskVars, trapVars
<1>2. PICK p \in Retunes : /\ priority' = [priority EXCEPT ![u] = p]
                           /\ basePriority' = [basePriority EXCEPT ![u] = p]
  BY DEF TaskSetPriority
<1>3. /\ Runs(t, Point("run")) /\ t # Idle
      /\ currentTask = t /\ pc[t] = Point("run") /\ t # Null /\ ~IsUser(t) /\ x \in {Null, t}
      /\ state[t] = "RUNNING"
      /\ \A v \in Tasks : state[v] = "RUNNING" => v = t
      /\ [op |-> "retune", ticks |-> 0] \in Calls[t]
  BY <1>1, DoesFacts
<1>4. /\ Types /\ Control /\ Fresh(x) /\ Housed(links, ListNames, h)
      /\ Placed(h, x, state, priority) /\ Timely(links, ticksLeft) /\ Waiting(h, count, owner)
      /\ state \in [Tasks -> States] /\ pc \in [Tasks -> Points] /\ priority \in [Tasks -> Nat]
      /\ basePriority \in [Tasks -> Nat] /\ owner \in Tasks \cup {Null} /\ switchPending \in BOOLEAN
  BY DEF KernelInv, Lists, Types
<1>5. /\ priority' \in [Tasks -> Nat] /\ basePriority' \in [Tasks -> Nat] /\ priority'[u] = p
      /\ \A v \in Tasks \ {u} : priority'[v] = priority[v]
  <2>1. p \in Nat
    BY SecureAssumption
  <2>2. QED BY <1>2, <1>4, <2>1
<1>6. \A v \in Tasks \ {x} : x # Null => Level(priority'[v]) # Top(x)
  <2>1. SUFFICES ASSUME x # Null, NEW v \in Tasks \ {x} PROVE Level(priority'[v]) # Top(x)
    OBVIOUS
  <2>2. x \in Tasks /\ Leads(x) /\ Level(priority[v]) # Top(x)
    BY <1>4, <2>1 DEF Fresh
  <2>3. Level(p) < Top(x) /\ Level(p) \in Nat /\ Top(x) \in Nat
    <3>1. p \in Nat
      BY SecureAssumption
    <3>2. Level(p) \in Nat /\ Top(x) \in Nat
      BY <2>2, <3>1, LevelType, TopType, Kernel0
    <3>3. QED BY <2>2, <3>2 DEF Leads
  <2>4. QED BY <1>5, <2>2, <2>3
<1>7. Leaving'
  BY <1>1, <1>3 DEF Leaving
<1>8. CASE state[u] # "READY"
  <2>1. UNCHANGED <<links, state, ticksLeft, userMode, currentTask>>
    BY <1>1, <1>8
  <2>2. \A v \in Tasks : state[v] = "READY" => priority'[v] = priority[v]
    BY <1>5, <1>8
  <2>3. /\ owner' \in Tasks \cup {Null} /\ (x # Null => owner' \in {Null, x})
        /\ Waiting(h, count', owner') /\ switchPending' \in BOOLEAN /\ pc' \in [Tasks -> Points]
        /\ \A v \in Tasks : pc'[v] \in {pc[v], Point("run"), Point("request"), Point("ecall")}
        /\ \A v \in Tasks : IsUser(v) => pc'[v] = Point("run")
    BY <1>1, <1>4 DEF Fresh, Control
  <2>4. QED BY <1>3, <1>5, <1>6, <1>7, <2>1, <2>2, <2>3, SameKeeps
<1>9. CASE state[u] = "READY"
  <2>1. PICK pr : pr = priority'
    OBVIOUS
  <2>2. u # x /\ pr[u] \in Nat
    BY <1>3, <1>5, <1>9, <2>1, Kernel0
  <2>3. h[u] \in ReadyNames
    <3>1. h[u] = Ready(Level(priority[u])) /\ priority[u] \in Nat
      BY <1>4, <1>9, <2>2, Whereabouts
    <3>2. QED BY <3>1, LevelType, Kernel0, Names
  <2> DEFINE n == Ready(Level(pr[u]))
             g == Sent(h, u, n)
  <2>4. Housed(links', ListNames, g) /\ Others(links', links, Apart)
    <3>1. /\ Housed(Resorted(links, pr, u), ListNames, Sent(h, u, Ready(Level(pr[u]))))
          /\ Others(Resorted(links, pr, u), links, Apart)
      BY <1>4, <2>2, <2>3, Requeued
    <3>2. QED BY <1>1, <1>9, <2>1, <3>1
  <2>5. Placed(g, x, state', priority')
    <3>1. PICK st : st = state'
      OBVIOUS
    <3>2. Belongs(n, x, u, st, pr)
      BY <1>1, <1>9, <2>2, <3>1 DEF Belongs
    <3>3. \A v \in Tasks \ {u} : /\ state[v] = st[v] /\ priority[v] = pr[v]
                                 /\ v = x <=> v = x
      BY <1>1, <1>5, <2>1, <3>1
    <3> HIDE DEF n
    <3>4. Placed(Sent(h, u, n), x, st, pr)
      BY <1>4, <3>2, <3>3, PlacedSent
    <3>5. QED BY <2>1, <3>1, <3>4
  <2>6. Timely(links', ticksLeft') /\ Waiting(g, count', owner')
    <3>1. Timely(links', ticksLeft)
      BY <1>4, <2>4, Kernel0 DEF Others, Timely, Ordered
    <3>2. Stay(g, h)
      BY Names DEF Stay, Sent
    <3> HIDE DEF g
    <3>3. Waiting(g, count, owner)
      BY <1>4, <3>2, WaitingKept
    <3>4. ticksLeft' = ticksLeft /\ count' = count /\ owner' = owner
      BY <1>1
    <3>5. QED BY <3>1, <3>3, <3>4
  <2> HIDE DEF g
  <2>7. Lists(x, g)'
    BY <2>4, <2>5, <2>6 DEF Lists
  <2>8. Types' /\ Fresh(x)'
    BY <1>1, <1>4, <1>5, <1>6 DEF Types, Fresh
  <2>9. Control'
    <3>1. ASSUME NEW v \in Tasks
          PROVE  /\ state'[v] = "RUNNING" => currentTask' = v
                 /\ IsUser(v)' => pc'[v] = Point("run")
      BY <1>1, <1>4 DEF Control, IsUser
    <3>2. state'[Idle] \in {"READY", "RUNNING"} /\ Booting' /\ Resuming'
      BY <1>1, <1>3, <1>4, Kernel0 DEF Control, Booting, Resuming
    <3>3. QED BY <1>7, <3>1, <3>2 DEF Control
  <2>10. KernelInv(x, g)'
    BY <2>7, <2>8, <2>9 DEF KernelInv
  <2>11. QED BY <2>10 DEF Sound
<1>10. QED BY <1>8, <1>9

(* task_create_priv: by demo_init, or by a task. *)
LEMMA CreateKeeps ==
  ASSUME Disciplined, NEW x \in Tasks \cup {Null}, NEW h, KernelInv(x, h), Contexts,
         NEW u \in Tasks, TaskCreatePriv(u)
  PROVE  Sound' /\ u # currentTask
<1> DEFINE cleared == SetNext(links, u, Null)
<1>0. PICK g : g = Sent(h, u, Ready(Level(priority'[u])))
  OBVIOUS
<1>1. /\ currentTask = Null => u \in BootTasks
      /\ currentTask # Null => Does(currentTask, "create", 0) /\ u \in Manages[currentTask]
      /\ state[u] \in {"FREE", "DELETED"}
      /\ state' = [state EXCEPT ![u] = "READY"]
      /\ priority' = [priority EXCEPT ![u] = InitPriority[u]]
      /\ basePriority' = [basePriority EXCEPT ![u] = InitPriority[u]]
      /\ ticksLeft' = [ticksLeft EXCEPT ![u] = 0]
      /\ links' = AddReady(SetNext(links, u, Null), priority', u)
      /\ pc' = [pc EXCEPT ![u] = Point("run")]
      /\ UNCHANGED <<userMode, count, owner, currentTask, switchPending>>
  BY DEF TaskCreatePriv, Goto, objectVars
<1>2. /\ Types /\ Control /\ Fresh(x) /\ Housed(links, ListNames, h)
      /\ Placed(h, x, state, priority) /\ Timely(links, ticksLeft) /\ Waiting(h, count, owner)
      /\ state \in [Tasks -> States] /\ pc \in [Tasks -> Points] /\ priority \in [Tasks -> Nat]
      /\ basePriority \in [Tasks -> Nat] /\ ticksLeft \in [Tasks -> Nat]
      /\ currentTask \in Tasks \cup {Null}
  BY DEF KernelInv, Lists, Types
<1>3. currentTask # Null => state[currentTask] = "RUNNING"
  <2>1. SUFFICES ASSUME currentTask # Null PROVE state[currentTask] = "RUNNING"
    OBVIOUS
  <2>2. PICK t \in Tasks : t = currentTask
    BY <1>2, <2>1
  <2>3. Does(t, "create", 0)
    BY <1>1, <2>1, <2>2
  <2>4. /\ Runs(t, Point("run")) /\ t # Idle
        /\ currentTask = t /\ pc[t] = Point("run") /\ t # Null /\ ~IsUser(t) /\ x \in {Null, t}
        /\ state[t] = "RUNNING"
        /\ \A v \in Tasks : state[v] = "RUNNING" => v = t
        /\ [op |-> "create", ticks |-> 0] \in Calls[t]
    BY <2>3, DoesFacts
  <2>5. QED BY <2>4
<1>4. u # Idle /\ u # x /\ u # currentTask
  <2>1. u # Idle
    BY <1>1, <1>2 DEF Control
  <2>2. u # x /\ u # currentTask
    BY <1>1, <1>2, <1>3, Kernel0 DEF Fresh
  <2>3. QED BY <2>1, <2>2
<1>5. /\ state' \in [Tasks -> States] /\ state'[u] = "READY"
      /\ \A v \in Tasks \ {u} : state'[v] = state[v]
      /\ pc' \in [Tasks -> Points] /\ pc'[u] = Point("run")
      /\ \A v \in Tasks \ {u} : pc'[v] = pc[v]
  BY <1>1, <1>2, PointsDiffer DEF States
<1>6. /\ priority' \in [Tasks -> Nat] /\ basePriority' \in [Tasks -> Nat]
      /\ priority'[u] = InitPriority[u]
      /\ \A v \in Tasks \ {u} : priority'[v] = priority[v]
      /\ ticksLeft' \in [Tasks -> Nat] /\ \A v \in Tasks \ {u} : ticksLeft'[v] = ticksLeft[v]
  BY <1>1, <1>2, SecureAssumption
<1>7. h[u] = None
  BY <1>1, <1>2, <1>4, Whereabouts
<1>8. Housed(links', ListNames, g) /\ Others(links', links, Apart)
  <2>1. h[u] \notin ListNames
    BY <1>7, Names
  <2>2. Housed(cleared, ListNames, h) /\ Others(cleared, links, ListNames)
    BY <1>2, <2>1, ClearedLink
  <2> HIDE DEF cleared
  <2>3. PICK pr : pr = priority'
    OBVIOUS
  <2>4. pr[u] \in Nat
    BY <1>6, <2>3
  <2>5. /\ Housed(AddReady(cleared, pr, u), ListNames, Sent(h, u, Ready(Level(pr[u]))))
        /\ Others(AddReady(cleared, pr, u), cleared, Apart)
    BY <1>7, <2>2, <2>4, Readied
  <2>6. links' = AddReady(cleared, pr, u)
    BY <1>1, <2>3 DEF cleared
  <2>7. Others(links', links, Apart)
    BY <2>2, <2>5, <2>6, Names DEF Others
  <2>8. QED BY <1>0, <2>3, <2>5, <2>6, <2>7
<1>9. Placed(g, x, state', priority')
  <2>1. PICK st, pr : st = state' /\ pr = priority'
    OBVIOUS
  <2>2. PICK n : n = Ready(Level(pr[u]))
    OBVIOUS
  <2>3. Belongs(n, x, u, st, pr)
    BY <1>4, <1>5, <2>1, <2>2 DEF Belongs
  <2>4. \A v \in Tasks \ {u} : /\ state[v] = st[v] /\ priority[v] = pr[v]
                               /\ v = x <=> v = x
    BY <1>5, <1>6, <2>1
  <2>5. Placed(Sent(h, u, n), x, st, pr)
    BY <1>2, <2>3, <2>4, PlacedSent
  <2>6. QED BY <1>0, <2>1, <2>2, <2>5
<1>10. Stay(g, h)
  BY <1>0, Names DEF Stay, Sent
<1>11. Timely(links', ticksLeft') /\ Waiting(g, count', owner')
  <2>1. PICK new, after : new = links' /\ after = ticksLeft'
    OBVIOUS
  <2>2. /\ Others(new, links, Sleepers)
        /\ \A v \in Tasks : h[v] \in Sleepers => after[v] = ticksLeft[v]
    BY <1>6, <1>7, <1>8, <2>1, Kernel0, Names DEF Others
  <2>3. Timely(new, after)
    BY <1>2, <2>2, TimelyKept
  <2>4. Waiting(g, count, owner)
    BY <1>2, <1>10, WaitingKept
  <2>5. QED BY <1>1, <2>1, <2>3, <2>4
<1>12. Lists(x, g)'
  BY <1>8, <1>9, <1>11 DEF Lists
<1>13. Types'
  BY <1>1, <1>2, <1>5, <1>6 DEF Types
<1>14. Fresh(x)'
  <2>1. SUFFICES ASSUME x # Null PROVE Fresh(x)'
    BY DEF Fresh
  <2>2. x \in Tasks /\ Leads(x) /\ u \in Tasks \ {x, Idle}
    BY <1>2, <1>4, <2>1
        DEF Fresh
  <2>3. Level(priority'[u]) # Top(x)
    <3>1. Level(InitPriority[u]) < Top(x)
      BY <2>2 DEF Leads
    <3>2. Level(InitPriority[u]) \in Nat /\ Top(x) \in Nat
      BY <2>2, LevelType, TopType, Kernel0, SecureAssumption
    <3>3. QED BY <1>6, <3>1, <3>2
  <2>4. \A v \in Tasks \ {x} : state'[v] # "BLOCKED" /\ Level(priority'[v]) # Top(x)
    BY <1>2, <1>5, <1>6, <2>1, <2>3 DEF Fresh
  <2>5. QED BY <1>1, <1>2, <1>4, <1>5, <2>1, <2>4 DEF Fresh
<1>15. Control'
  <2>1. ASSUME NEW v \in Tasks
        PROVE  /\ state'[v] = "RUNNING" => currentTask' = v
               /\ IsUser(v)' => pc'[v] = Point("run")
    BY <1>1, <1>2, <1>5 DEF Control, IsUser
  <2>2. state'[Idle] \in {"READY", "RUNNING"}
    BY <1>2, <1>4, <1>5, Kernel0 DEF Control
  <2>3. Booting'
    BY <1>1, <1>2, <1>5, <1>6 DEF Control, Booting
  <2>4. Leaving'
    BY <1>1, <1>2, <1>3, <1>4, <1>5 DEF Leaving
  <2>5. Resuming'
    <3>1. ASSUME NEW v \in Tasks, NEW w \in Tasks, pc'[v] = <<"resume", w>>
          PROVE  v # w /\ May(v, "resume", w) /\ state'[w] = "SUSPENDED"
      <4>1. pc[v] = <<"resume", w>>
        BY <1>5, <3>1, PointsDiffer
      <4>2. v # w /\ May(v, "resume", w) /\ state[w] = "SUSPENDED"
        BY <1>2, <4>1 DEF Control, Resuming
      <4>3. QED BY <1>1, <1>5, <4>2
    <3>2. QED BY <3>1 DEF Resuming
  <2>6. QED BY <2>1, <2>2, <2>3, <2>4, <2>5 DEF Control
<1>16. KernelInv(x, g)'
  BY <1>12, <1>13, <1>14, <1>15 DEF KernelInv
<1>17. QED BY <1>4, <1>16 DEF Sound

-----------------------------------------------------------------------------
(* The semaphore is signalled, or the mutex unlocked. *)

LEMMA NobodyThere ==
  ASSUME NEW lk, NEW h, Housed(lk, ListNames, h), NEW l \in Apart, lk.head[l] = Null
  PROVE  \A v \in Tasks : h[v] # l
<1>1. l \in ListNames
  BY Names
<1>2. /\ Len(Chain(lk, l)) \in Nat
      /\ \A i \in 1..Len(Chain(lk, l)) : Chain(lk, l)[i] \in Tasks
      /\ lk.head[l] = At(Chain(lk, l), 1)
      /\ \A v \in Tasks : On(lk, l, v) <=> h[v] = l
  BY <1>1, HousedList
<1>3. ~(1 \in 1..Len(Chain(lk, l)))
  BY <1>2, Kernel0 DEF At
<1>4. QED BY <1>2, <1>3 DEF On

(* The first waiter is made ready, by a task that is not the first one:    *)
(* nobody has blocked before that one is switched away from.               *)
LEMMA WakeKeeps ==
  ASSUME NEW x \in Tasks \cup {Null}, NEW h, KernelInv(x, h),
         NEW t \in Tasks, currentTask = t, state[t] = "RUNNING", ~IsUser(t),
         NEW l \in Apart, l \notin Sleepers, links.head[l] # Null,
         links' = WokenLists(links, l, priority),
         state' = [state EXCEPT ![links.head[l]] = "READY"],
         switchPending' = TRUE,
         UNCHANGED <<ticksLeft, basePriority, userMode, currentTask, pc>>,
         priority' \in [Tasks -> Nat], \A v \in Tasks \ {t} : priority'[v] = priority[v],
         owner' \in Tasks \cup {Null},
         Waiting(WokenHome(links, l, priority, h), count', owner')
  PROVE  Sound'
<1>1. /\ Types /\ Control /\ Fresh(x) /\ Housed(links, ListNames, h)
      /\ Placed(h, x, state, priority) /\ Timely(links, ticksLeft)
      /\ state \in [Tasks -> States] /\ pc \in [Tasks -> Points] /\ priority \in [Tasks -> Nat]
  BY DEF KernelInv, Lists, Types
<1>2. PICK u : u = links.head[l]
  OBVIOUS
<1>3. PICK g : g = WokenHome(links, l, priority, h)
  OBVIOUS
<1>4. /\ links.head[l] \in Tasks /\ links.head[l] # x
      /\ state[links.head[l]] = "BLOCKED" /\ h[links.head[l]] = l
      /\ Len(Chain(links, l)) > 0
      /\ Housed(WokenLists(links, l, priority), ListNames, WokenHome(links, l, priority, h))
      /\ Stay(WokenHome(links, l, priority, h), h)
      /\ Chain(WokenLists(links, l, priority), l) = Without(Chain(links, l), 1)
      /\ Others(WokenLists(links, l, priority), links, Apart \ {l})
  BY <1>1, FirstWoken
<1>5. /\ u \in Tasks /\ u # x /\ state[u] = "BLOCKED" /\ u # t /\ u # Idle /\ x = Null
  BY <1>1, <1>2, <1>4 DEF Fresh, Control
<1>6. /\ state' \in [Tasks -> States] /\ state'[u] = "READY"
      /\ \A v \in Tasks \ {u} : state'[v] = state[v]
  BY <1>1, <1>2, <1>5 DEF States
<1>7. Placed(g, Null, state', priority')
  <2>1. PICK st, pr : st = state' /\ pr = priority'
    OBVIOUS
  <2>2. st[u] = "READY" /\ \A v \in Tasks \ {u} : st[v] = state[v]
    BY <1>6, <2>1
  <2>3. Placed(Sent(h, u, Ready(Level(priority[u]))), x, st, priority)
    BY <1>1, <1>5, <2>2, PlacedReadied
  <2>4. Placed(g, x, st, priority)
    BY <1>2, <1>3, <2>3 DEF WokenHome
  <2>5. \A v \in Tasks : /\ st[v] = st[v]
                         /\ v = x <=> v = Null
                         /\ st[v] = "READY" => priority[v] = pr[v]
    BY <1>5, <2>1, <2>2
  <2>6. Placed(g, Null, st, pr)
    BY <2>4, <2>5, PlacedKept
  <2>7. QED BY <2>1, <2>6
<1>8. Timely(links', ticksLeft')
  <2>1. PICK new : new = links'
    OBVIOUS
  <2>2. Others(new, links, Sleepers)
    BY <1>4, <2>1, Kernel0 DEF Others
  <2>3. Timely(new, ticksLeft)
    BY <1>1, <2>2 DEF Timely, Ordered, Others
  <2>4. QED BY <2>1, <2>3
<1>9. Lists(Null, g)'
  BY <1>3, <1>4, <1>7, <1>8 DEF Lists
<1>10. Types'
  BY <1>1, <1>6 DEF Types
<1>11. Control'
  <2>1. Leaving'
    BY <1>5, <1>6 DEF Leaving
  <2>2. Resuming'
    BY <1>1, <1>5, <1>6 DEF Control, Resuming
  <2>3. /\ UNCHANGED <<userMode, currentTask>> /\ state'[u] # "RUNNING"
        /\ \A v \in Tasks \ {u} : state'[v] = state[v]
        /\ \A v \in Tasks \ {t} : pc'[v] \in {pc[v], Point("run")}
    BY <1>6
  <2>4. QED BY <1>1, <1>5, <2>1, <2>2, <2>3, ControlKept
<1>12. KernelInv(Null, g)'
  BY <1>9, <1>10, <1>11 DEF KernelInv, Fresh
<1>13. QED BY <1>12 DEF Sound

LEMMA SignalKeeps ==
  ASSUME NEW x \in Tasks \cup {Null}, NEW h, KernelInv(x, h), Contexts,
         NEW t \in Tasks, SemSignal(t)
  PROVE  Sound'
<1>1. /\ Does(t, "semSignal", 0)
      /\ UNCHANGED <<owner, ticksLeft, priority, basePriority, userMode, currentTask, pc>>
      /\ links.head[Sem] # Null =>
           /\ links' = WokenLists(links, Sem, priority)
           /\ state' = [state EXCEPT ![links.head[Sem]] = "READY"]
           /\ switchPending' = TRUE /\ count' = count
      /\ links.head[Sem] = Null => UNCHANGED <<links, state, switchPending>>
  BY DEF SemSignal, WakeFirst, MakeReady, WokenLists, prioVars, taskVars, trapVars
<1>2. /\ Runs(t, Point("run")) /\ t # Idle
      /\ currentTask = t /\ pc[t] = Point("run") /\ t # Null /\ ~IsUser(t) /\ x \in {Null, t}
      /\ state[t] = "RUNNING"
      /\ \A u \in Tasks : state[u] = "RUNNING" => u = t
      /\ [op |-> "semSignal", ticks |-> 0] \in Calls[t]
  BY <1>1, DoesFacts
<1>3. /\ Types /\ Control /\ Fresh(x) /\ Housed(links, ListNames, h)
      /\ Placed(h, x, state, priority) /\ Waiting(h, count, owner)
      /\ priority \in [Tasks -> Nat] /\ basePriority \in [Tasks -> Nat]
      /\ owner \in Tasks \cup {Null} /\ switchPending \in BOOLEAN /\ pc \in [Tasks -> Points]
  BY DEF KernelInv, Lists, Types
<1>4. Sem \in Apart /\ Sem \notin Sleepers
  BY Names DEF Sleepers
<1>5. CASE links.head[Sem] # Null
  <2>1. /\ links.head[Sem] \in Tasks /\ links.head[Sem] # x
        /\ state[links.head[Sem]] = "BLOCKED" /\ h[links.head[Sem]] = Sem
        /\ Len(Chain(links, Sem)) > 0
        /\ Housed(WokenLists(links, Sem, priority), ListNames, WokenHome(links, Sem, priority, h))
        /\ Stay(WokenHome(links, Sem, priority, h), h)
        /\ Chain(WokenLists(links, Sem, priority), Sem) = Without(Chain(links, Sem), 1)
        /\ Others(WokenLists(links, Sem, priority), links, Apart \ {Sem})
    BY <1>3, <1>4, <1>5, FirstWoken
  <2>2. Waiting(WokenHome(links, Sem, priority, h), count, owner)
    BY <1>3, <2>1, WaitingKept
  <2>3. count' = count /\ owner' = owner
    BY <1>1, <1>5
  <2>4. Waiting(WokenHome(links, Sem, priority, h), count', owner')
    BY <2>2, <2>3
  <2>5. /\ priority' \in [Tasks -> Nat] /\ \A v \in Tasks \ {t} : priority'[v] = priority[v]
        /\ owner' \in Tasks \cup {Null}
        /\ UNCHANGED <<ticksLeft, basePriority, userMode, currentTask, pc>>
        /\ links' = WokenLists(links, Sem, priority)
        /\ state' = [state EXCEPT ![links.head[Sem]] = "READY"] /\ switchPending' = TRUE
    BY <1>1, <1>3, <1>5
  <2>6. QED BY <1>2, <1>4, <1>5, <2>4, <2>5, WakeKeeps
<1>6. CASE links.head[Sem] = Null
  <2>1. \A v \in Tasks : h[v] # Sem
    BY <1>3, <1>4, <1>6, NobodyThere
  <2>2. Waiting(h, count', owner')
    BY <1>1, <1>3, <2>1 DEF Waiting
  <2>3. UNCHANGED <<links, state, ticksLeft, userMode, currentTask>>
    BY <1>1, <1>6
  <2>4. /\ priority' \in [Tasks -> Nat] /\ basePriority' \in [Tasks -> Nat]
        /\ \A u \in Tasks : state[u] = "READY" => priority'[u] = priority[u]
        /\ \A u \in Tasks \ {x} : x # Null => Level(priority'[u]) # Top(x)
        /\ owner' \in Tasks \cup {Null} /\ (x # Null => owner' \in {Null, x})
        /\ switchPending' \in BOOLEAN /\ Leaving' /\ pc' \in [Tasks -> Points]
        /\ \A u \in Tasks : pc'[u] \in {pc[u], Point("run"), Point("request"), Point("ecall")}
        /\ \A u \in Tasks : IsUser(u) => pc'[u] = Point("run")
    BY <1>1, <1>3, <1>6 DEF Fresh, Control, Leaving
  <2>5. QED BY <1>2, <2>2, <2>3, <2>4, SameKeeps
<1>7. QED BY <1>5, <1>6

LEMMA UnlockKeeps ==
  ASSUME NEW x \in Tasks \cup {Null}, NEW h, KernelInv(x, h), Contexts,
         NEW t \in Tasks, MutexUnlock(t)
  PROVE  Sound'
<1>1. /\ Does(t, "unlock", 0) /\ owner = t
      /\ UNCHANGED <<count, ticksLeft, basePriority, userMode, currentTask, pc>>
      /\ \/ UNCHANGED <<links, state, priority, owner, switchPending>>
         \/ /\ priority' = [priority EXCEPT ![t] = basePriority[t]]
            /\ owner' = links.head[Mutex]
            /\ links.head[Mutex] # Null =>
                 /\ links' = WokenLists(links, Mutex, priority)
                 /\ state' = [state EXCEPT ![links.head[Mutex]] = "READY"]
                 /\ switchPending' = TRUE
            /\ links.head[Mutex] = Null => UNCHANGED <<links, state, switchPending>>
  BY DEF MutexUnlock, WakeFirst, MakeReady, WokenLists, taskVars, trapVars
<1>2. /\ Runs(t, Point("run")) /\ t # Idle
      /\ currentTask = t /\ pc[t] = Point("run") /\ t # Null /\ ~IsUser(t) /\ x \in {Null, t}
      /\ state[t] = "RUNNING"
      /\ \A u \in Tasks : state[u] = "RUNNING" => u = t
      /\ [op |-> "unlock", ticks |-> 0] \in Calls[t]
  BY <1>1, DoesFacts
<1>3. /\ Types /\ Control /\ Fresh(x) /\ Housed(links, ListNames, h)
      /\ Placed(h, x, state, priority) /\ Waiting(h, count, owner)
      /\ priority \in [Tasks -> Nat] /\ basePriority \in [Tasks -> Nat]
      /\ owner \in Tasks \cup {Null} /\ switchPending \in BOOLEAN /\ pc \in [Tasks -> Points]
  BY DEF KernelInv, Lists, Types
<1>4. Mutex \in Apart /\ Mutex \notin Sleepers /\ Mutex # Sem
  BY Names DEF Sleepers
<1>5. /\ basePriority' \in [Tasks -> Nat] /\ pc' \in [Tasks -> Points] /\ Leaving'
      /\ \A u \in Tasks : pc'[u] \in {pc[u], Point("run"), Point("request"), Point("ecall")}
      /\ \A u \in Tasks : IsUser(u) => pc'[u] = Point("run")
  <2>1. state'[t] = "RUNNING"
    <3>1. CASE state' = state
      BY <1>2, <3>1
    <3>2. CASE links.head[Mutex] # Null /\ state' = [state EXCEPT ![links.head[Mutex]] = "READY"]
      <4>1. /\ links.head[Mutex] \in Tasks /\ links.head[Mutex] # x
            /\ state[links.head[Mutex]] = "BLOCKED" /\ h[links.head[Mutex]] = Mutex
            /\ Len(Chain(links, Mutex)) > 0
            /\ Housed(WokenLists(links, Mutex, priority), ListNames, WokenHome(links, Mutex, priority, h))
            /\ Stay(WokenHome(links, Mutex, priority, h), h)
            /\ Chain(WokenLists(links, Mutex, priority), Mutex) = Without(Chain(links, Mutex), 1)
            /\ Others(WokenLists(links, Mutex, priority), links, Apart \ {Mutex})
        BY <1>3, <1>4, <3>2, FirstWoken
      <4>2. links.head[Mutex] # t /\ state \in [Tasks -> States]
        BY <1>2, <1>3, <4>1 DEF Types
      <4>3. QED BY <1>2, <3>2, <4>2
    <3>3. QED BY <1>1, <3>1, <3>2
  <2>2. QED BY <1>1, <1>2, <1>3, <2>1 DEF Control, Leaving
<1>6. CASE UNCHANGED <<links, state, priority, owner, switchPending>>
  <2>1. UNCHANGED <<links, state, ticksLeft, userMode, currentTask>>
    BY <1>1, <1>6
  <2>2. /\ priority' \in [Tasks -> Nat]
        /\ \A u \in Tasks : state[u] = "READY" => priority'[u] = priority[u]
        /\ \A u \in Tasks \ {x} : x # Null => Level(priority'[u]) # Top(x)
        /\ owner' \in Tasks \cup {Null} /\ (x # Null => owner' \in {Null, x})
        /\ switchPending' \in BOOLEAN /\ Waiting(h, count', owner')
    BY <1>1, <1>3, <1>6 DEF Fresh
  <2>3. QED BY <1>2, <1>5, <2>1, <2>2, SameKeeps
<1>7. CASE /\ priority' = [priority EXCEPT ![t] = basePriority[t]]
           /\ owner' = links.head[Mutex]
           /\ links.head[Mutex] # Null =>
                /\ links' = WokenLists(links, Mutex, priority)
                /\ state' = [state EXCEPT ![links.head[Mutex]] = "READY"]
                /\ switchPending' = TRUE
           /\ links.head[Mutex] = Null => UNCHANGED <<links, state, switchPending>>
  <2>1. /\ priority' \in [Tasks -> Nat]
        /\ \A v \in Tasks \ {t} : priority'[v] = priority[v]
    BY <1>3, <1>7
  <2>2. CASE links.head[Mutex] # Null
    <3>1. PICK u : u = links.head[Mutex]
      OBVIOUS
    <3>2. /\ links.head[Mutex] \in Tasks /\ links.head[Mutex] # x
          /\ state[links.head[Mutex]] = "BLOCKED" /\ h[links.head[Mutex]] = Mutex
          /\ Len(Chain(links, Mutex)) > 0
          /\ Housed(WokenLists(links, Mutex, priority), ListNames, WokenHome(links, Mutex, priority, h))
          /\ Stay(WokenHome(links, Mutex, priority, h), h)
          /\ Chain(WokenLists(links, Mutex, priority), Mutex) = Without(Chain(links, Mutex), 1)
          /\ Others(WokenLists(links, Mutex, priority), links, Apart \ {Mutex})
      BY <1>3, <1>4, <2>2, FirstWoken
    <3>3. PICK g : g = WokenHome(links, Mutex, priority, h)
      OBVIOUS
    <3>4. /\ g[u] # Mutex /\ g[u] # Sem
          /\ \A v \in Tasks \ {u} : g[v] = h[v]
      BY <3>1, <3>2, <3>3, Names DEF WokenHome, Sent
    <3>5. Waiting(g, count', owner')
      <4>1. ASSUME NEW v \in Tasks
            PROVE  (g[v] = Sem => count' = 0) /\ (g[v] = Mutex => owner' \notin {Null, v})
        BY <1>1, <1>3, <1>7, <2>2, <3>1, <3>4 DEF Waiting
      <4>2. QED BY <4>1 DEF Waiting
    <3>6. /\ owner' \in Tasks \cup {Null} /\ Waiting(WokenHome(links, Mutex, priority, h), count', owner')
          /\ UNCHANGED <<ticksLeft, basePriority, userMode, currentTask, pc>>
          /\ links' = WokenLists(links, Mutex, priority)
          /\ state' = [state EXCEPT ![links.head[Mutex]] = "READY"] /\ switchPending' = TRUE
      BY <1>1, <1>7, <2>2, <3>2, <3>3, <3>5
    <3>7. QED BY <1>2, <1>4, <2>1, <2>2, <3>6, WakeKeeps
  <2>3. CASE links.head[Mutex] = Null
    <3>1. \A v \in Tasks : h[v] # Mutex
      BY <1>3, <1>4, <2>3, NobodyThere
    <3>2. UNCHANGED <<links, state, ticksLeft, userMode, currentTask>>
      BY <1>1, <1>7, <2>3
    <3>3. /\ \A u \in Tasks : state[u] = "READY" => priority'[u] = priority[u]
          /\ \A u \in Tasks \ {x} : x # Null => Level(priority'[u]) # Top(x)
          /\ owner' \in Tasks \cup {Null} /\ (x # Null => owner' \in {Null, x})
          /\ switchPending' \in BOOLEAN /\ Waiting(h, count', owner')
      <4>1. \A u \in Tasks : state[u] = "READY" => u # t
        BY <1>2
      <4>2. \A u \in Tasks \ {x} : x # Null => u # t
        BY <1>2
      <4>3. QED BY <1>1, <1>3, <1>7, <2>1, <2>3, <3>1, <4>1, <4>2 DEF Fresh, Waiting
    <3>4. QED BY <1>2, <1>5, <2>1, <3>2, <3>3, SameKeeps
  <2>4. QED BY <2>2, <2>3
<1>8. QED BY <1>1, <1>6, <1>7

-----------------------------------------------------------------------------
(* Into a trap and out of it.                                              *)

LEMMA StacksDiffer ==
  /\ \A t \in Tasks : Kernel(t) \in Stacks /\ Own(t) \in Stacks /\ FrameStack(t) \in Stacks
  /\ \A t, u \in Tasks : FrameStack(t) = FrameStack(u) => t = u
  /\ \A t \in Tasks : <<Kernel(t), 0>> # Zero /\ <<Own(t), 0>> # Zero
  /\ \A t, u \in Tasks : <<Own(t), 0>> = <<Own(u), 0>> => t = u
BY Kernel0 DEF Stacks, Kernel, Own, FrameStack, Zero

(* With CONFIG_USER_MODE the idle task alone runs in machine mode. *)
LEMMA OnlyIdle ==
  ASSUME Disciplined, userMode \in Builds, NEW t \in Tasks, userMode = TRUE, ~IsUser(t)
  PROVE  t = Idle
BY DEF Disciplined, IsUser

(* What a trap may leave in mscratch for a task in machine mode. *)
Clean(scratch) == scratch = Zero \/ (userMode = TRUE /\ scratch = <<Own(Idle), 0>>)

LEMMA OneFrame ==
  ASSUME NEW f
  PROVE  /\ Append(SubSeq(<<>>, 1, 0), f) = <<f>>
         /\ SubSeq(<<f>>, 1, 0) = <<>> /\ <<f>>[1] = f
<1>1. SubSeq(<<>>, 1, 0) = <<>> /\ SubSeq(<<f>>, 1, 0) = <<>>
  BY SubSeqEmpty
<1>2. Append(<<>>, f) = <<f>> /\ <<f>>[1] = f
  OBVIOUS
<1>3. Append(SubSeq(<<>>, 1, 0), f) = <<f>>
  BY <1>1, <1>2
<1>4. QED BY <1>1, <1>2, <1>3

LEMMA Rewritten ==
  ASSUME NEW r \in Hart, NEW mode, NEW sp, NEW scratch
  PROVE  [r EXCEPT !.mode = mode, !.sp = sp, !.mscratch = scratch]
           = [mode |-> mode, sp |-> sp, mscratch |-> scratch, pmpaddr |-> r.pmpaddr]
<1> DEFINE a == [r EXCEPT !.mode = mode]
           b == [a EXCEPT !.sp = sp]
           c == [b EXCEPT !.mscratch = scratch]
<1>1. [r EXCEPT !.mode = mode, !.sp = sp, !.mscratch = scratch] = c
  OBVIOUS
<1>2. a = [mode |-> mode, sp |-> r.sp, mscratch |-> r.mscratch, pmpaddr |-> r.pmpaddr]
  BY DEF Hart
<1> HIDE DEF a
<1>3. b = [mode |-> mode, sp |-> sp, mscratch |-> r.mscratch, pmpaddr |-> r.pmpaddr]
  BY <1>2
<1> HIDE DEF b
<1>4. c = [mode |-> mode, sp |-> sp, mscratch |-> scratch, pmpaddr |-> r.pmpaddr]
  BY <1>3
<1> HIDE DEF c
<1>5. QED BY <1>1, <1>4

(* The hart r in another mode, on another stack. *)
Turned(r, mode, sp, scratch) == [r EXCEPT !.mode = mode, !.sp = sp, !.mscratch = scratch]

LEMMA TurnedIs ==
  ASSUME NEW r \in Hart, NEW mode, NEW sp, NEW scratch
  PROVE  Turned(r, mode, sp, scratch)
           = [mode |-> mode, sp |-> sp, mscratch |-> scratch, pmpaddr |-> r.pmpaddr]
BY Rewritten DEF Turned

(* trap_entry, when task t runs: the frame it started with is built on its *)
(* empty stack.                                                            *)
LEMMA TrapEnters ==
  ASSUME Disciplined, Types, Contexts, NEW t \in Tasks, currentTask = t, Running(t)
  PROVE  /\ TrapEntry.hart \in Hart
         /\ TrapEntry.hart.sp = <<FrameStack(t), 1>>
         /\ Clean(TrapEntry.hart.mscratch)
         /\ TrapEntry.frames = [s \in Stacks |-> IF s = FrameStack(t) THEN <<FirstFrame(t)>>
                                                 ELSE frames[s]]
<1> DEFINE found == userMode /\ hart.mscratch # Zero
           sp == IF found THEN hart.mscratch ELSE hart.sp
           frame == [task |-> currentTask, mode |-> hart.mode, sp |-> hart.sp]
           scratch == IF ~userMode THEN hart.mscratch ELSE IF found THEN Zero ELSE hart.sp
           after == [hart EXCEPT !.mode = "M", !.sp = <<sp[1], sp[2] + 1>>, !.mscratch = scratch]
           built == [frames EXCEPT ![sp[1]] = Append(SubSeq(@, 1, sp[2]), frame)]
<1>1. TrapEntry = [hart |-> after, frames |-> built]
  BY DEF TrapEntry
<1>2. /\ hart \in Hart /\ frames = [s \in Stacks |-> frames[s]]
      /\ hart.mode = IF IsUser(t) THEN "U" ELSE "M"
      /\ hart.sp = <<Own(t), 0>> /\ frames[FrameStack(t)] = <<>>
      /\ ScratchOf(t, hart.mscratch) /\ userMode \in BOOLEAN /\ userMode \in Builds
  BY DEF Contexts, Running, Types
<1>3. sp = <<FrameStack(t), 0>> /\ Clean(scratch)
  <2>1. CASE IsUser(t)
    <3>1. hart.mscratch = <<Kernel(t), 0>> /\ userMode = TRUE
      BY <1>2, <2>1 DEF ScratchOf, IsUser
    <3>2. found
      BY <3>1, StacksDiffer
    <3>3. QED BY <2>1, <3>1, <3>2 DEF FrameStack, Clean
  <2>2. CASE ~IsUser(t) /\ userMode = TRUE
    <3>1. t = Idle
      BY <1>2, <2>2, OnlyIdle
    <3>2. hart.mscratch \in {Zero, <<Own(t), 0>>}
      BY <1>2, <2>2 DEF ScratchOf
    <3>3. QED BY <1>2, <2>2, <3>1, <3>2 DEF FrameStack, Clean
  <2>3. CASE ~IsUser(t) /\ userMode = FALSE
    <3>1. hart.mscratch = Zero
      BY <1>2, <2>3 DEF ScratchOf
    <3>2. QED BY <1>2, <2>3, <3>1 DEF FrameStack, Clean
  <2>4. QED BY <1>2, <2>1, <2>2, <2>3
<1>4. sp[1] = FrameStack(t) /\ sp[2] = 0
  BY <1>3
<1>5. frame = FirstFrame(t)
  BY <1>2 DEF FirstFrame
<1> HIDE DEF sp, frame, scratch
<1>6. after \in Hart /\ after.sp = <<FrameStack(t), 1>> /\ after.mscratch = scratch
  <2>1. scratch \in (Stacks \cup {<<Null, "none">>}) \X Nat
    BY <1>3, StacksDiffer, Kernel0 DEF Clean, Zero
  <2>2. <<sp[1], sp[2] + 1>> = <<FrameStack(t), 1>>
    BY <1>4
  <2>3. FrameStack(t) \in Stacks
    BY StacksDiffer
  <2>4. PICK top : top = <<sp[1], sp[2] + 1>>
    OBVIOUS
  <2>5. after = [mode |-> "M", sp |-> top, mscratch |-> scratch, pmpaddr |-> hart.pmpaddr]
    <3>1. PICK r, mode, last : r = hart /\ mode = "M" /\ last = scratch
      OBVIOUS
    <3>2. after = Turned(r, mode, top, last)
      BY <2>4, <3>1, Zenon DEF Turned
    <3>3. r \in Hart
      BY <1>2, <3>1
    <3> HIDE DEF after
    <3>4. after = [mode |-> mode, sp |-> top, mscratch |-> last, pmpaddr |-> r.pmpaddr]
      BY <3>2, <3>3, TurnedIs
    <3>5. QED BY <3>1, <3>4
  <2> HIDE DEF after
  <2>6. hart.pmpaddr \in {PmpInit}
    BY <1>2 DEF Hart
  <2>7. QED BY <2>1, <2>2, <2>3, <2>4, <2>5, <2>6 DEF Hart
<1>7. built = [s \in Stacks |-> IF s = FrameStack(t) THEN <<FirstFrame(t)>> ELSE frames[s]]
  <2>1. FrameStack(t) \in Stacks
    BY StacksDiffer
  <2>2. Append(SubSeq(frames[FrameStack(t)], 1, 0), frame) = <<FirstFrame(t)>>
    BY <1>2, <1>5, OneFrame
  <2>3. built = [frames EXCEPT ![FrameStack(t)] = <<FirstFrame(t)>>]
    BY <1>4, <2>2
  <2> HIDE DEF built
  <2>4. QED BY <1>2, <2>1, <2>3
<1> HIDE DEF after, built
<1>8. QED BY <1>1, <1>3, <1>6, <1>7

(* Task n runs, when the hart is as in hh and the frames as in fr. *)
Entered(n, hh, fr) == /\ hh.mode = IF IsUser(n) THEN "U" ELSE "M"
                      /\ hh.sp = <<Own(n), 0>>
                      /\ fr[FrameStack(n)] = <<>>
                      /\ ScratchOf(n, hh.mscratch)

(* trap_exit to task n: its frame is taken off its stack. *)
LEMMA TrapExits ==
  ASSUME Disciplined, Types, NEW n \in Tasks, NEW hh \in Hart, Clean(hh.mscratch),
         NEW fs, fs = [s \in Stacks |-> fs[s]], fs[FrameStack(n)] = <<FirstFrame(n)>>,
         TrapExit(hh, fs, <<FrameStack(n), 1>>)
  PROVE  /\ hart' \in Hart /\ Entered(n, hart', frames')
         /\ frames' = [s \in Stacks |-> IF s = FrameStack(n) THEN <<>> ELSE fs[s]]
<1> DEFINE sp == <<FrameStack(n), 1>>
           frame == fs[sp[1]][sp[2]]
<1>1. userMode \in BOOLEAN /\ userMode \in Builds
  BY DEF Types
<1>2. sp[1] = FrameStack(n) /\ sp[2] = 1 /\ frame = FirstFrame(n)
  BY OneFrame
<1>3. /\ hart' = [hh EXCEPT !.mode = frame.mode, !.sp = frame.sp,
                            !.mscratch = ScratchFor(frame, hh, sp)]
      /\ frames' = [fs EXCEPT ![sp[1]] = SubSeq(@, 1, sp[2] - 1)]
  BY DEF TrapExit
<1>4. /\ frame.mode = IF IsUser(n) THEN "U" ELSE "M"
      /\ frame.sp = <<Own(n), 0>>
  BY <1>2 DEF FirstFrame
<1> DEFINE scratch == ScratchFor(frame, hh, sp)
<1>5. /\ IsUser(n) => scratch = <<Kernel(n), 0>>
      /\ ~IsUser(n) => scratch = hh.mscratch
  <2>1. <<sp[1], sp[2] - 1>> = <<FrameStack(n), 0>>
    BY <1>2
  <2> HIDE DEF sp, frame
  <2>2. QED BY <1>4, <2>1 DEF ScratchFor, FrameStack
<1>6. ScratchOf(n, scratch)
  <2>1. CASE IsUser(n)
    BY <1>5, <2>1 DEF ScratchOf
  <2>2. CASE ~IsUser(n)
    <3>1. userMode = TRUE => n = Idle
      BY <1>1, <2>2, OnlyIdle
    <3>2. QED BY <1>1, <1>5, <2>2, <3>1 DEF ScratchOf, Clean
  <2>3. QED BY <2>1, <2>2
<1> HIDE DEF sp, frame, scratch
<1>7. scratch \in (Stacks \cup {<<Null, "none">>}) \X Nat /\ FrameStack(n) \in Stacks
  <2>1. Kernel(n) \in Stacks /\ FrameStack(n) \in Stacks
    BY StacksDiffer
  <2>2. hh.mscratch \in (Stacks \cup {<<Null, "none">>}) \X Nat
    BY DEF Hart
  <2>3. QED BY <1>5, <2>1, <2>2
<1>8. hart' = [hh EXCEPT !.mode = frame.mode, !.sp = frame.sp, !.mscratch = scratch]
  BY <1>3 DEF scratch
<1>9. /\ hart' \in Hart /\ hart'.mode = frame.mode /\ hart'.sp = frame.sp
      /\ hart'.mscratch = scratch
  <2>1. /\ frame.mode \in {"M", "U", "halted"}
        /\ frame.sp \in (Stacks \cup {<<Null, "none">>}) \X Nat
    BY <1>4, StacksDiffer
  <2>2. PICK r, mode, top, last :
          r = hh /\ mode = frame.mode /\ top = frame.sp /\ last = scratch
    OBVIOUS
  <2>3. hart' = Turned(r, mode, top, last)
    BY <1>8, <2>2, Zenon DEF Turned
  <2>4. r \in Hart
    BY <2>2
  <2>5. hart' = [mode |-> mode, sp |-> top, mscratch |-> last, pmpaddr |-> r.pmpaddr]
    BY <2>3, <2>4, TurnedIs
  <2>6. hh.pmpaddr \in {PmpInit}
    BY DEF Hart
  <2>7. QED BY <1>7, <2>1, <2>2, <2>5, <2>6 DEF Hart
<1>10. frames' = [s \in Stacks |-> IF s = FrameStack(n) THEN <<>> ELSE fs[s]]
  <2>1. sp[2] - 1 = 0 /\ SubSeq(fs[FrameStack(n)], 1, 0) = <<>>
    BY <1>2, OneFrame
  <2>2. frames' = [fs EXCEPT ![FrameStack(n)] = <<>>]
    BY <1>2, <1>3, <2>1
  <2>3. QED BY <1>7, <2>2
<1>11. frames'[FrameStack(n)] = <<>>
  BY <1>7, <1>10
<1>12. QED BY <1>4, <1>6, <1>9, <1>10, <1>11 DEF Entered

(* The frames fs but that of stack s, which is taken off. *)
OnStacks(fs) == fs = [s \in Stacks |-> fs[s]]
Emptied(fs, s) == [r \in Stacks |-> IF r = s THEN <<>> ELSE fs[r]]

LEMMA TrapLeavesTo ==
  ASSUME Disciplined, Types, NEW n \in Tasks, NEW hh, hh \in Hart, Clean(hh.mscratch),
         NEW fs, OnStacks(fs), fs[FrameStack(n)] = <<FirstFrame(n)>>,
         TrapExit(hh, fs, <<FrameStack(n), 1>>)
  PROVE  hart' \in Hart /\ Entered(n, hart', frames') /\ frames' = Emptied(fs, FrameStack(n))
<1>1. fs = [s \in Stacks |-> fs[s]]
  BY DEF OnStacks
<1>2. /\ hart' \in Hart /\ Entered(n, hart', frames')
      /\ frames' = [s \in Stacks |-> IF s = FrameStack(n) THEN <<>> ELSE fs[s]]
  BY <1>1, TrapExits
<1>3. QED BY <1>2 DEF Emptied

(* What Contexts' says of the build, which no step changes. *)
LEMMA ContextsBuilt ==
  ASSUME userMode' = userMode, hart' \in Hart,
         frames' = [s \in Stacks |-> frames'[s]], savedSp' = [t \in Tasks |-> savedSp'[t]],
         \A t \in Tasks : state'[t] \notin {"FREE", "DELETED"} /\ t # currentTask' =>
           frames'[FrameStack(t)] = <<FirstFrame(t)>> /\ savedSp'[t] = <<FrameStack(t), 1>>,
         currentTask' = Null => hart' = BootHart,
         currentTask' # Null /\ hart'.mode # "halted" => Entered(currentTask', hart', frames')
  PROVE  Contexts'
<1>1. \A t : /\ IsUser(t)' <=> IsUser(t)
             /\ FrameStack(t)' = FrameStack(t) /\ FirstFrame(t)' = FirstFrame(t)
  BY DEF IsUser, FrameStack, FirstFrame
<1>2. ASSUME NEW t \in Tasks, Live(t)', t # currentTask' PROVE Left(t)'
  BY <1>1, <1>2 DEF Live, Left
<1>3. ASSUME currentTask' # Null, hart'.mode # "halted" PROVE Running(currentTask)'
  BY <1>1, <1>3 DEF Running, Entered, ScratchOf
<1>4. QED BY <1>2, <1>3 DEF Contexts

(* The trap ends in the task selected. *)
LEMMA SwitchedContexts ==
  ASSUME Disciplined, Types, Contexts, NEW t \in Tasks, currentTask = t, hart.mode # "halted",
         userMode' = userMode, Switched
  PROVE  Contexts'
<1>1. PICK lk, st, h : Dispatched(lk, st, h) /\ Harmless(st) /\ Schedule(lk, st)
  BY DEF Switched
<1>2. PICK n \in Tasks : n = currentTask'
  BY <1>1 DEF Dispatched
<1>3. /\ savedSp' = [savedSp EXCEPT ![t] = TrapEntry.hart.sp]
      /\ TrapExit(TrapEntry.hart, TrapEntry.frames, savedSp'[n])
  BY <1>1, <1>2, Zenon DEF Schedule
<1>4. Running(t) /\ t # Null
  BY Kernel0 DEF Contexts
<1>5. PICK hh, fs : hh = TrapEntry.hart /\ fs = TrapEntry.frames
  OBVIOUS
<1>6. /\ hh \in Hart /\ hh.sp = <<FrameStack(t), 1>> /\ Clean(hh.mscratch)
      /\ fs = [s \in Stacks |-> IF s = FrameStack(t) THEN <<FirstFrame(t)>> ELSE frames[s]]
  <2>1. /\ TrapEntry.hart \in Hart
        /\ TrapEntry.hart.sp = <<FrameStack(t), 1>>
        /\ Clean(TrapEntry.hart.mscratch)
        /\ TrapEntry.frames = [s \in Stacks |-> IF s = FrameStack(t) THEN <<FirstFrame(t)>>
                                                ELSE frames[s]]
    BY <1>4, TrapEnters
  <2>2. QED BY <1>5, <2>1
<1>7. savedSp = [u \in Tasks |-> savedSp[u]]
  BY DEF Contexts
<1>8. /\ savedSp' = [u \in Tasks |-> savedSp'[u]]
      /\ \A u \in Tasks : savedSp'[u] = IF u = t THEN <<FrameStack(t), 1>> ELSE savedSp[u]
  BY <1>3, <1>5, <1>6, <1>7
<1>9. ASSUME NEW u \in Tasks, u # t, Live(u)
      PROVE  frames[FrameStack(u)] = <<FirstFrame(u)>> /\ savedSp[u] = <<FrameStack(u), 1>>
  BY <1>9 DEF Contexts, Left
<1>10. ASSUME NEW u \in Tasks, u = t \/ Live(u)
       PROVE  fs[FrameStack(u)] = <<FirstFrame(u)>> /\ savedSp'[u] = <<FrameStack(u), 1>>
  <2>1. FrameStack(u) \in Stacks /\ (FrameStack(u) = FrameStack(t) => u = t)
    BY StacksDiffer
  <2>2. QED BY <1>6, <1>8, <1>9, <1>10, <2>1
<1>11. n = t \/ Live(n)
  BY <1>1, <1>2 DEF Dispatched, Harmless
<1>12. hart' \in Hart /\ Entered(n, hart', frames') /\ frames' = Emptied(fs, FrameStack(n))
  <2>1. fs[FrameStack(n)] = <<FirstFrame(n)>> /\ savedSp'[n] = <<FrameStack(n), 1>>
    BY <1>10, <1>11
  <2>2. TrapExit(hh, fs, <<FrameStack(n), 1>>)
    BY <1>3, <1>5, <2>1
  <2>3. OnStacks(fs) /\ hh \in Hart /\ Clean(hh.mscratch)
    BY <1>6 DEF OnStacks
  <2>4. QED BY <2>1, <2>2, <2>3, TrapLeavesTo
<1>13. ASSUME NEW u \in Tasks, state'[u] \notin {"FREE", "DELETED"}, u # currentTask'
       PROVE  frames'[FrameStack(u)] = <<FirstFrame(u)>> /\ savedSp'[u] = <<FrameStack(u), 1>>
  <2>1. u = t \/ Live(u)
    <3>1. u # t => state'[u] = st[u]
      BY <1>1, <1>13 DEF Dispatched
    <3>2. QED BY <1>1, <1>13, <3>1 DEF Harmless
  <2>2. FrameStack(u) \in Stacks /\ FrameStack(u) # FrameStack(n)
    BY <1>2, <1>13, StacksDiffer
  <2>3. frames'[FrameStack(u)] = fs[FrameStack(u)]
    BY <1>12, <2>2 DEF Emptied
  <2>4. QED BY <1>10, <2>1, <2>3
<1>14. frames' = [s \in Stacks |-> frames'[s]]
  BY <1>12 DEF Emptied
<1>15. currentTask' # Null
  BY <1>2, Kernel0
<1>16. QED BY <1>2, <1>8, <1>12, <1>13, <1>14, <1>15, ContextsBuilt

(* ... or in the task that it was taken in. *)
LEMMA ReturnedContexts ==
  ASSUME Disciplined, Types, Contexts, NEW t \in Tasks, currentTask = t, hart.mode # "halted",
         userMode' = userMode, Returned
  PROVE  Contexts'
<1>1. /\ TrapExit(TrapEntry.hart, TrapEntry.frames, TrapEntry.hart.sp)
      /\ state' = state /\ currentTask' = t /\ savedSp' = savedSp
  BY DEF Returned
<1>2. Running(t) /\ t # Null
  BY Kernel0 DEF Contexts
<1>3. PICK hh, fs : hh = TrapEntry.hart /\ fs = TrapEntry.frames
  OBVIOUS
<1>4. /\ hh \in Hart /\ hh.sp = <<FrameStack(t), 1>> /\ Clean(hh.mscratch)
      /\ fs = [s \in Stacks |-> IF s = FrameStack(t) THEN <<FirstFrame(t)>> ELSE frames[s]]
  <2>1. /\ TrapEntry.hart \in Hart
        /\ TrapEntry.hart.sp = <<FrameStack(t), 1>>
        /\ Clean(TrapEntry.hart.mscratch)
        /\ TrapEntry.frames = [s \in Stacks |-> IF s = FrameStack(t) THEN <<FirstFrame(t)>>
                                                ELSE frames[s]]
    BY <1>2, TrapEnters
  <2>2. QED BY <1>3, <2>1
<1>5. /\ hart' \in Hart /\ Entered(t, hart', frames')
      /\ frames' = [s \in Stacks |-> IF s = FrameStack(t) THEN <<>> ELSE fs[s]]
  <2>1. fs = [s \in Stacks |-> fs[s]] /\ fs[FrameStack(t)] = <<FirstFrame(t)>>
    BY <1>4, StacksDiffer
  <2>2. TrapExit(hh, fs, <<FrameStack(t), 1>>)
    BY <1>1, <1>3, <1>4
  <2>3. QED BY <1>4, <2>1, <2>2, TrapExits
<1>6. ASSUME NEW u \in Tasks, state'[u] \notin {"FREE", "DELETED"}, u # currentTask'
      PROVE  frames'[FrameStack(u)] = <<FirstFrame(u)>> /\ savedSp'[u] = <<FrameStack(u), 1>>
  <2>1. frames[FrameStack(u)] = <<FirstFrame(u)>> /\ savedSp[u] = <<FrameStack(u), 1>>
    BY <1>1, <1>6 DEF Contexts, Left, Live
  <2>2. FrameStack(u) \in Stacks /\ FrameStack(u) # FrameStack(t)
    BY <1>1, <1>6, StacksDiffer
  <2>3. QED BY <1>1, <1>4, <1>5, <2>1, <2>2
<1>7. /\ frames' = [s \in Stacks |-> frames'[s]]
      /\ savedSp' = [u \in Tasks |-> savedSp'[u]]
      /\ currentTask' # Null
  BY <1>1, <1>2, <1>5 DEF Contexts
<1>8. QED BY <1>1, <1>5, <1>6, <1>7, ContextsBuilt

(* No trap, and nobody else comes to life. *)
Quiet == /\ UNCHANGED <<userMode, currentTask, savedSp, frames, hart>>
         /\ \A t \in Tasks \ {currentTask} : state'[t] \notin {"FREE", "DELETED"} => Live(t)

LEMMA QuietContexts ==
  ASSUME Contexts, Quiet
  PROVE  Contexts'
<1>1. ASSUME NEW t \in Tasks, state'[t] \notin {"FREE", "DELETED"}, t # currentTask'
      PROVE  frames'[FrameStack(t)] = <<FirstFrame(t)>> /\ savedSp'[t] = <<FrameStack(t), 1>>
  <2>1. t # currentTask /\ Live(t)
    BY <1>1 DEF Quiet
  <2>2. frames[FrameStack(t)] = <<FirstFrame(t)>> /\ savedSp[t] = <<FrameStack(t), 1>>
    BY <2>1 DEF Contexts, Left
  <2>3. QED BY <2>2 DEF Quiet
<1>2. currentTask # Null /\ hart.mode # "halted" => Entered(currentTask, hart, frames)
  BY DEF Contexts, Running, Entered
<1>3. /\ hart' \in Hart /\ (currentTask' = Null => hart' = BootHart)
      /\ frames' = [s \in Stacks |-> frames'[s]]
      /\ savedSp' = [u \in Tasks |-> savedSp'[u]]
      /\ currentTask' # Null /\ hart'.mode # "halted" => Entered(currentTask', hart', frames')
      /\ userMode' = userMode
  BY <1>2 DEF Contexts, Quiet
<1>4. QED BY <1>1, <1>3, ContextsBuilt

LEMMA StartContexts ==
  ASSUME Disciplined, NEW x \in Tasks \cup {Null}, NEW h, KernelInv(x, h), Contexts,
         NEW f \in BootTasks, Leads(f), SchedStart
  PROVE  Contexts'
<1>1. f \in Tasks /\ f # Null
  BY SecureAssumption, Kernel0
<1>2. SelectNext(links) = f
  <2>1. Sound' /\ SelectNext(links) = f
    BY StartKeeps
  <2>2. QED BY <2>1
<1>3. /\ currentTask = Null /\ currentTask' = f
      /\ state' = [state EXCEPT ![f] = "RUNNING"] /\ state[f] # "FREE"
      /\ TrapExit(hart, frames, savedSp[f])
      /\ savedSp' = savedSp /\ userMode' = userMode
  BY <1>2 DEF SchedStart, taskVars
<1>4. /\ Types /\ state \in [Tasks -> States] /\ \A t \in Tasks : state[t] \in {"FREE", "READY"}
  BY <1>3 DEF KernelInv, Control, Booting, Types
<1>5. ASSUME NEW u \in Tasks, state[u] # "FREE"
      PROVE  frames[FrameStack(u)] = <<FirstFrame(u)>> /\ savedSp[u] = <<FrameStack(u), 1>>
  <2>1. Live(u) /\ u # currentTask
    BY <1>3, <1>4, <1>5, Kernel0 DEF Live
  <2>2. QED BY <2>1 DEF Contexts, Left
<1>6. /\ hart \in Hart /\ Clean(hart.mscratch)
      /\ frames = [s \in Stacks |-> frames[s]] /\ savedSp = [t \in Tasks |-> savedSp[t]]
  BY <1>3 DEF Contexts, BootHart, Clean
<1>7. hart' \in Hart /\ Entered(f, hart', frames') /\ frames' = Emptied(frames, FrameStack(f))
  <2>1. PICK hh, fs : hh = hart /\ fs = frames
    OBVIOUS
  <2>2. hh \in Hart /\ Clean(hh.mscratch) /\ OnStacks(fs)
    BY <1>6, <2>1 DEF OnStacks
  <2>3. fs[FrameStack(f)] = <<FirstFrame(f)>> /\ savedSp[f] = <<FrameStack(f), 1>>
    BY <1>1, <1>3, <1>5, <2>1
  <2>4. TrapExit(hh, fs, <<FrameStack(f), 1>>)
    BY <1>3, <2>1, <2>3
  <2>5. hart' \in Hart /\ Entered(f, hart', frames') /\ frames' = Emptied(fs, FrameStack(f))
    BY <1>1, <1>4, <2>2, <2>3, <2>4, TrapLeavesTo
  <2>6. QED BY <2>1, <2>5
<1>8. ASSUME NEW u \in Tasks, state'[u] \notin {"FREE", "DELETED"}, u # currentTask'
      PROVE  frames'[FrameStack(u)] = <<FirstFrame(u)>> /\ savedSp'[u] = <<FrameStack(u), 1>>
  <2>1. state[u] # "FREE"
    BY <1>1, <1>3, <1>4, <1>8
  <2>2. FrameStack(u) \in Stacks /\ FrameStack(u) # FrameStack(f)
    BY <1>1, <1>3, <1>8, StacksDiffer
  <2>3. QED BY <1>3, <1>5, <1>7, <2>1, <2>2 DEF Emptied
<1>9. /\ frames' = [s \in Stacks |-> frames'[s]]
      /\ savedSp' = [u \in Tasks |-> savedSp'[u]]
      /\ currentTask' # Null
  BY <1>1, <1>3, <1>6, <1>7 DEF Emptied
<1>10. QED BY <1>3, <1>7, <1>8, <1>9, ContextsBuilt

(* The hart stops in the handler of a fault. *)
LEMMA FaultContexts ==
  ASSUME Disciplined, Types, Contexts, NEW t \in Tasks, Fault(t)
  PROVE  Contexts'
<1>1. /\ currentTask = t /\ hart.mode = "U"
      /\ hart' = [TrapEntry.hart EXCEPT !.mode = "halted"] /\ frames' = TrapEntry.frames
      /\ UNCHANGED <<state, currentTask, savedSp, userMode>>
  BY DEF Fault, UserDoes, listVars, taskVars
<1>2. Running(t) /\ t # Null
  BY <1>1, Kernel0 DEF Contexts
<1>3. PICK hh, fs : hh = TrapEntry.hart /\ fs = TrapEntry.frames
  OBVIOUS
<1>4. /\ hh \in Hart
      /\ fs = [s \in Stacks |-> IF s = FrameStack(t) THEN <<FirstFrame(t)>> ELSE frames[s]]
  <2>1. /\ TrapEntry.hart \in Hart
        /\ TrapEntry.hart.sp = <<FrameStack(t), 1>>
        /\ Clean(TrapEntry.hart.mscratch)
        /\ TrapEntry.frames = [s \in Stacks |-> IF s = FrameStack(t) THEN <<FirstFrame(t)>>
                                                ELSE frames[s]]
    BY <1>1, <1>2, TrapEnters
  <2>2. QED BY <1>3, <2>1
<1>5. hart' \in Hart /\ hart'.mode = "halted"
  <2>1. hart' = [hh EXCEPT !.mode = "halted"]
    BY <1>1, <1>3
  <2>2. QED BY <1>4, <2>1 DEF Hart
<1>6. ASSUME NEW u \in Tasks, state'[u] \notin {"FREE", "DELETED"}, u # currentTask'
      PROVE  frames'[FrameStack(u)] = <<FirstFrame(u)>> /\ savedSp'[u] = <<FrameStack(u), 1>>
  <2>1. frames[FrameStack(u)] = <<FirstFrame(u)>> /\ savedSp[u] = <<FrameStack(u), 1>>
    BY <1>1, <1>6 DEF Contexts, Left, Live
  <2>2. FrameStack(u) \in Stacks /\ FrameStack(u) # FrameStack(t)
    BY <1>1, <1>6, StacksDiffer
  <2>3. QED BY <1>1, <1>3, <1>4, <2>1, <2>2
<1>7. /\ frames' = [s \in Stacks |-> frames'[s]]
      /\ savedSp' = [u \in Tasks |-> savedSp'[u]]
      /\ currentTask' # Null
  BY <1>1, <1>2, <1>3, <1>4 DEF Contexts
<1>8. QED BY <1>1, <1>5, <1>6, <1>7, ContextsBuilt

(* stack_init builds the frame of a task that does not live. *)
LEMMA CreateContexts ==
  ASSUME Contexts, NEW u \in Tasks, TaskCreatePriv(u), u # currentTask,
         currentTask \in Tasks \cup {Null}, state \in [Tasks -> States]
  PROVE  Contexts'
<1>1. /\ state' = [state EXCEPT ![u] = "READY"]
      /\ savedSp' = [savedSp EXCEPT ![u] = <<FrameStack(u), 1>>]
      /\ frames' = [frames EXCEPT ![FrameStack(u)] = <<FirstFrame(u)>>]
      /\ UNCHANGED <<userMode, currentTask, hart>>
  BY DEF TaskCreatePriv
<1>2. frames = [s \in Stacks |-> frames[s]] /\ savedSp = [t \in Tasks |-> savedSp[t]]
  BY DEF Contexts
<1>3. FrameStack(u) \in Stacks /\ \A t \in Tasks : t # u => FrameStack(t) # FrameStack(u)
  BY StacksDiffer
<1>4. /\ frames' = [s \in Stacks |-> frames'[s]]
      /\ savedSp' = [t \in Tasks |-> savedSp'[t]]
      /\ frames'[FrameStack(u)] = <<FirstFrame(u)>> /\ savedSp'[u] = <<FrameStack(u), 1>>
      /\ \A t \in Tasks : t # u => /\ frames'[FrameStack(t)] = frames[FrameStack(t)]
                                   /\ savedSp'[t] = savedSp[t]
  <2>1. frames' = [s \in Stacks |-> IF s = FrameStack(u) THEN <<FirstFrame(u)>> ELSE frames[s]]
    BY <1>1, <1>2, <1>3
  <2>2. savedSp' = [t \in Tasks |-> IF t = u THEN <<FrameStack(u), 1>> ELSE savedSp[t]]
    BY <1>1, <1>2
  <2>3. \A t \in Tasks : FrameStack(t) \in Stacks
    BY StacksDiffer
  <2>4. QED BY <1>3, <2>1, <2>2, <2>3
<1>5. ASSUME NEW t \in Tasks, state'[t] \notin {"FREE", "DELETED"}, t # currentTask'
      PROVE  frames'[FrameStack(t)] = <<FirstFrame(t)>> /\ savedSp'[t] = <<FrameStack(t), 1>>
  <2>1. CASE t = u
    BY <1>4, <2>1
  <2>2. CASE t # u
    <3>1. Live(t) /\ t # currentTask
      BY <1>1, <1>5, <2>2 DEF Live
    <3>2. QED BY <1>4, <2>2, <3>1 DEF Contexts, Left
  <2>3. QED BY <2>1, <2>2
<1>6. currentTask # Null /\ hart.mode # "halted" => Entered(currentTask, hart, frames')
  <2>1. SUFFICES ASSUME currentTask # Null, hart.mode # "halted"
                 PROVE  Entered(currentTask, hart, frames')
    OBVIOUS
  <2>2. PICK t \in Tasks : t = currentTask
    BY <2>1
  <2>3. frames'[FrameStack(t)] = frames[FrameStack(t)]
    BY <1>4, <2>2
  <2>4. QED BY <2>1, <2>2, <2>3 DEF Contexts, Running, Entered
<1>7. hart' \in Hart /\ (currentTask' = Null => hart' = BootHart)
  BY <1>1 DEF Contexts
<1>8. currentTask' # Null /\ hart'.mode # "halted" => Entered(currentTask', hart', frames')
  BY <1>1, <1>6
<1>9. QED BY <1>1, <1>4, <1>5, <1>7, <1>8, ContextsBuilt

(* The state of at most one task changes, and not to that of a live task   *)
(* unless it is current or was alive.                                      *)
LEMMA OneChange ==
  ASSUME state \in [Tasks -> States], UNCHANGED <<userMode, trapVars>>,
         NEW u \in Tasks, NEW to, u = currentTask \/ Live(u),
         state' = state \/ state' = [state EXCEPT ![u] = to]
  PROVE  Quiet
<1>1. UNCHANGED <<userMode, currentTask, savedSp, frames, hart>>
  BY DEF trapVars
<1>2. ASSUME NEW t \in Tasks \ {currentTask}, state'[t] \notin {"FREE", "DELETED"}
      PROVE  Live(t)
  <2>1. t # u => state'[t] = state[t]
    OBVIOUS
  <2>2. CASE t = u
    BY <1>2, <2>2
  <2>3. CASE t # u
    BY <1>2, <2>1, <2>3 DEF Live
  <2>4. QED BY <2>2, <2>3
<1>3. QED BY <1>1, <1>2 DEF Quiet

(* The steps of a task in machine mode that are no traps. *)
Inside(t) == \/ TaskYield(t) \/ DelayTicks(t) \/ TaskExitHandler(t)
             \/ SemWait(t) \/ SemSignal(t) \/ MutexLock(t) \/ MutexUnlock(t)
             \/ \E u \in Tasks : \/ TaskSuspend(t, u) \/ TaskDelete(t, u)
                                 \/ TaskResume(t, u) \/ Resume(t, u)
                                 \/ TaskSetPriority(t, u)

LEMMA WakeQuiet ==
  ASSUME NEW x \in Tasks \cup {Null}, NEW h, KernelInv(x, h), UNCHANGED <<userMode, trapVars>>,
         NEW l \in Apart, links.head[l] # Null, WakeFirst(l)
  PROVE  Quiet
<1>1. /\ state \in [Tasks -> States] /\ priority \in [Tasks -> Nat]
      /\ Housed(links, ListNames, h) /\ Placed(h, x, state, priority)
  BY DEF KernelInv, Types, Lists
<1>2. links.head[l] \in Tasks /\ state[links.head[l]] = "BLOCKED"
  <2>1. /\ links.head[l] \in Tasks /\ links.head[l] # x
        /\ state[links.head[l]] = "BLOCKED" /\ h[links.head[l]] = l
        /\ Len(Chain(links, l)) > 0
        /\ Housed(WokenLists(links, l, priority), ListNames, WokenHome(links, l, priority, h))
        /\ Stay(WokenHome(links, l, priority, h), h)
        /\ Chain(WokenLists(links, l, priority), l) = Without(Chain(links, l), 1)
        /\ Others(WokenLists(links, l, priority), links, Apart \ {l})
    BY <1>1, FirstWoken
  <2>2. QED BY <2>1
<1>3. PICK u \in Tasks : u = links.head[l]
  BY <1>2
<1>4. state' = [state EXCEPT ![u] = "READY"] /\ Live(u)
  BY <1>2, <1>3 DEF WakeFirst, MakeReady, Live
<1>5. QED BY <1>1, <1>4, OneChange

LEMMA InsideQuiet ==
  ASSUME NEW x \in Tasks \cup {Null}, NEW h, KernelInv(x, h),
         NEW t \in Tasks, Inside(t)
  PROVE  Quiet
<1>1. state \in [Tasks -> States] /\ Sem \in Apart /\ Mutex \in Apart
  BY Names DEF KernelInv, Types
<1>2. CASE TaskYield(t) \/ DelayTicks(t) \/ SemWait(t)
  <2>1. currentTask = t /\ UNCHANGED <<userMode, trapVars>>
    BY <1>2 DEF TaskYield, DelayTicks, SemWait, Does, Runs, taskVars
  <2>2. state' = state \/ state' = [state EXCEPT ![t] = "BLOCKED"]
    BY <1>2 DEF TaskYield, DelayTicks, SemWait, Wait, Blocked, listVars
  <2>3. QED BY <1>1, <2>1, <2>2, OneChange
<1>3. CASE MutexLock(t)
  <2>1. currentTask = t /\ UNCHANGED <<userMode, trapVars>>
    BY <1>3 DEF MutexLock, Does, Runs, taskVars
  <2>2. state' = state \/ state' = [state EXCEPT ![t] = "BLOCKED"]
    BY <1>3 DEF MutexLock, Wait, Blocked
  <2>3. QED BY <1>1, <2>1, <2>2, OneChange
<1>4. CASE SemSignal(t)
  <2>1. currentTask = t /\ UNCHANGED <<userMode, trapVars>>
    BY <1>4 DEF SemSignal, Does, Runs, taskVars
  <2>2. CASE links.head[Sem] # Null
    <3>1. WakeFirst(Sem)
      BY <1>4, <2>2 DEF SemSignal
    <3>2. QED BY <1>1, <2>1, <2>2, <3>1, WakeQuiet
  <2>3. CASE links.head[Sem] = Null
    <3>1. state' = state
      BY <1>4, <2>3 DEF SemSignal
    <3>2. QED BY <1>1, <2>1, <3>1, OneChange
  <2>4. QED BY <2>2, <2>3
<1>5. CASE MutexUnlock(t)
  <2>1. currentTask = t /\ UNCHANGED <<userMode, trapVars>>
    BY <1>5 DEF MutexUnlock, Does, Runs, taskVars
  <2>2. state' = state \/ (links.head[Mutex] # Null /\ WakeFirst(Mutex))
    BY <1>5 DEF MutexUnlock
  <2>3. CASE state' = state
    BY <1>1, <2>1, <2>3, OneChange
  <2>4. CASE links.head[Mutex] # Null /\ WakeFirst(Mutex)
    BY <1>1, <2>1, <2>4, WakeQuiet
  <2>5. QED BY <2>2, <2>3, <2>4
<1>6. CASE TaskExitHandler(t) \/ \E u \in Tasks : TaskSuspend(t, u) \/ TaskDelete(t, u)
  <2>1. PICK u \in Tasks, to \in {"SUSPENDED", "DELETED"} : Stop(t, u, to)
    BY <1>6 DEF TaskExitHandler, TaskSuspend, TaskDelete
  <2>2. /\ Live(u) /\ state' = [state EXCEPT ![u] = to]
        /\ UNCHANGED <<userMode, trapVars>>
    BY <2>1 DEF Stop, taskVars
  <2>3. QED BY <1>1, <2>2, OneChange
<1>7. CASE \E u \in Tasks : TaskResume(t, u) \/ TaskSetPriority(t, u)
  <2>1. /\ currentTask = t /\ state' = state
        /\ UNCHANGED <<userMode, trapVars>>
    BY <1>7 DEF TaskResume, TaskSetPriority, Does, Runs, taskVars, listVars
  <2>2. QED BY <1>1, <2>1, OneChange
<1>8. CASE \E u \in Tasks : Resume(t, u)
  <2>1. PICK u \in Tasks : Resume(t, u)
    BY <1>8
  <2>2. /\ state' = [state EXCEPT ![u] = "READY"] /\ pc[t] = <<"resume", u>>
        /\ UNCHANGED <<userMode, trapVars>>
    BY <2>1 DEF Resume, MakeReady, Runs, taskVars
  <2>3. state[u] = "SUSPENDED"
    BY <2>2 DEF KernelInv, Control, Resuming
  <2>4. QED BY <1>1, <2>2, <2>3, OneChange DEF Live
<1>9. QED BY <1>2, <1>3, <1>4, <1>5, <1>6, <1>7, <1>8 DEF Inside

-----------------------------------------------------------------------------
(* The initial states, and the steps. *)

LEMMA InitSound ==
  ASSUME Init
  PROVE  Sound
<1> DEFINE h == [t \in Tasks |-> None]
           l == Ready(0)
           g == Sent(h, Idle, l)
<1>1. /\ Null \notin Tasks /\ Idle \in Tasks /\ MaxPriority \in Nat \ {0}
      /\ InitPriority \in [Tasks -> Nat] /\ InitPriority[Idle] = 0
  BY Kernel0, SecureAssumption
<1>2. l \in ListNames /\ None \notin ListNames /\ l # None /\ l \notin Apart /\ Level(0) = 0
  <2>1. 0 \in Levels /\ Level(0) = 0
    BY <1>1 DEF Levels, Level
  <2>2. QED BY <2>1, Names
<1>3. Housed(NoTasks, ListNames, h) /\ \A m \in ListNames : Chain(NoTasks, m) = <<>>
  <2>1. \A t \in Tasks : h[t] \notin ListNames
    BY <1>2
  <2>2. NoTasks = [head |-> [m \in ListNames |-> Null], next |-> [t \in Tasks |-> Null]]
    BY DEF NoTasks
  <2> HIDE DEF h
  <2>3. QED BY <2>1, <2>2, EmptyHoused
<1>4. /\ Moves(h, g, Idle, l) /\ h[Idle] \notin ListNames
      /\ g[Idle] = l /\ \A t \in Tasks \ {Idle} : g[t] = None
  <2>1. h[Idle] = None /\ \A t \in Tasks : h[t] = None
    BY <1>1
  <2> HIDE DEF h, l
  <2>2. Moves(h, g, Idle, l) /\ g[Idle] = l /\ \A u \in Tasks \ {Idle} : g[u] = h[u]
    BY <1>1, SentMoves
  <2>3. QED BY <1>2, <2>1, <2>2
<1> HIDE DEF h, g, l
<1>5. /\ Housed(LinkLast(NoTasks, l, Idle), ListNames, g)
      /\ Longer(LinkLast(NoTasks, l, Idle), NoTasks, ListNames, l, Len(Chain(NoTasks, l)), Idle)
  BY <1>1, <1>2, <1>3, <1>4, LinkLastHouses
<1>6. links = LinkLast(NoTasks, l, Idle)
  BY DEF Init, l
<1>7. \A m \in Sleepers : Chain(links, m) = <<>>
  <2>1. \A m \in Sleepers : m \in ListNames /\ m # l
    BY <1>2, Kernel0, Names
  <2>2. QED BY <1>3, <1>5, <1>6, <2>1 DEF Longer, Others
<1>8. /\ state = [t \in Tasks |-> IF t = Idle THEN "READY" ELSE "FREE"]
      /\ priority = InitPriority /\ basePriority = InitPriority
      /\ ticksLeft = [t \in Tasks |-> 0] /\ pc = [t \in Tasks |-> Point("run")]
      /\ count = 0 /\ owner = Null /\ currentTask = Null /\ switchPending = FALSE
      /\ userMode \in Builds /\ userMode \in BOOLEAN
  BY SecureAssumption DEF Init
<1>9. Lists(Null, g)
  <2>1. Timely(links, ticksLeft)
    <3>1. ASSUME NEW m \in Sleepers PROVE Ordered(links, m, ticksLeft)
      BY <1>7 DEF Ordered, Ascending
    <3>2. QED BY <3>1 DEF Timely
  <2>2. Placed(g, Null, state, priority)
    <3>1. state[Idle] = "READY" /\ priority[Idle] = 0 /\ g[Idle] = Ready(Level(priority[Idle]))
      BY <1>1, <1>2, <1>4, <1>8 DEF l
    <3>2. \A t \in Tasks \ {Idle} : state[t] = "FREE" /\ g[t] = None
      BY <1>4, <1>8
    <3>3. QED BY <1>1, <3>1, <3>2 DEF Placed, Belongs
  <2>3. Waiting(g, count, owner)
    <3>1. Sem \in Apart /\ Mutex \in Apart /\ None \notin Apart
      BY Names
    <3>2. \A t \in Tasks : g[t] # Sem /\ g[t] # Mutex
      BY <1>2, <1>4, <3>1
    <3>3. QED BY <3>2 DEF Waiting
  <2>4. QED BY <1>5, <1>6, <2>1, <2>2, <2>3 DEF Lists
<1>10. Types
  <2>1. state \in [Tasks -> States] /\ ticksLeft \in [Tasks -> Nat]
    BY <1>8 DEF States
  <2>2. pc \in [Tasks -> Points]
    BY <1>8 DEF Points
  <2>3. QED BY <1>1, <1>8, <2>1, <2>2 DEF Types
<1>11. Control
  <2>1. \A t \in Tasks : /\ state[t] \in {"FREE", "READY"} /\ pc[t] = Point("run")
                         /\ priority[t] = InitPriority[t]
    BY <1>8
  <2>2. Booting /\ Leaving
    BY <1>8, <2>1 DEF Booting, Leaving
  <2>3. Resuming
    BY <2>1, PointsDiffer DEF Resuming
  <2>4. state[Idle] = "READY"
    BY <1>1, <1>8
  <2>5. QED BY <2>1, <2>2, <2>3, <2>4 DEF Control
<1>12. KernelInv(Null, g)
  BY <1>9, <1>10, <1>11 DEF KernelInv, Fresh
<1>13. QED BY <1>12 DEF Sound

LEMMA InitContexts ==
  ASSUME Init
  PROVE  Contexts
<1>1. /\ state = [t \in Tasks |-> IF t = Idle THEN "READY" ELSE "FREE"]
      /\ currentTask = Null /\ hart = BootHart
      /\ savedSp = [t \in Tasks |-> <<FrameStack(t), 1>>]
      /\ frames = [s \in Stacks |-> IF s = Own(Idle) THEN <<FirstFrame(Idle)>> ELSE <<>>]
  BY DEF Init, Stacks
<1>2. hart \in Hart
  BY <1>1 DEF BootHart, Hart, Zero
<1>3. ASSUME NEW t \in Tasks, Live(t) PROVE Left(t)
  <2>1. t = Idle
    BY <1>1, <1>3 DEF Live
  <2>2. FrameStack(t) = Own(Idle) /\ FrameStack(t) \in Stacks
    BY <2>1, StacksDiffer, SecureAssumption DEF FrameStack, IsUser
  <2>3. QED BY <1>1, <2>1, <2>2 DEF Left
<1>4. QED BY <1>1, <1>2, <1>3 DEF Contexts

(* Nothing changes. *)
LEMMA StutterKeeps ==
  ASSUME Sound, Contexts, UNCHANGED vars
  PROVE  Sound' /\ Contexts'
<1>0. PICK x \in Tasks \cup {Null} : \E h : KernelInv(x, h)
  BY DEF Sound
<1>1. /\ userMode' = userMode /\ links' = links /\ state' = state /\ ticksLeft' = ticksLeft
      /\ priority' = priority /\ basePriority' = basePriority
      /\ count' = count /\ owner' = owner /\ currentTask' = currentTask
      /\ switchPending' = switchPending /\ savedSp' = savedSp /\ frames' = frames
      /\ hart' = hart /\ pc' = pc
  BY DEF vars, listVars, prioVars, objectVars, taskVars, trapVars
<1>2. PICK h : KernelInv(x, h)
  BY <1>0
<1>3. Types' /\ Fresh(x)'
  BY <1>1, <1>2 DEF KernelInv, Types, Fresh
<1>4. Lists(x, h)'
  BY <1>1, <1>2 DEF KernelInv, Lists
<1>5. Control'
  BY <1>1, <1>2 DEF KernelInv, Control, Booting, Leaving, Resuming, IsUser
<1>6. Sound'
  BY <1>3, <1>4, <1>5 DEF KernelInv, Sound
<1>7. Quiet
  BY <1>1 DEF Quiet, Live
<1>8. QED BY <1>6, <1>7, QuietContexts

(* A task in machine mode calls the kernel. *)
LEMMA InsideKeeps ==
  ASSUME Disciplined, NEW x \in Tasks \cup {Null}, NEW h, KernelInv(x, h), Contexts,
         NEW t \in Tasks, Inside(t)
  PROVE  Sound'
<1>1. CASE TaskYield(t)
  BY <1>1, YieldKeeps
<1>2. CASE DelayTicks(t)
  BY <1>2, DelayKeeps
<1>3. CASE TaskExitHandler(t)
  <2>1. Does(t, "return", 0) /\ Stop(t, t, "DELETED")
    BY <1>3 DEF TaskExitHandler
  <2>2. "DELETED" \in {"SUSPENDED", "DELETED"}
    OBVIOUS
  <2>3. QED BY <2>1, <2>2, StopKeeps
<1>4. CASE SemWait(t)
  BY <1>4, SemWaitKeeps
<1>5. CASE SemSignal(t)
  BY <1>5, SignalKeeps
<1>6. CASE MutexLock(t)
  BY <1>6, LockKeeps
<1>7. CASE MutexUnlock(t)
  BY <1>7, UnlockKeeps
<1>8. ASSUME NEW u \in Tasks, TaskSuspend(t, u) PROVE Sound'
  <2>1. Does(t, "suspend", 0) /\ Stop(t, u, "SUSPENDED")
    BY <1>8 DEF TaskSuspend
  <2>2. "SUSPENDED" \in {"SUSPENDED", "DELETED"} /\ "SUSPENDED" # "DELETED"
    OBVIOUS
  <2>3. QED BY <2>1, <2>2, StopKeeps
<1>9. ASSUME NEW u \in Tasks, TaskDelete(t, u) PROVE Sound'
  <2>1. Does(t, "delete", 0) /\ Stop(t, u, "DELETED")
    BY <1>9 DEF TaskDelete
  <2>2. "DELETED" \in {"SUSPENDED", "DELETED"}
    OBVIOUS
  <2>3. QED BY <2>1, <2>2, StopKeeps
<1>10. ASSUME NEW u \in Tasks, TaskResume(t, u) PROVE Sound'
  BY <1>10, ResumeTestKeeps
<1>11. ASSUME NEW u \in Tasks, Resume(t, u) PROVE Sound'
  BY <1>11, ResumeKeeps
<1>12. ASSUME NEW u \in Tasks, TaskSetPriority(t, u) PROVE Sound'
  BY <1>12, RetuneKeeps
<1>13. QED BY <1>1, <1>2, <1>3, <1>4, <1>5, <1>6, <1>7, <1>8, <1>9, <1>10, <1>11, <1>12
             DEF Inside

LEMMA StepKeeps ==
  ASSUME Disciplined, Sound, Contexts, [Next]_vars
  PROVE  Sound' /\ Contexts'
<1>0. PICK x \in Tasks \cup {Null} : \E h : KernelInv(x, h)
  BY DEF Sound
<1>1. PICK h : KernelInv(x, h)
  BY <1>0
<1>2. PICK f \in BootTasks : Leads(f)
  BY DEF Disciplined
<1>3. Types /\ state \in [Tasks -> States] /\ currentTask \in Tasks \cup {Null}
  BY <1>1 DEF KernelInv, Types
<1>4. CASE UNCHANGED vars
  BY <1>4, StutterKeeps
<1>5. CASE Halted
  BY <1>5, StutterKeeps DEF Halted
<1>6. CASE SchedStart
  <2>1. Sound' /\ SelectNext(links) = f
    BY <1>1, <1>2, <1>6, StartKeeps
  <2>2. Contexts'
    BY <1>1, <1>2, <1>6, StartContexts
  <2>3. QED BY <2>1, <2>2
<1>7. CASE Timer
  <2>1. Sound' /\ Switched
    BY <1>1, <1>7, TickKeeps
  <2>2. currentTask # Null /\ hart.mode # "halted" /\ userMode' = userMode
    BY <1>7 DEF Timer, Ticking, taskVars
  <2>3. PICK t \in Tasks : currentTask = t
    BY <1>3, <2>2
  <2>4. Contexts'
    BY <1>3, <2>1, <2>2, <2>3, SwitchedContexts
  <2>5. QED BY <2>1, <2>4
<1>8. ASSUME NEW t \in Tasks, Syscall(t) \/ Ecall(t) PROVE Sound' /\ Contexts'
  <2>1. Sound' /\ (Switched \/ Returned)
    BY <1>1, <1>8, SyscallKeeps, EcallKeeps
  <2>2. currentTask = t /\ hart.mode # "halted" /\ userMode' = userMode
    BY <1>8 DEF Syscall, UserDoes, Ecall, Runs, taskVars
  <2>3. Contexts'
    BY <1>3, <2>1, <2>2, SwitchedContexts, ReturnedContexts
  <2>4. QED BY <2>1, <2>3
<1>9. ASSUME NEW t \in Tasks, Fault(t) PROVE Sound' /\ Contexts'
  <2>1. currentTask = t /\ Fault(currentTask) /\ currentTask \in Tasks
    BY <1>9 DEF Fault, UserDoes
  <2>2. Sound'
    BY <1>1, <2>1, FaultKeeps
  <2>3. Contexts'
    BY <1>3, <1>9, FaultContexts
  <2>4. QED BY <2>2, <2>3
<1>10. ASSUME NEW u \in Tasks, TaskCreatePriv(u) PROVE Sound' /\ Contexts'
  <2>1. Sound' /\ u # currentTask
    BY <1>1, <1>10, CreateKeeps
  <2>2. Contexts'
    BY <1>3, <1>10, <2>1, CreateContexts
  <2>3. QED BY <2>1, <2>2
<1>11. ASSUME NEW t \in Tasks, Inside(t) PROVE Sound' /\ Contexts'
  <2>1. Sound'
    BY <1>1, <1>11, InsideKeeps
  <2>2. Quiet
    BY <1>1, <1>11, InsideQuiet
  <2>3. QED BY <2>1, <2>2, QuietContexts
<1>12. QED BY <1>4, <1>5, <1>6, <1>7, <1>8, <1>9, <1>10, <1>11 DEF Next, Inside

-----------------------------------------------------------------------------
(* What the invariant says. *)

(* Where t is listed. *)
PlacesOf(t) == {x \in ListNames \X (1..Cardinality(Tasks)) :
                  x[2] <= Len(Chain(links, x[1])) /\ Chain(links, x[1])[x[2]] = t}

LEMMA AtHome ==
  ASSUME NEW h, Housed(links, ListNames, h), NEW t \in Tasks
  PROVE  /\ h[t] \in ListNames => \E i \in 1..Len(Chain(links, h[t])) :
              Chain(links, h[t])[i] = t /\ PlacesOf(t) = {<<h[t], i>>}
         /\ h[t] \notin ListNames => PlacesOf(t) = {}
<1>1. ASSUME NEW l \in ListNames
      PROVE  /\ Len(Chain(links, l)) \in Nat /\ Cardinality(Tasks) \in Nat
             /\ Len(Chain(links, l)) <= Cardinality(Tasks)
             /\ NoTwice(Chain(links, l)) /\ (Member(Chain(links, l), t) <=> h[t] = l)
  <2>1. /\ Chain(links, l) \in Seq(Tasks) /\ Len(Chain(links, l)) \in Nat
        /\ NoTwice(Chain(links, l))
    BY HousedList
  <2>2. Cardinality(Tasks) \in Nat /\ Len(Chain(links, l)) <= Cardinality(Tasks)
    BY <2>1, ShortEnough
  <2>3. Member(Chain(links, l), t) <=> h[t] = l
    BY DEF Housed
  <2>4. QED BY <2>1, <2>2, <2>3
<1>2. ASSUME NEW y \in PlacesOf(t)
      PROVE  /\ y[1] \in ListNames /\ y = <<y[1], y[2]>> /\ h[t] = y[1]
             /\ y[2] \in 1..Len(Chain(links, y[1])) /\ Chain(links, y[1])[y[2]] = t
  <2>1. /\ y[1] \in ListNames /\ y[2] \in 1..Cardinality(Tasks) /\ y = <<y[1], y[2]>>
        /\ y[2] <= Len(Chain(links, y[1])) /\ Chain(links, y[1])[y[2]] = t
    BY DEF PlacesOf
  <2>2. y[2] \in 1..Len(Chain(links, y[1]))
    BY <1>1, <2>1
  <2>3. h[t] = y[1]
    BY <1>1, <2>1, <2>2 DEF Member
  <2>4. QED BY <2>1, <2>2, <2>3
<1>3. CASE h[t] \in ListNames
  <2>1. PICK i \in 1..Len(Chain(links, h[t])) : Chain(links, h[t])[i] = t
    BY <1>1, <1>3 DEF Member
  <2>2. i \in 1..Cardinality(Tasks) /\ i <= Len(Chain(links, h[t]))
    BY <1>1, <1>3
  <2>3. <<h[t], i>> \in PlacesOf(t)
    BY <1>3, <2>1, <2>2 DEF PlacesOf
  <2>4. ASSUME NEW y \in PlacesOf(t) PROVE y = <<h[t], i>>
    <3>1. y[2] = i
      BY <1>1, <1>2, <1>3, <2>1 DEF NoTwice
    <3>2. QED BY <1>2, <3>1
  <2>5. PlacesOf(t) = {<<h[t], i>>}
    BY <2>3, <2>4
  <2>6. QED BY <1>3, <2>1, <2>5
<1>4. CASE h[t] \notin ListNames
  BY <1>2, <1>4
<1>5. QED BY <1>3, <1>4

LEMMA SoundAccounts ==
  ASSUME Sound
  PROVE  TasksAccounted
<1> DEFINE OnceIn(t, ls) == Cardinality(PlacesOf(t)) = 1 /\ \A x \in PlacesOf(t) : x[1] \in ls
<1>0. PICK y \in Tasks \cup {Null} : \E h : KernelInv(y, h)
  BY DEF Sound
<1>1. PICK h : KernelInv(y, h)
  BY <1>0
<1>2. /\ Housed(links, ListNames, h) /\ Placed(h, y, state, priority)
      /\ Timely(links, ticksLeft) /\ Waiting(h, count, owner)
      /\ y # Null => state[y] = "RUNNING"
      /\ priority \in [Tasks -> Nat]
  BY <1>1 DEF KernelInv, Lists, Fresh, Types
<1>3. ASSUME NEW t \in Tasks, NEW ls, h[t] \in ListNames, h[t] \in ls PROVE OnceIn(t, ls)
  <2>1. PICK i : PlacesOf(t) = {<<h[t], i>>}
    BY <1>2, <1>3, AtHome
  <2>2. Cardinality(PlacesOf(t)) = 1
    BY <2>1, FS_Singleton
  <2>3. \A x \in PlacesOf(t) : x[1] \in ls
    BY <1>3, <2>1
  <2>4. QED BY <2>2, <2>3
<1> HIDE DEF OnceIn
<1>4. ASSUME NEW t \in Tasks, state[t] = "READY"
      PROVE  OnceIn(t, {Ready(Level(priority[t]))})
  <2>1. t # y
    BY <1>2, <1>4, Kernel0
  <2>2. h[t] = Ready(Level(priority[t]))
    BY <1>2, <1>4, <2>1, Whereabouts
  <2>3. h[t] \in ListNames
    BY <1>2, <2>2, Kernel0, LevelType, Names
  <2>4. QED BY <1>3, <2>2, <2>3
<1>5. ASSUME NEW t \in Tasks, state[t] = "BLOCKED"
      PROVE  \/ ticksLeft[t] > 0 /\ OnceIn(t, {Delayed, Delay})
             \/ count = 0 /\ OnceIn(t, {Sem})
             \/ owner \notin {Null, t} /\ OnceIn(t, {Mutex})
  <2>1. t # y
    BY <1>2, <1>5, Kernel0
  <2>2. h[t] \in Apart
    BY <1>2, <1>5, <2>1, Whereabouts
  <2>3. h[t] \in ListNames /\ h[t] \in {Delayed, Delay, Sem, Mutex}
    BY <2>2, Names
  <2>4. CASE h[t] \in {Delayed, Delay}
    <3>1. PICK i \in 1..Len(Chain(links, h[t])) : Chain(links, h[t])[i] = t
      BY <1>2, <2>3, AtHome
    <3>2. ticksLeft[Chain(links, h[t])[i]] > 0
      BY <1>2, <2>4, <3>1 DEF Timely, Ordered, Sleepers
    <3>3. QED BY <1>3, <2>3, <2>4, <3>1, <3>2
  <2>5. CASE h[t] = Sem
    BY <1>2, <1>3, <2>3, <2>5 DEF Waiting
  <2>6. CASE h[t] = Mutex
    BY <1>2, <1>3, <2>3, <2>6 DEF Waiting
  <2>7. QED BY <2>3, <2>4, <2>5, <2>6
<1>6. ASSUME NEW t \in Tasks, state[t] \in {"SUSPENDED", "DELETED"} PROVE PlacesOf(t) = {}
  <2>1. t # y
    BY <1>2, <1>6, Kernel0
  <2>2. h[t] = None /\ None \notin ListNames
    BY <1>2, <1>6, <2>1, Whereabouts, Names
  <2>3. QED BY <1>2, <2>2, AtHome
<1>7. QED BY <1>4, <1>5, <1>6 DEF TasksAccounted, OnceIn, PlacesOf

LEMMA SoundKeepsContexts ==
  ASSUME Disciplined, Sound, Contexts
  PROVE  ContextsKept
<1>1. userMode \in BOOLEAN /\ userMode \in Builds /\ currentTask \in Tasks \cup {Null}
  BY DEF Sound, KernelInv, Types
<1>2. ASSUME NEW t \in Tasks, Live(t), t # currentTask
      PROVE  /\ Len(frames[FrameStack(t)]) = 1
             /\ frames[FrameStack(t)][1].task = t
             /\ savedSp[t] = <<FrameStack(t), 1>>
  <2>1. frames[FrameStack(t)] = <<FirstFrame(t)>> /\ savedSp[t] = <<FrameStack(t), 1>>
    BY <1>2 DEF Contexts, Left
  <2>2. Len(<<FirstFrame(t)>>) = 1 /\ <<FirstFrame(t)>>[1] = FirstFrame(t)
    OBVIOUS
  <2>3. FirstFrame(t).task = t
    BY DEF FirstFrame
  <2>4. QED BY <2>1, <2>2, <2>3
<1>3. ASSUME NEW t \in Tasks, t = currentTask, hart.mode # "halted"
      PROVE  /\ hart.mode = IF IsUser(t) THEN "U" ELSE "M"
             /\ hart.sp = <<Own(t), 0>>
             /\ frames[FrameStack(t)] = <<>>
             /\ IF IsUser(t)
                  THEN /\ hart.mscratch = <<Kernel(t), 0>>
                       /\ StackBase[t]..StackBase[t] + StackSize - 1
                            \subseteq Region(hart.pmpaddr.user)
                  ELSE hart.mscratch \in {Zero, <<Own(t), 0>>}
  <2>1. Running(t) /\ hart.pmpaddr = PmpInit
    BY <1>3, Kernel0 DEF Contexts, Hart
  <2>2. IsUser(t) => Opened(t)
    <3>1. IsUser(t) => userMode = TRUE /\ t # Idle
      BY SecureAssumption DEF IsUser
    <3>2. QED BY <1>1, <3>1 DEF Disciplined
  <2>3. QED BY <2>1, <2>2 DEF Running, ScratchOf, Opened
<1>4. QED BY <1>1, <1>2, <1>3, Kernel0 DEF ContextsKept

-----------------------------------------------------------------------------
(* The theorems. *)

(* With any tasks that keep to Disciplined, no task is lost or listed      *)
(* twice, whatever the order of ticks, calls and system calls: what        *)
(* scheduler.c, task.c, delay.c, semaphore.c and mutex.c do to tcb->next.  *)
THEOREM TasksStayAccounted ==
  ASSUME Disciplined
  PROVE  Spec => []TasksAccounted
<1>1. Init => Sound /\ Contexts
  BY InitSound, InitContexts
<1>2. Sound /\ Contexts /\ [Next]_vars => (Sound /\ Contexts)'
  BY StepKeeps
<1>3. Sound /\ Contexts => TasksAccounted
  BY SoundAccounts
<1>4. QED BY <1>1, <1>2, <1>3, PTL DEF Spec

(* ... and every task can be gone on with where it was left: each trap     *)
(* finds the stack of its task through mscratch and leaves it one frame,   *)
(* which is the one that the way out of the trap goes back through         *)
(* (startup.S, sched_schedule, stack_init).                                *)
THEOREM ContextsStayKept ==
  ASSUME Disciplined
  PROVE  Spec => []ContextsKept
<1>1. Init => Sound /\ Contexts
  BY InitSound, InitContexts
<1>2. Sound /\ Contexts /\ [Next]_vars => (Sound /\ Contexts)'
  BY StepKeeps
<1>3. Sound /\ Contexts => ContextsKept
  BY SoundKeepsContexts
<1>4. QED BY <1>1, <1>2, <1>3, PTL DEF Spec
=============================================================================
