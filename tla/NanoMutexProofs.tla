-------------------------- MODULE NanoMutexProofs ---------------------------
(***************************************************************************)
(* The mutexes of v0-nano, for any number of tasks, mutexes and levels:    *)
(* when lock calls wait for ever, all tasks are created before the start,  *)
(* lock_count does not wrap and the tasks are used as NanoKernelProofs     *)
(* asks, at most one task holds a mutex, and each mutex that has an owner  *)
(* is held by it or is on its way to it.  If moreover a task holds one     *)
(* mutex at a time and no priority is changed by hand, the owner never     *)
(* runs below a task that waits for it, and is back at its own priority    *)
(* when it owns nothing.                                                   *)
(***************************************************************************)
EXTENDS NanoMutex, NanoKernelProofs

NoWrap == MaxDepth < CountValues

-----------------------------------------------------------------------------
(* The invariant. *)

Inside(t) == InCall(t, "mutexCheck")
Waiting(t) == Awaits(t, "mutexCheck")

(* Woken in mutex_lock: the mutex is its own, which it does not know yet.  *)
Served(t) == Inside(t) => /\ held[t][obj[t]] = 0
                          /\ state[t] # "BLOCKED" => owner[obj[t]] = t /\ lockCount[obj[t]] = 1

(* What owner and lock_count say of a mutex and its owner. *)
Booked(m) ==
  /\ \A t \in Tasks : held[t][m] > 0 => owner[m] = t
  /\ owner[m] # Null => /\ lockCount[m] >= 1
                        /\ \/ held[owner[m]][m] = lockCount[m]
                           \/ /\ Inside(owner[m]) /\ obj[owner[m]] = m
                              /\ state[owner[m]] # "BLOCKED"

Books == /\ owner \in [Objects -> Tasks \cup {Null}]
         /\ lockCount \in [Objects -> 0..MaxDepth]
         /\ held \in [Tasks -> [Objects -> 0..MaxDepth]]
         /\ \A m \in Objects : Booked(m)

(* Before another task has run, nobody but the first task owns a mutex.    *)
FirstAlone(x) == x # Null \/ currentTask = Null => \A m \in Objects : owner[m] \in {Null, x}

Calling == \A t \in Tasks : Waiting(t) /\ Served(t)

MutexInv == /\ \E x \in Tasks \cup {Null} : KernelInv(x) /\ FirstAlone(x)
            /\ Calling /\ Books

LEMMA CheckPlace == "mutexCheck" \in Places \ {"run", "request", "ecall", "resume"}
BY DEF Places

LEMMA MutexInitInv == ASSUME MutexInit PROVE MutexInv
<1>1. KernelInv(Null) /\ Null \in Tasks \cup {Null}
  BY InitSound DEF MutexInit
<1>2. FirstAlone(Null)
  BY DEF FirstAlone, MutexInit
<1>3. Calling
  BY DEF MutexInit, Init, Calling, Waiting, Served, Inside, Awaits, InCall, Away
<1>4. Books
  <2>1. 0 \in 0..MaxDepth
    BY MutexAssumption
  <2>2. \A m \in Objects : owner[m] = Null /\ \A t \in Tasks : held[t][m] = 0
    BY DEF MutexInit
  <2>3. \A m \in Objects : Booked(m)
    BY <2>2 DEF Booked
  <2>4. QED BY <2>1, <2>3 DEF MutexInit, Books
<1>5. QED BY <1>1, <1>2, <1>3, <1>4 DEF MutexInv

(* A task that runs code of its own is in no call. *)
LEMMA RunsOutside ==
  ASSUME MutexInv, NEW t \in Tasks, Executes(t, "run")
  PROVE  /\ ~Inside(t) /\ Away(t) /\ state[t] = "RUNNING" /\ currentTask = t /\ t # Null
         /\ pc[t] = "run" /\ then[t] = "run" /\ obj[t] = Null
<1>1. PICK x \in Tasks \cup {Null} : KernelInv(x) /\ FirstAlone(x)
  BY DEF MutexInv
<1>2. "run" \notin {"request", "ecall"} /\ Calls
  BY <1>1 DEF KernelInv, Control
<1>3. state[t] = "RUNNING" /\ currentTask = t /\ pc[t] = "run" /\ t # Null
  BY <1>1, <1>2, ExecutesRunning
<1>4. QED BY <1>2, <1>3 DEF Calls, Inside, InCall, Away

-----------------------------------------------------------------------------
(* The kernel's own steps. *)

LEMMA MutexKernelKeeps ==
  ASSUME MutexInv, Disciplined, BootOnly, KernelNext, UNCHANGED mutexVars
  PROVE  MutexInv'
<1>1. PICK x \in Tasks \cup {Null} : KernelInv(x) /\ FirstAlone(x)
  BY DEF MutexInv
<1>2. PICK y \in Tasks \cup {Null} : Keeps(y) /\ (y \in {x, Null} \/ currentTask = Null)
  BY <1>1, KernelStep DEF Goes
<1>3. UNCHANGED <<owner, lockCount, held>>
  BY DEF mutexVars
<1>4. KernelInv(y)'
  BY <1>2 DEF Keeps
<1>5. FirstAlone(y)'
  <2>1. CASE currentTask = Null
    <3>1. x = Null
      BY <1>1, <2>1 DEF KernelInv, Fresh
    <3>2. QED BY <1>1, <1>3, <2>1, <3>1 DEF FirstAlone
  <2>2. CASE currentTask # Null
    <3>1. currentTask' # Null
      BY <1>1, <2>2, StartsOnce
    <3>2. QED BY <1>1, <1>2, <1>3, <2>2, <3>1 DEF FirstAlone
  <2>3. QED BY <2>1, <2>2
<1>6. ASSUME NEW t \in Tasks
      PROVE  /\ Inside(t)' <=> Inside(t)
             /\ Inside(t) => /\ obj'[t] = obj[t]
                             /\ state'[t] = "BLOCKED" <=> state[t] = "BLOCKED"
  BY <1>1, CheckPlace, CallsStay DEF MutexInv, Calling, Waiting, Inside
<1>7. Calling'
  <2>1. ASSUME NEW t \in Tasks PROVE Waiting(t)'
    BY <1>1, CheckPlace, KernelAwaits DEF MutexInv, Calling, Waiting
  <2>2. ASSUME NEW t \in Tasks PROVE Served(t)'
    BY <1>3, <1>6 DEF MutexInv, Calling, Served
  <2>3. QED BY <2>1, <2>2 DEF Calling
<1>8. Books'
  <2>1. ASSUME NEW m \in Objects PROVE Booked(m)'
    <3>1. Booked(m) /\ owner[m] \in Tasks \cup {Null}
      BY DEF MutexInv, Books
    <3>2. QED BY <1>3, <1>6, <3>1 DEF Booked
  <2>2. QED BY <1>3, <2>1 DEF MutexInv, Books
<1>9. QED BY <1>4, <1>5, <1>7, <1>8 DEF MutexInv
-----------------------------------------------------------------------------
(* The calls that leave the kernel alone. *)

LEMMA KernelStays ==
  ASSUME NEW x \in Tasks \cup {Null}, KernelInv(x), UNCHANGED kernelVars,
         \A t \in Tasks : Waiting(t)
  PROVE  /\ KernelInv(x)' /\ \A t \in Tasks : Waiting(t)'
         /\ \A t \in Tasks : Inside(t)' <=> Inside(t)
         /\ UNCHANGED <<links, state, priority, basePriority, wakeReason, currentTask, obj>>
<1>1. KernelInv(x)'
  BY StutterKeeps DEF Keeps
<1>2. UNCHANGED <<links, state, priority, basePriority, wakeReason, currentTask, pc, then, obj>>
  BY DEF kernelVars, listVars, schedVars, timeVars, callVars
<1>3. ASSUME NEW t \in Tasks PROVE Waiting(t)'
  BY <1>2, CheckPlace, AwaitsKept DEF Waiting
<1>4. QED BY <1>1, <1>2, <1>3 DEF Inside, InCall

(* A task that is in no call believes what lock_count says. *)
LEMMA Believes ==
  ASSUME MutexInv, NEW t \in Tasks, ~Inside(t), NEW m \in Objects, owner[m] = t
  PROVE  held[t][m] = lockCount[m] /\ lockCount[m] \in 1..MaxDepth
<1>1. Booked(m) /\ lockCount[m] \in 0..MaxDepth /\ t # Null
  BY ListAssumption DEF MutexInv, Books
<1>2. QED BY <1>1, MutexAssumption DEF Booked

(* mutex_lock of a free mutex, or once more of the own. *)
LEMMA TakeKeeps ==
  ASSUME MutexInv, NoWrap, NEW t \in Tasks, NEW m \in Objects, MutexTake(t, m)
  PROVE  MutexInv' /\ UNCHANGED kernelVars /\ owner' = [owner EXCEPT ![m] = t]
<1>1. PICK x \in Tasks \cup {Null} : KernelInv(x) /\ FirstAlone(x)
  BY DEF MutexInv
<1>2. /\ Executes(t, "run") /\ held[t][m] < MaxDepth /\ owner[m] \in {t, Null}
      /\ owner' = [owner EXCEPT ![m] = t]
      /\ lockCount' = [lockCount EXCEPT ![m] =
                         IF owner[m] = t THEN (@ + 1) % CountValues ELSE 1]
      /\ held' = [held EXCEPT ![t][m] = @ + 1]
      /\ UNCHANGED kernelVars
  BY Zenon DEF MutexTake, MayLock
<1>3. ~Inside(t) /\ t # Null /\ currentTask = t
  BY <1>2, RunsOutside
<1>4. /\ owner \in [Objects -> Tasks \cup {Null}] /\ lockCount \in [Objects -> 0..MaxDepth]
      /\ held \in [Tasks -> [Objects -> 0..MaxDepth]] /\ MaxDepth \in Nat /\ CountValues \in Nat
      /\ \A n \in Objects : Booked(n)
  BY MutexAssumption DEF MutexInv, Books
<1>5. /\ lockCount'[m] = held[t][m] + 1 /\ held'[t][m] = held[t][m] + 1
      /\ held[t][m] \in 0..MaxDepth /\ owner'[m] = t
  <2>1. held[t][m] \in 0..MaxDepth /\ held'[t][m] = held[t][m] + 1 /\ owner'[m] = t
    BY <1>2, <1>4
  <2>2. CASE owner[m] = t
    <3>1. held[t][m] = lockCount[m] /\ lockCount[m] \in 1..MaxDepth
      BY <1>3, <2>2, Believes
    <3>2. lockCount'[m] = (lockCount[m] + 1) % CountValues
      BY <1>2, <1>4, <2>2
    <3>3. lockCount[m] + 1 \in 0..CountValues - 1
      BY <1>2, <1>4, <3>1 DEF NoWrap
    <3>4. (lockCount[m] + 1) % CountValues = lockCount[m] + 1
      <4>1. CountValues \in Nat \ {0}
        BY MutexAssumption
      <4>2. \A a \in 0..CountValues - 1 : a % CountValues = a
        BY <4>1
      <4>3. QED BY <3>3, <4>2
    <3>5. QED BY <2>1, <3>1, <3>2, <3>4
  <2>3. CASE owner[m] = Null
    <3>1. ~(held[t][m] > 0)
      BY <1>3, <1>4, <2>3 DEF Booked
    <3>2. lockCount'[m] = 1
      BY <1>2, <1>3, <1>4, <2>3
    <3>3. QED BY <2>1, <3>1, <3>2
  <2>4. QED BY <1>2, <2>2, <2>3
<1>6. /\ \A n \in Objects \ {m} : owner'[n] = owner[n] /\ lockCount'[n] = lockCount[n]
      /\ \A u \in Tasks, n \in Objects : u # t \/ n # m => held'[u][n] = held[u][n]
  BY <1>2, <1>4
<1>7. /\ KernelInv(x)' /\ \A u \in Tasks : Waiting(u)'
      /\ \A u \in Tasks : Inside(u)' <=> Inside(u)
      /\ UNCHANGED <<state, currentTask, obj>>
  BY <1>1, <1>2, KernelStays DEF MutexInv, Calling
<1>8. FirstAlone(x)'
  <2>1. x # Null => x = t
    BY <1>1, <1>3 DEF KernelInv, Fresh
  <2>2. x # Null => \A n \in Objects : owner'[n] \in {Null, x}
    BY <1>1, <1>5, <1>6, <2>1 DEF FirstAlone
  <2>3. currentTask' # Null
    BY <1>3, <1>7
  <2>4. QED BY <2>2, <2>3 DEF FirstAlone
<1>9. ASSUME NEW u \in Tasks PROVE Served(u)'
  <2>1. CASE Inside(u)
    <3>1. u # t /\ Served(u) /\ obj[u] \in Objects
      BY <1>3, <2>1, CheckPlace DEF MutexInv, Calling, Waiting, Awaits, Inside
    <3>2. state[u] # "BLOCKED" => obj[u] # m
      BY <1>2, <2>1, <3>1, ListAssumption DEF Served
    <3>3. QED BY <1>6, <1>7, <2>1, <3>1, <3>2 DEF Served
  <2>2. CASE ~Inside(u)
    BY <1>7, <2>2 DEF Served
  <2>3. QED BY <2>1, <2>2
<1>10. ASSUME NEW n \in Objects PROVE Booked(n)'
  <2>1. CASE n = m
    <3>1. \A u \in Tasks \ {t} : ~(held[u][m] > 0)
      BY <1>2, <1>3, <1>4, ListAssumption DEF Booked
    <3>2. lockCount'[m] >= 1 /\ held'[t][m] = lockCount'[m]
      BY <1>5
    <3>3. QED BY <1>5, <1>6, <2>1, <3>1, <3>2 DEF Booked
  <2>2. CASE n # m
    <3>1. Booked(n) /\ owner[n] \in Tasks \cup {Null}
      BY <1>4
    <3>2. /\ owner'[n] = owner[n] /\ lockCount'[n] = lockCount[n]
          /\ \A u \in Tasks : held'[u][n] = held[u][n]
      BY <1>6, <2>2
    <3>3. QED BY <1>7, <3>1, <3>2 DEF Booked
  <2>3. QED BY <2>1, <2>2
<1>11. Books'
  <2>1. owner' \in [Objects -> Tasks \cup {Null}]
    BY <1>2, <1>4
  <2>2. held' \in [Tasks -> [Objects -> 0..MaxDepth]]
    <3>1. held[t][m] + 1 \in 0..MaxDepth
      BY <1>2, <1>4, <1>5
    <3>2. QED BY <1>2, <1>4, <3>1
  <2>3. lockCount' \in [Objects -> 0..MaxDepth]
    <3>1. lockCount'[m] \in 0..MaxDepth
      BY <1>2, <1>4, <1>5
    <3>2. QED BY <1>2, <1>4, <1>6, <3>1
  <2>4. QED BY <1>10, <2>1, <2>2, <2>3 DEF Books
<1>12. QED BY <1>2, <1>7, <1>8, <1>9, <1>11 DEF MutexInv, Calling

(* mutex_unlock of a mutex locked more than once. *)
LEMMA InnerUnlockKeeps ==
  ASSUME MutexInv, NEW t \in Tasks, NEW m \in Objects, MutexUnlock(t, m), ~LastUnlock(m)
  PROVE  MutexInv' /\ UNCHANGED kernelVars /\ owner' = owner
<1>1. PICK x \in Tasks \cup {Null} : KernelInv(x) /\ FirstAlone(x)
  BY DEF MutexInv
<1>2. Executes(t, "run") /\ held[t][m] > 0
  BY DEF MutexUnlock, Holds
<1>3. ~Inside(t) /\ t # Null /\ owner[m] = t
  BY <1>2, RunsOutside DEF MutexInv, Books, Booked
<1>4. /\ owner \in [Objects -> Tasks \cup {Null}] /\ lockCount \in [Objects -> 0..MaxDepth]
      /\ held \in [Tasks -> [Objects -> 0..MaxDepth]] /\ MaxDepth \in Nat
      /\ \A n \in Objects : Booked(n)
  BY MutexAssumption DEF MutexInv, Books
<1>5. held[t][m] = lockCount[m] /\ lockCount[m] \in 1..MaxDepth
  BY <1>3, Believes
<1>6. /\ UNCHANGED kernelVars /\ owner' = owner
      /\ held' = [held EXCEPT ![t][m] = @ - 1]
      /\ lockCount' = [lockCount EXCEPT ![m] = @ - 1]
  BY <1>3 DEF MutexUnlock, kernelVars, listVars, schedVars, timeVars
<1>7. lockCount[m] > 1
  BY <1>5 DEF LastUnlock
<1>8. /\ lockCount'[m] = lockCount[m] - 1 /\ held'[t][m] = held[t][m] - 1
      /\ \A n \in Objects \ {m} : lockCount'[n] = lockCount[n]
      /\ \A u \in Tasks, n \in Objects : u # t \/ n # m => held'[u][n] = held[u][n]
  BY <1>4, <1>6
<1>9. /\ KernelInv(x)' /\ \A u \in Tasks : Waiting(u)'
      /\ \A u \in Tasks : Inside(u)' <=> Inside(u)
      /\ UNCHANGED <<state, currentTask, obj>>
  BY <1>1, <1>6, KernelStays DEF MutexInv, Calling
<1>10. FirstAlone(x)'
  BY <1>1, <1>6, <1>9 DEF FirstAlone
<1>11. ASSUME NEW u \in Tasks PROVE Served(u)'
  <2>1. CASE Inside(u)
    <3>1. u # t /\ Served(u) /\ obj[u] \in Objects
      BY <1>3, <2>1 DEF MutexInv, Calling, Waiting, Awaits, Inside
    <3>2. state[u] # "BLOCKED" => obj[u] # m
      BY <1>3, <2>1, <3>1 DEF Served
    <3>3. QED BY <1>6, <1>8, <1>9, <2>1, <3>1, <3>2 DEF Served
  <2>2. CASE ~Inside(u)
    BY <1>9, <2>2 DEF Served
  <2>3. QED BY <2>1, <2>2
<1>12. ASSUME NEW n \in Objects PROVE Booked(n)'
  <2>1. CASE n = m
    <3>1. \A u \in Tasks \ {t} : ~(held[u][m] > 0)
      BY <1>3, <1>4 DEF Booked
    <3>2. lockCount'[m] >= 1 /\ held'[t][m] = lockCount'[m] /\ owner'[m] = t
      BY <1>3, <1>5, <1>6, <1>7, <1>8
    <3>3. QED BY <1>8, <2>1, <3>1, <3>2 DEF Booked
  <2>2. CASE n # m
    <3>1. Booked(n) /\ owner[n] \in Tasks \cup {Null}
      BY <1>4
    <3>2. /\ owner'[n] = owner[n] /\ lockCount'[n] = lockCount[n]
          /\ \A u \in Tasks : held'[u][n] = held[u][n]
      BY <1>6, <1>8, <2>2
    <3>3. QED BY <1>9, <3>1, <3>2 DEF Booked
  <2>3. QED BY <2>1, <2>2
<1>13. Books'
  <2>1. held' \in [Tasks -> [Objects -> 0..MaxDepth]]
    <3>1. held[t][m] - 1 \in 0..MaxDepth
      BY <1>4, <1>5
    <3>2. QED BY <1>4, <1>6, <3>1
  <2>2. lockCount' \in [Objects -> 0..MaxDepth]
    <3>1. lockCount'[m] \in 0..MaxDepth
      BY <1>4, <1>5, <1>8
    <3>2. QED BY <1>4, <1>6, <1>8, <3>1
  <2>3. QED BY <1>4, <1>6, <1>12, <2>1, <2>2 DEF Books
<1>14. QED BY <1>6, <1>9, <1>10, <1>11, <1>13 DEF MutexInv, Calling
-----------------------------------------------------------------------------
(* Waiting for a mutex. *)

(* The owner inherits the priority and moves to its new ready queue.       *)
LEMMA BoostHouses ==
  ASSUME KernelInv(Null), NEW o \in Tasks, NEW t \in Tasks
  PROVE  /\ Boosted(o, t) \in [Tasks -> Nat]
         /\ \A u \in Tasks \ {o} : Boosted(o, t)[u] = priority[u]
         /\ Boosted(o, t)[o] >= priority[t] /\ Boosted(o, t)[o] >= priority[o]
         /\ Housed(Resorted(o, Boosted(o, t)), ListNames, Home(Null, state, Boosted(o, t), obj))
         /\ Others(Resorted(o, Boosted(o, t)), links, Apart)
<1> DEFINE pr == Boosted(o, t)
           h == Home(Null, state, priority, obj)
           g == Home(Null, state, pr, obj)
<1>1. priority \in [Tasks -> Nat] /\ Housed(links, ListNames, h)
  BY DEF KernelInv, Types, KernelTypeOK
<1>2. /\ pr \in [Tasks -> Nat] /\ \A u \in Tasks \ {o} : pr[u] = priority[u]
      /\ pr[o] >= priority[t] /\ pr[o] >= priority[o]
  BY <1>1 DEF Boosted
<1>3. o # Null
  BY ListAssumption
<1> HIDE DEF pr
<1>4. CASE pr # priority /\ state[o] = "READY"
  <2>1. Resorted(o, pr) = Requeued(links, pr, o)
    BY <1>4 DEF Resorted
  <2>2. h[o] = Ready(Level(priority[o])) /\ g[o] = Ready(Level(pr[o]))
    BY <1>3, <1>4, HomeIs
  <2>3. Level(priority[o]) \in Levels
    BY <1>1, LevelType, NanoAssumption
  <2>4. h[o] \in ReadyNames
    BY <2>2, <2>3, Names
  <2>5. Moves(h, g, o, g[o])
    <3>1. \A u \in Tasks \ {o} : /\ state[u] = state[u] /\ priority[u] = pr[u] /\ obj[u] = obj[u]
                                 /\ u = Null <=> u = Null
      BY <1>2
    <3>2. QED BY <3>1, HomeMoves
  <2>6. Moves(h, g, o, Ready(Level(pr[o])))
    BY <2>2, <2>5
  <2> HIDE DEF h, g
  <2>7. pr[o] \in Nat
    BY <1>2
  <2>8. Housed(Requeued(links, pr, o), ListNames, g) /\ Others(Requeued(links, pr, o), links, Apart)
    BY <1>1, <2>4, <2>6, <2>7, RequeueHouses
  <2>9. QED BY <1>2, <2>1, <2>8 DEF g, pr
<1>5. CASE ~(pr # priority /\ state[o] = "READY")
  <2>1. Resorted(o, pr) = links
    BY <1>5 DEF Resorted
  <2>2. \A u \in Tasks : h[u] = g[u]
    <3>1. \A u \in Tasks : pr[u] = priority[u] \/ state[u] # "READY"
      BY <1>2, <1>5
    <3>2. QED BY <3>1, ListAssumption DEF Home
  <2>3. h = g
    BY <2>2, HomeSame
  <2>4. Others(links, links, Apart)
    BY DEF Others
  <2>5. QED BY <1>1, <1>2, <2>1, <2>3, <2>4 DEF pr
<1>6. QED BY <1>4, <1>5

(* What a lock call leaves that has to wait: the owner has not changed, and *)
(* the task is behind those of its priority in the queue.                   *)
Queued(t, m) ==
  /\ priority' = Boosted(owner[m], t) /\ priority' \in [Tasks -> Nat]
  /\ \A u \in Tasks \ {owner[m]} : priority'[u] = priority[u]
  /\ priority'[owner[m]] >= priority[t] /\ priority'[owner[m]] >= priority[owner[m]]
  /\ owner[m] \in Tasks \ {t} /\ state[t] = "RUNNING" /\ ~Inside(t)
  /\ state' = [state EXCEPT ![t] = "BLOCKED"] /\ obj' = [obj EXCEPT ![t] = m]
  /\ UNCHANGED <<basePriority, owner, lockCount, held>>
  /\ Longer(links', links, Apart, WaitQueue(m),
            Passing(links, WaitQueue(m), {u \in Tasks : priority'[u] >= priority'[t]}), t)

LEMMA BlockKeepsMutexes ==
  ASSUME MutexInv, NoTimeouts, NEW t \in Tasks, NEW m \in Objects, MutexBlock(t, m)
  PROVE  MutexInv' /\ Queued(t, m) /\ KernelInv(Null)
<1>1. PICK x \in Tasks \cup {Null} : KernelInv(x) /\ FirstAlone(x)
  BY DEF MutexInv
<1> DEFINE o == owner[m]
           pr == Boosted(o, t)
<1>2. /\ Executes(t, "run") /\ o \notin {t, Null} /\ priority' = pr
      /\ Block(t, Resorted(o, pr), pr, m, m, "mutexCheck")
      /\ UNCHANGED <<basePriority, schedVars, mutexVars>>
  BY Zenon DEF MutexBlock, MayLock
<1>3. o \in Tasks /\ owner \in [Objects -> Tasks \cup {Null}]
  BY <1>2 DEF MutexInv, Books
<1>4. /\ ~Inside(t) /\ Away(t) /\ state[t] = "RUNNING" /\ currentTask = t
      /\ pc[t] = "run" /\ then[t] = "run"
  BY <1>2, RunsOutside
<1>5. x = Null
  <2>1. x # Null => x = t
    BY <1>1, <1>4 DEF KernelInv, Fresh
  <2>2. x # Null => o \in {Null, x}
    BY <1>1 DEF FirstAlone
  <2>3. QED BY <1>2, <2>1, <2>2
<1>6. KernelInv(Null) /\ Types /\ Calls
  BY <1>1, <1>5 DEF KernelInv, Control
<1>7. /\ pr \in [Tasks -> Nat] /\ \A u \in Tasks \ {o} : pr[u] = priority[u]
      /\ pr[o] >= priority[t] /\ pr[o] >= priority[o]
      /\ Housed(Resorted(o, pr), ListNames, Home(Null, state, pr, obj))
      /\ Others(Resorted(o, pr), links, Apart)
  BY <1>3, <1>6, BoostHouses
<1> HIDE DEF pr, o
<1>8. /\ KernelInv(Null)'
      /\ Longer(links', links, Apart, WaitQueue(m),
                Passing(links, WaitQueue(m), {u \in Tasks : pr[u] >= pr[t]}), t)
  <2>1. /\ t \notin Timed /\ "run" \in Places \ {"request", "ecall"}
        /\ "mutexCheck" \in Places \ {"run", "request", "ecall", "resume"}
    BY DEF NoTimeouts, Places
  <2>2. UNCHANGED <<basePriority, schedVars>>
    BY <1>2
  <2>3. QED BY <1>2, <1>6, <1>7, <2>1, <2>2, WaitKeeps
<1>9. /\ pc' = [pc EXCEPT ![t] = "request"] /\ then' = [then EXCEPT ![t] = "mutexCheck"]
      /\ obj' = [obj EXCEPT ![t] = m] /\ state' = [state EXCEPT ![t] = "BLOCKED"]
      /\ wakeReason' = wakeReason /\ currentTask' = currentTask
      /\ UNCHANGED <<owner, lockCount, held>>
  BY <1>2 DEF Block, Goto, timeVars, NoTimeouts, schedVars, mutexVars
<1>10. /\ \A u \in Tasks \ {t} : /\ pc'[u] = pc[u] /\ then'[u] = then[u] /\ obj'[u] = obj[u]
                                 /\ state'[u] = state[u]
       /\ pc'[t] = "request" /\ then'[t] = "mutexCheck" /\ obj'[t] = m /\ state'[t] = "BLOCKED"
  BY <1>6, <1>9 DEF Types, KernelTypeOK
<1>11. ASSUME NEW u \in Tasks PROVE Waiting(u)'
  <2>1. CASE u = t
    BY <1>10, <2>1 DEF Waiting, Awaits, InCall
  <2>2. CASE u # t
    <3>1. wakeReason'[u] = wakeReason[u] /\ Waiting(u)
      BY <1>9 DEF MutexInv, Calling
    <3>2. QED BY <1>10, <2>2, <3>1, CheckPlace, AwaitsKept DEF Waiting
  <2>3. QED BY <2>1, <2>2
<1>12. ASSUME NEW u \in Tasks PROVE Served(u)'
  <2>1. CASE u = t
    <3>1. held[t][m] = 0
      <4>1. Booked(m) /\ held \in [Tasks -> [Objects -> 0..MaxDepth]] /\ MaxDepth \in Nat
        BY MutexAssumption DEF MutexInv, Books
      <4>2. ~(held[t][m] > 0)
        BY <1>2, <4>1 DEF Booked, o
      <4>3. held[t][m] \in 0..MaxDepth
        BY <4>1
      <4>4. QED BY <4>1, <4>2, <4>3
    <3>2. QED BY <1>9, <1>10, <2>1, <3>1 DEF Served
  <2>2. CASE u # t
    <3>1. Served(u)
      BY DEF MutexInv, Calling
    <3>2. QED BY <1>9, <1>10, <2>2, <3>1 DEF Served, Inside, InCall
  <2>3. QED BY <2>1, <2>2
<1>13. ASSUME NEW n \in Objects PROVE Booked(n)'
  <2>1. Booked(n) /\ owner[n] \in Tasks \cup {Null}
    BY DEF MutexInv, Books
  <2>2. CASE owner[n] = t
    <3>1. held[t][n] = lockCount[n]
      BY <1>4, <2>2, Believes
    <3>2. QED BY <1>9, <2>1, <2>2, <3>1 DEF Booked
  <2>3. CASE owner[n] # t
    BY <1>9, <1>10, <2>1, <2>3 DEF Booked, Inside, InCall
  <2>4. QED BY <2>2, <2>3
<1>14. FirstAlone(Null)'
  BY <1>1, <1>5, <1>9 DEF FirstAlone
<1>15. Books'
  BY <1>9, <1>13 DEF MutexInv, Books
<1>16. MutexInv'
  BY <1>8, <1>11, <1>12, <1>14, <1>15 DEF MutexInv, Calling
<1>17. Queued(t, m)
  <2>1. basePriority' = basePriority
    BY <1>2
  <2>2. QED BY <1>2, <1>3, <1>4, <1>7, <1>8, <1>9, <2>1 DEF Queued, o, pr
<1>18. QED BY <1>6, <1>16, <1>17

(* Back from the yield. *)
LEMMA CheckKeeps ==
  ASSUME MutexInv, NEW t \in Tasks, MutexCheck(t)
  PROVE  /\ MutexInv' /\ state[t] = "RUNNING" /\ obj' = [obj EXCEPT ![t] = Null]
         /\ UNCHANGED <<links, state, priority, basePriority, owner>>
<1>1. PICK x \in Tasks \cup {Null} : KernelInv(x) /\ FirstAlone(x)
  BY DEF MutexInv
<1>2. Types /\ Calls
  BY <1>1 DEF KernelInv, Control
<1> DEFINE m == obj[t]
<1>3. /\ Executes(t, "mutexCheck") /\ LeaveQueue(t, m, wakeReason[t] = "TIMEOUT")
      /\ held' = IF wakeReason[t] = "SIGNALED" THEN [held EXCEPT ![t][m] = 1] ELSE held
      /\ obj' = [obj EXCEPT ![t] = Null] /\ pc' = [pc EXCEPT ![t] = "run"]
      /\ UNCHANGED <<state, priority, basePriority, currentTask, switchPending, taskCount,
                     ticksLeft, wakeReason, then, owner, lockCount>>
  BY DEF MutexCheck, Goto, schedVars, timeVars
<1>4. "mutexCheck" \in Places \ {"request", "ecall"}
  BY DEF Places
<1>5. /\ state[t] = "RUNNING" /\ pc[t] = "mutexCheck" /\ then[t] = "run"
      /\ Inside(t) /\ m \in Objects
  <2>1. state[t] = "RUNNING" /\ pc[t] = "mutexCheck"
    BY <1>1, <1>3, <1>4, ExecutesRunning
  <2>2. QED BY <1>2, <2>1 DEF MutexInv, Calling, Waiting, Awaits, Inside, InCall, Calls
<1>6. /\ wakeReason[t] = "SIGNALED" /\ owner[m] = t /\ lockCount[m] = 1 /\ held[t][m] = 0
  BY <1>5 DEF MutexInv, Calling, Waiting, Awaits, Inside, Served
<1> HIDE DEF m
<1>7. links' = links
  BY <1>1, <1>3, <1>5, LeaveNothing
<1>8. KernelInv(x)'
  <2>1. Housed(links', ListNames, Home(x, state', priority', obj'))
    <3>1. \A u \in Tasks \ {t} : obj[u] = obj'[u] /\ priority[u] = priority[u]
      BY <1>2, <1>3 DEF Types
    <3>2. state[t] = "RUNNING"
      BY <1>5
    <3>3. Home(x, state, priority, obj) = Home(x, state, priority, obj')
      BY <3>1, <3>2, HomeOfCaller
    <3>4. QED BY <1>1, <1>3, <1>7, <3>3 DEF KernelInv
  <2>2. /\ pc' \in [Tasks -> Places] /\ then' \in [Tasks -> Places]
        /\ obj' \in [Tasks -> Objects \cup Tasks \cup {Null}]
    BY <1>2, <1>3 DEF Types, Places
  <2>3. /\ \A u \in Tasks \ {t} : pc'[u] = pc[u] /\ then'[u] = then[u] /\ obj'[u] = obj[u]
        /\ pc'[t] = "run" /\ obj'[t] = Null /\ then'[t] = "run"
    BY <1>2, <1>3, <1>5 DEF Types
  <2>4. /\ state' \in [Tasks -> States] /\ priority' \in [Tasks -> Nat]
        /\ wakeReason' \in [Tasks -> {"NONE", "SIGNALED", "TIMEOUT"}]
        /\ switchPending' \in BOOLEAN
        /\ \A u \in Tasks : state'[u] = state[u] /\ priority'[u] = priority[u]
        /\ Chain(links', Delayed) = Chain(links, Delayed)
        /\ UNCHANGED <<basePriority, ticksLeft, currentTask, taskCount>>
    BY <1>2, <1>3, <1>7 DEF Types, KernelTypeOK
  <2>5. QED BY <1>1, <1>3, <1>4, <2>1, <2>2, <2>3, <2>4, CallKeeps
<1>9. /\ \A u \in Tasks \ {t} : pc'[u] = pc[u] /\ then'[u] = then[u] /\ obj'[u] = obj[u]
      /\ pc'[t] = "run" /\ obj'[t] = Null /\ then'[t] = "run"
      /\ state' = state /\ wakeReason' = wakeReason /\ owner' = owner /\ lockCount' = lockCount
  BY <1>2, <1>3, <1>5 DEF Types
<1>10. ASSUME NEW u \in Tasks PROVE Waiting(u)'
  <2>1. CASE u = t
    BY <1>5, <1>9, <2>1, NanoAssumption DEF Waiting, Awaits, InCall, Away
  <2>2. CASE u # t
    <3>1. wakeReason'[u] = wakeReason[u] /\ state'[u] = state[u] /\ Waiting(u)
      BY <1>9 DEF MutexInv, Calling
    <3>2. QED BY <1>9, <2>2, <3>1, CheckPlace, AwaitsKept DEF Waiting
  <2>3. QED BY <2>1, <2>2
<1>11. /\ held \in [Tasks -> [Objects -> 0..MaxDepth]] /\ 1 \in 0..MaxDepth
       /\ owner \in [Objects -> Tasks \cup {Null}] /\ lockCount \in [Objects -> 0..MaxDepth]
       /\ \A n \in Objects : Booked(n)
  BY MutexAssumption DEF MutexInv, Books
<1>12. /\ held' \in [Tasks -> [Objects -> 0..MaxDepth]] /\ held'[t][m] = 1
       /\ \A u \in Tasks, n \in Objects : u # t \/ n # m => held'[u][n] = held[u][n]
  BY <1>3, <1>5, <1>6, <1>11
<1>13. ASSUME NEW u \in Tasks PROVE Served(u)'
  <2>1. CASE u = t
    BY <1>9, <2>1 DEF Served, Inside, InCall
  <2>2. CASE u # t
    <3>1. Served(u) /\ Waiting(u)
      BY DEF MutexInv, Calling
    <3>2. Inside(u) => obj[u] \in Objects
      BY <3>1 DEF Waiting, Awaits, Inside
    <3>3. QED BY <1>9, <1>12, <2>2, <3>1, <3>2 DEF Served, Inside, InCall
  <2>3. QED BY <2>1, <2>2
<1>14. ASSUME NEW n \in Objects PROVE Booked(n)'
  <2>1. Booked(n) /\ owner[n] \in Tasks \cup {Null}
    BY <1>11
  <2>2. CASE n = m
    <3>1. \A u \in Tasks : held'[u][m] > 0 => owner'[m] = u
      BY <1>6, <1>9, <1>12, <2>1, <2>2 DEF Booked
    <3>2. QED BY <1>6, <1>9, <1>12, <2>2, <3>1 DEF Booked
  <2>3. CASE n # m
    <3>1. owner[n] = t => held[t][n] = lockCount[n]
      BY <2>1, <2>3, ListAssumption DEF Booked, m
    <3>2. \A u \in Tasks : held'[u][n] = held[u][n]
      BY <1>12, <2>3
    <3>3. QED BY <1>9, <2>1, <3>1, <3>2 DEF Booked, Inside, InCall
  <2>4. QED BY <2>2, <2>3
<1>15. FirstAlone(x)' /\ Books'
  BY <1>1, <1>3, <1>9, <1>11, <1>12, <1>14 DEF FirstAlone, Books
<1>16. QED BY <1>3, <1>5, <1>7, <1>8, <1>10, <1>13, <1>15 DEF MutexInv, Calling
-----------------------------------------------------------------------------
(* Giving the mutex back. *)

(* What the last unlock leaves: the mutex is its first waiter's, if any.   *)
Served1(t, m, w) ==
  /\ w \in Tasks \ {t} /\ state[w] = "BLOCKED" /\ obj[w] = m /\ Inside(w)
  /\ Len(Chain(links, WaitQueue(m))) > 0 /\ w = Chain(links, WaitQueue(m))[1]
  /\ state' = [state EXCEPT ![w] = "READY"]
  /\ wakeReason' = [wakeReason EXCEPT ![w] = "SIGNALED"]
  /\ Shorter(links', links, Apart, WaitQueue(m), 1)
Released(t, m, w) ==
  /\ owner[m] = t /\ ~Inside(t) /\ state[t] = "RUNNING" /\ w = FirstWaiter(m)
  /\ priority' = [priority EXCEPT ![t] = basePriority[t]]
  /\ owner' = [owner EXCEPT ![m] = w]
  /\ UNCHANGED <<basePriority, pc, then, obj>>
  /\ \/ Served1(t, m, w)
     \/ w = Null /\ UNCHANGED <<links, state, wakeReason>>

(* A task that runs may get its own priority back at any time. *)
LEMMA RestoreKeeps ==
  ASSUME NEW x \in Tasks \cup {Null}, KernelInv(x), NEW t \in Tasks, Executes(t, "run"),
         NEW y \in {x, Null},
         Housed(links', ListNames, Home(y, state', priority, obj)),
         Chain(links', Delayed) = Chain(links, Delayed),
         state' \in [Tasks -> States], state'[t] = "RUNNING",
         \A u \in Tasks : state'[u] # state[u] => state[u] = "BLOCKED" /\ state'[u] = "READY",
         priority' = [priority EXCEPT ![t] = basePriority[t]],
         wakeReason' \in [Tasks -> {"NONE", "SIGNALED", "TIMEOUT"}], switchPending' \in BOOLEAN,
         UNCHANGED <<basePriority, ticksLeft, currentTask, taskCount, pc, then, obj>>
  PROVE  KernelInv(y)'
<1>1. Types /\ Calls
  BY DEF KernelInv, Control
<1>2. "run" \in Places \ {"request", "ecall"}
  BY DEF Places
<1>3. /\ priority' \in [Tasks -> Nat] /\ \A u \in Tasks \ {t} : priority'[u] = priority[u]
  BY <1>1 DEF Types, KernelTypeOK
<1>4. Housed(links', ListNames, Home(y, state', priority', obj'))
  <2>1. \A u \in Tasks \ {t} : obj[u] = obj'[u] /\ priority[u] = priority'[u]
    BY <1>3
  <2>2. state'[t] = "RUNNING"
    OBVIOUS
  <2>3. \A u \in Tasks : Home(y, state', priority, obj)[u] = Home(y, state', priority', obj')[u]
    <3>1. \A u \in Tasks : obj[u] = obj'[u] /\ (state'[u] = "READY" => priority[u] = priority'[u])
      BY <2>1, <2>2
    <3>2. QED BY <3>1 DEF Home
  <2>4. Home(y, state', priority, obj) = Home(y, state', priority', obj')
    BY <2>3 DEF Home
  <2>5. QED BY <2>4
<1>5. /\ pc' \in [Tasks -> Places] /\ then' \in [Tasks -> Places]
      /\ obj' \in [Tasks -> Objects \cup Tasks \cup {Null}]
      /\ \A u \in Tasks \ {t} : pc'[u] = pc[u] /\ then'[u] = then[u] /\ obj'[u] = obj[u]
  BY <1>1 DEF Types
<1>6. pc'[t] = "run" /\ then'[t] = "run" /\ obj'[t] = Null
  BY <1>1 DEF Executes, Calls
<1>7. UNCHANGED <<basePriority, ticksLeft, currentTask, taskCount>>
  OBVIOUS
<1>8. QED BY <1>2, <1>3, <1>4, <1>5, <1>6, <1>7, CallKeeps, ZenonT(60)

LEMMA LastUnlockKernel ==
  ASSUME MutexInv, NEW x \in Tasks \cup {Null}, KernelInv(x), FirstAlone(x),
         NEW t \in Tasks, NEW m \in Objects, MutexUnlock(t, m), LastUnlock(m)
  PROVE  \E w \in Tasks \cup {Null}, y \in {x, Null} :
           /\ KernelInv(y)' /\ Released(t, m, w) /\ Executes(t, "run") /\ held[t][m] > 0
           /\ w # Null => y = Null
           /\ held' = [held EXCEPT ![t][m] = @ - 1] /\ currentTask' = currentTask
           /\ lockCount' = [lockCount EXCEPT ![m] = IF w = Null THEN 0 ELSE 1]
<1>1. Executes(t, "run") /\ held[t][m] > 0 /\ held' = [held EXCEPT ![t][m] = @ - 1]
  BY DEF MutexUnlock, Holds
<1>2. /\ ~Inside(t) /\ t # Null /\ owner[m] = t /\ state[t] = "RUNNING" /\ currentTask = t
      /\ obj[t] = Null
  BY <1>1, RunsOutside DEF MutexInv, Books, Booked
<1>3. /\ priority' = Restored(t) /\ owner' = [owner EXCEPT ![m] = NewOwner(m)]
      /\ lockCount' = [lockCount EXCEPT ![m] = IF FirstWaiter(m) = Null THEN 0 ELSE 1]
      /\ \/ Signal(m)
         \/ FirstWaiter(m) = Null /\ UNCHANGED <<links, state, wakeReason, switchPending>>
      /\ UNCHANGED <<basePriority, ticksLeft, currentTask, taskCount, callVars>>
  BY <1>2 DEF MutexUnlock
<1>4. /\ priority' = [priority EXCEPT ![t] = basePriority[t]]
      /\ owner' = [owner EXCEPT ![m] = FirstWaiter(m)]
      /\ UNCHANGED <<basePriority, ticksLeft, currentTask, taskCount, pc, then, obj>>
  BY <1>3 DEF Restored, NewOwner, callVars
<1>5. Types
  BY DEF KernelInv
<1>6. CASE Signal(m)
  <2>1. /\ x = Null /\ FirstWaiter(m) \in Tasks
        /\ state[FirstWaiter(m)] = "BLOCKED" /\ obj[FirstWaiter(m)] = m
        /\ Len(Chain(links, WaitQueue(m))) > 0
        /\ FirstWaiter(m) = Chain(links, WaitQueue(m))[1]
        /\ Housed(links', ListNames, Home(Null, state', priority, obj))
        /\ Shorter(links', links, Apart, WaitQueue(m), 1)
    BY <1>6, SignalHouses
  <2>2. /\ state' = [state EXCEPT ![FirstWaiter(m)] = "READY"] /\ switchPending' = TRUE
        /\ wakeReason' = [wakeReason EXCEPT ![FirstWaiter(m)] = "SIGNALED"]
    BY <1>6 DEF Signal
  <2>3. PICK w \in Tasks : w = FirstWaiter(m)
    BY <2>1
  <2>4. w # t
    BY <1>2, <2>1, <2>3
  <2>5. /\ state' \in [Tasks -> States] /\ state'[t] = "RUNNING" /\ switchPending' \in BOOLEAN
        /\ wakeReason' \in [Tasks -> {"NONE", "SIGNALED", "TIMEOUT"}]
        /\ \A u \in Tasks : state'[u] # state[u] => state[u] = "BLOCKED" /\ state'[u] = "READY"
    BY <1>2, <1>5, <2>1, <2>2, <2>3, <2>4 DEF Types, KernelTypeOK, States
  <2>6. Chain(links', Delayed) = Chain(links, Delayed)
    BY <2>1, Names DEF Shorter, Others, Apart
  <2>7. KernelInv(Null)'
    BY <1>1, <1>4, <2>1, <2>5, <2>6, RestoreKeeps
  <2>8. Inside(w)
    BY <2>1, <2>3 DEF MutexInv, Calling, Waiting, Awaits, Inside
  <2>9. Served1(t, m, w)
    BY <2>1, <2>2, <2>3, <2>4, <2>8 DEF Served1
  <2>10. Released(t, m, w)
    BY <1>2, <1>4, <2>3, <2>9 DEF Released
  <2>11. lockCount' = [lockCount EXCEPT ![m] = IF w = Null THEN 0 ELSE 1]
    BY <1>3, <2>3
  <2>12. QED BY <1>1, <1>4, <2>7, <2>10, <2>11
<1>7. CASE FirstWaiter(m) = Null /\ UNCHANGED <<links, state, wakeReason, switchPending>>
  <2>1. Housed(links', ListNames, Home(x, state', priority, obj))
    BY <1>7 DEF KernelInv
  <2>2. /\ state' \in [Tasks -> States] /\ state'[t] = "RUNNING" /\ switchPending' \in BOOLEAN
        /\ wakeReason' \in [Tasks -> {"NONE", "SIGNALED", "TIMEOUT"}]
        /\ \A u \in Tasks : state'[u] # state[u] => state[u] = "BLOCKED" /\ state'[u] = "READY"
        /\ Chain(links', Delayed) = Chain(links, Delayed)
    BY <1>2, <1>5, <1>7 DEF Types, KernelTypeOK
  <2>3. KernelInv(x)'
    BY <1>1, <1>4, <2>1, <2>2, RestoreKeeps
  <2>4. Released(t, m, Null)
    BY <1>2, <1>4, <1>7 DEF Released
  <2>5. lockCount' = [lockCount EXCEPT ![m] = IF Null = Null THEN 0 ELSE 1]
    BY <1>3, <1>7
  <2>6. QED BY <1>1, <1>4, <2>3, <2>4, <2>5
<1>8. QED BY <1>3, <1>6, <1>7

(* The last mutex_unlock. *)
LEMMA LastUnlockKeeps ==
  ASSUME MutexInv, NEW t \in Tasks, NEW m \in Objects, MutexUnlock(t, m), LastUnlock(m)
  PROVE  MutexInv' /\ \E w \in Tasks \cup {Null} : Released(t, m, w)
<1>1. PICK x \in Tasks \cup {Null} : KernelInv(x) /\ FirstAlone(x)
  BY DEF MutexInv
<1>2. PICK w \in Tasks \cup {Null}, y \in {x, Null} :
        /\ KernelInv(y)' /\ Released(t, m, w) /\ Executes(t, "run") /\ held[t][m] > 0
        /\ w # Null => y = Null
        /\ held' = [held EXCEPT ![t][m] = @ - 1] /\ currentTask' = currentTask
        /\ lockCount' = [lockCount EXCEPT ![m] = IF w = Null THEN 0 ELSE 1]
  BY <1>1, LastUnlockKernel
<1>3. /\ ~Inside(t) /\ t # Null /\ owner[m] = t /\ state[t] = "RUNNING" /\ currentTask = t
  BY <1>2, RunsOutside DEF Released
<1>4. /\ owner \in [Objects -> Tasks \cup {Null}] /\ lockCount \in [Objects -> 0..MaxDepth]
      /\ held \in [Tasks -> [Objects -> 0..MaxDepth]] /\ MaxDepth \in Nat \ {0}
      /\ \A n \in Objects : Booked(n)
  BY MutexAssumption DEF MutexInv, Books
<1>5. held[t][m] = 1 /\ lockCount[m] = 1
  <2>1. held[t][m] = lockCount[m] /\ lockCount[m] \in 1..MaxDepth
    BY <1>3, Believes
  <2>2. QED BY <2>1 DEF LastUnlock
<1>6. /\ owner'[m] = w /\ \A n \in Objects \ {m} : owner'[n] = owner[n]
      /\ lockCount'[m] = IF w = Null THEN 0 ELSE 1
      /\ \A n \in Objects \ {m} : lockCount'[n] = lockCount[n]
      /\ held'[t][m] = 0
      /\ \A u \in Tasks, n \in Objects : u # t \/ n # m => held'[u][n] = held[u][n]
      /\ UNCHANGED <<pc, then, obj>>
  BY <1>2, <1>4, <1>5 DEF Released
<1>7. /\ state \in [Tasks -> States]
      /\ wakeReason \in [Tasks -> {"NONE", "SIGNALED", "TIMEOUT"}]
      /\ w # Null => Served1(t, m, w)
      /\ w = Null => UNCHANGED <<state, wakeReason>>
  BY <1>1, <1>2, ListAssumption DEF KernelInv, Types, KernelTypeOK, Released, Served1
<1>8. ASSUME NEW u \in Tasks
      PROVE  /\ Inside(u)' <=> Inside(u)
             /\ u # w => state'[u] = state[u] /\ wakeReason'[u] = wakeReason[u]
             /\ u = w => /\ state'[u] = "READY" /\ wakeReason'[u] = "SIGNALED"
                         /\ Inside(u) /\ obj[u] = m /\ state[u] = "BLOCKED" /\ u # t
  BY <1>6, <1>7, ListAssumption DEF Inside, InCall, Served1
<1>9. ASSUME NEW u \in Tasks PROVE Waiting(u)'
  <2>1. Waiting(u)
    BY DEF MutexInv, Calling
  <2>2. QED BY <1>6, <1>8, <2>1, CheckPlace, AwaitsKept DEF Waiting
<1>10. ASSUME NEW u \in Tasks PROVE Served(u)'
  <2>1. SUFFICES ASSUME Inside(u) PROVE Served(u)'
    BY <1>8 DEF Served
  <2>2. u # t /\ Served(u) /\ obj[u] \in Objects
    BY <1>3, <2>1 DEF MutexInv, Calling, Waiting, Awaits, Inside
  <2>3. CASE u = w
    <3>1. obj'[u] = m /\ held'[u][m] = held[u][m] /\ lockCount'[m] = 1 /\ owner'[m] = u
      BY <1>6, <1>8, <2>2, <2>3, ListAssumption
    <3>2. held[u][m] = 0
      BY <1>8, <2>1, <2>2, <2>3 DEF Served
    <3>3. QED BY <3>1, <3>2 DEF Served
  <2>4. CASE u # w
    <3>1. state[u] # "BLOCKED" => obj[u] # m
      BY <1>3, <2>1, <2>2 DEF Served
    <3>2. QED BY <1>6, <1>8, <2>1, <2>2, <2>4, <3>1 DEF Served
  <2>5. QED BY <2>3, <2>4
<1>11. ASSUME NEW n \in Objects PROVE Booked(n)'
  <2>1. Booked(n) /\ owner[n] \in Tasks \cup {Null}
    BY <1>4
  <2>2. CASE n = m
    <3>1. \A u \in Tasks : ~(held'[u][m] > 0)
      BY <1>3, <1>5, <1>6, <2>1, <2>2 DEF Booked
    <3>2. w # Null => /\ lockCount'[m] >= 1 /\ Inside(w)' /\ obj'[w] = m
                      /\ state'[w] # "BLOCKED"
      BY <1>6, <1>8
    <3>3. QED BY <1>6, <2>2, <3>1, <3>2 DEF Booked
  <2>3. CASE n # m
    <3>1. /\ owner'[n] = owner[n] /\ lockCount'[n] = lockCount[n] /\ obj' = obj
          /\ \A u \in Tasks : held'[u][n] = held[u][n]
      BY <1>6, <2>3
    <3>2. \A u \in Tasks : Inside(u) /\ state[u] # "BLOCKED" => Inside(u)' /\ state'[u] # "BLOCKED"
      BY <1>8
    <3>3. QED BY <2>1, <3>1, <3>2 DEF Booked
  <2>4. QED BY <2>2, <2>3
<1>12. Books'
  <2>1. owner' \in [Objects -> Tasks \cup {Null}]
    BY <1>2, <1>4 DEF Released
  <2>2. held' \in [Tasks -> [Objects -> 0..MaxDepth]]
    <3>1. held[t][m] - 1 \in 0..MaxDepth
      BY <1>4, <1>5
    <3>2. QED BY <1>2, <1>4, <3>1
  <2>3. lockCount' \in [Objects -> 0..MaxDepth]
    <3>1. lockCount'[m] \in 0..MaxDepth
      BY <1>4, <1>6
    <3>2. QED BY <1>2, <1>4, <1>6, <3>1
  <2>4. QED BY <1>11, <2>1, <2>2, <2>3 DEF Books
<1>13. FirstAlone(y)'
  <2>1. CASE w = Null
    <3>1. y # Null => \A n \in Objects : owner'[n] \in {Null, y}
      BY <1>1, <1>2, <1>6, <2>1 DEF FirstAlone
    <3>2. QED BY <1>2, <1>3, <3>1 DEF FirstAlone
  <2>2. CASE w # Null
    BY <1>2, <1>3, <2>2 DEF FirstAlone
  <2>3. QED BY <2>1, <2>2
<1>14. KernelInv(y)' /\ y \in Tasks \cup {Null}
  BY <1>2
<1>15. QED BY <1>2, <1>9, <1>10, <1>12, <1>13, <1>14 DEF MutexInv, Calling

-----------------------------------------------------------------------------
(* Mutual exclusion. *)

LEMMA MutexStepKeeps ==
  ASSUME MutexInv, Disciplined, NoTimeouts, BootOnly, NoWrap, [MutexNext]_vars
  PROVE  MutexInv'
<1>1. CASE KernelNext /\ UNCHANGED mutexVars
  BY <1>1, MutexKernelKeeps
<1>2. ASSUME NEW t \in Tasks, MutexCheck(t) PROVE MutexInv'
  BY <1>2, CheckKeeps
<1>3. ASSUME NEW t \in Tasks, NEW m \in Objects, MutexTake(t, m) PROVE MutexInv'
  BY <1>3, TakeKeeps
<1>4. ASSUME NEW t \in Tasks, NEW m \in Objects, MutexBlock(t, m) PROVE MutexInv'
  BY <1>4, BlockKeepsMutexes
<1>5. ASSUME NEW t \in Tasks, NEW m \in Objects, MutexUnlock(t, m) PROVE MutexInv'
  BY <1>5, InnerUnlockKeeps, LastUnlockKeeps
<1>6. CASE UNCHANGED vars
  <2>1. PICK x \in Tasks \cup {Null} : KernelInv(x) /\ FirstAlone(x)
    BY DEF MutexInv
  <2>2. /\ KernelInv(x)' /\ \A u \in Tasks : Waiting(u)'
        /\ \A u \in Tasks : Inside(u)' <=> Inside(u)
        /\ UNCHANGED <<state, currentTask, obj>>
    BY <1>6, <2>1, KernelStays DEF MutexInv, Calling, vars
  <2>3. UNCHANGED <<owner, lockCount, held>>
    BY <1>6 DEF vars, mutexVars
  <2>4. FirstAlone(x)'
    BY <2>1, <2>2, <2>3 DEF FirstAlone
  <2>5. ASSUME NEW u \in Tasks PROVE Served(u)'
    BY <2>2, <2>3 DEF MutexInv, Calling, Served
  <2>6. ASSUME NEW n \in Objects PROVE Booked(n)'
    <3>1. Booked(n) /\ owner[n] \in Tasks \cup {Null}
      BY DEF MutexInv, Books
    <3>2. QED BY <2>2, <2>3, <3>1 DEF Booked
  <2>7. Books'
    BY <2>3, <2>6 DEF MutexInv, Books
  <2>8. QED BY <2>2, <2>4, <2>5, <2>7 DEF MutexInv, Calling
<1>7. QED BY <1>1, <1>2, <1>3, <1>4, <1>5, <1>6 DEF MutexNext, MutexStep

(* The invariant of the mutexes and of the kernel below them. *)
LEMMA MutexesSound ==
  ASSUME Disciplined, NoTimeouts, BootOnly, NoWrap PROVE MutexSpec => []MutexInv
<1>1. MutexInit => MutexInv
  BY MutexInitInv
<1>2. MutexInv /\ [MutexNext]_vars => MutexInv'
  BY MutexStepKeeps
<1>3. QED BY <1>1, <1>2, PTL DEF MutexSpec

(* No two tasks hold a mutex at a time: mutex_lock returns true to its     *)
(* owner only, however often it locks it (mutex_lock, mutex_unlock).       *)
THEOREM MutexesExclude ==
  ASSUME Disciplined, NoTimeouts, BootOnly, NoWrap PROVE MutexSpec => []MutualExclusion
<1>1. MutexInv => MutualExclusion
  BY DEF MutexInv, Books, Booked, MutualExclusion
<1>2. QED BY <1>1, MutexesSound, PTL

(* No mutex is left locked for a task that does not know it: the owner     *)
(* holds it, or its mutex_lock is about to return true (mutex_unlock hands *)
(* the mutex over).                                                        *)
THEOREM OwnersKnow ==
  ASSUME Disciplined, NoTimeouts, BootOnly, NoWrap PROVE MutexSpec => []OwnerKnows
<1>1. MutexInv => OwnerKnows
  <2> SUFFICES ASSUME MutexInv, NEW m \in Objects, owner[m] # Null
               PROVE  \/ held[owner[m]][m] = lockCount[m]
                      \/ /\ obj[owner[m]] = m /\ wakeReason[owner[m]] = "SIGNALED"
                         /\ state[owner[m]] # "BLOCKED"
    BY DEF OwnerKnows
  <2>1. Booked(m) /\ owner[m] \in Tasks
    BY DEF MutexInv, Books
  <2>2. Waiting(owner[m])
    BY <2>1 DEF MutexInv, Calling
  <2>3. QED BY <2>1, <2>2 DEF Booked, Waiting, Awaits, Inside
<1>2. QED BY <1>1, MutexesSound, PTL

(* A task blocked in mutex_lock is in the wait queue of its mutex, where   *)
(* mutex_unlock looks, and nobody else is.                                 *)
THEOREM MutexWaitersQueued ==
  ASSUME Disciplined, NoTimeouts, BootOnly, NoWrap PROVE MutexSpec => []WaitersQueued
<1>1. MutexInv => WaitersQueued
  BY SoundWaiters DEF MutexInv, Sound
<1>2. QED BY <1>1, MutexesSound, PTL
-----------------------------------------------------------------------------
(* Priority inheritance, when a task holds one mutex at a time.            *)

OneAtATime == MaxHeld = 1
NoRetunes == \A t \in Tasks : Retunes[t] = {}

OwnsOne == \A m, n \in Objects : owner[m] = owner[n] /\ owner[m] # Null => m = n
OwnersGoOn == \A m \in Objects, t \in Tasks :
                owner[m] = t => ~(state[t] = "BLOCKED" /\ obj[t] \in Objects)
Inherits == \A m \in Objects, w \in Tasks :
              state[w] = "BLOCKED" /\ obj[w] = m =>
                owner[m] \in Tasks /\ priority[owner[m]] >= priority[w]

Inherited == /\ MutexInv /\ Ordered(links, priority)
             /\ OwnsOne /\ OwnersGoOn /\ Inherits /\ BoostUndone

LEMMA InitInherited == ASSUME MutexInit PROVE Inherited
<1>1. MutexInv
  BY MutexInitInv
<1>2. PICK x \in Tasks \cup {Null} : KernelInv(x)
  BY <1>1 DEF MutexInv
<1>3. \A t \in Tasks : state[t] # "BLOCKED"
  BY DEF MutexInit, Init
<1>4. ASSUME NEW o \in Objects PROVE Len(Chain(links, WaitQueue(o))) = 0
  <2>1. /\ Len(Chain(links, WaitQueue(o))) \in Nat
        /\ \A i \in 1..Len(Chain(links, WaitQueue(o))) : Chain(links, WaitQueue(o))[i] \in Tasks
    BY <1>2, Names, HousedList DEF KernelInv
  <2>2. \A t \in Tasks : ~On(links, WaitQueue(o), t)
    BY <1>2, <1>3, SoundWaiters DEF WaitersQueued, Sound
  <2>3. QED BY <2>1, <2>2 DEF On
<1>5. Ordered(links, priority)
  BY <1>4 DEF Ordered, Ascending
<1>6. OwnsOne /\ OwnersGoOn /\ Inherits /\ BoostUndone
  BY <1>3 DEF MutexInit, Init, OwnsOne, OwnersGoOn, Inherits, BoostUndone
<1>7. QED BY <1>1, <1>5, <1>6 DEF Inherited

(* A step of the kernel gives a task another priority when it creates it.  *)
LEMMA KernelPriorities ==
  ASSUME NEW x \in Tasks \cup {Null}, KernelInv(x), NoRetunes, BootOnly, KernelNext
  PROVE  /\ \/ UNCHANGED <<priority, basePriority>>
            \/ currentTask = Null
         /\ \A t \in Tasks : \/ priority'[t] = priority[t] /\ basePriority'[t] = basePriority[t]
                             \/ priority'[t] = basePriority'[t]
<1>1. ASSUME NEW t \in Tasks, TaskCreate(t)
      PROVE  /\ currentTask = Null
             /\ \A u \in Tasks : \/ priority'[u] = priority[u] /\ basePriority'[u] = basePriority[u]
                                 \/ priority'[u] = basePriority'[u]
  <2>1. currentTask = Null
    BY <1>1 DEF TaskCreate, Creating, BootOnly
  <2>2. /\ priority' = [priority EXCEPT ![t] = InitPriority[t]]
        /\ basePriority' = [basePriority EXCEPT ![t] = InitPriority[t]]
    BY <1>1 DEF TaskCreate
  <2>3. priority \in [Tasks -> Nat] /\ basePriority \in [Tasks -> Nat]
    BY DEF KernelInv, Types, KernelTypeOK
  <2>4. QED BY <2>1, <2>2, <2>3
<1>2. ASSUME NEW t \in Tasks, TaskSetPriority(t) PROVE FALSE
  BY <1>2 DEF TaskSetPriority, NoRetunes
<1>3. CASE UNCHANGED <<priority, basePriority>>
  BY <1>3
<1>4. SchedStart \/ Tick => UNCHANGED <<priority, basePriority>>
  BY DEF SchedStart, Tick
<1>5. ASSUME NEW t \in Tasks,
             \/ TaskYield(t) \/ Ecall(t) \/ DelayTicks(t) \/ TaskSuspend(t)
             \/ TaskDelete(t) \/ TaskResume(t) \/ ResumeReady(t)
      PROVE  UNCHANGED <<priority, basePriority>>
  BY <1>5 DEF TaskYield, Ecall, DelayTicks, TaskSuspend, TaskDelete, Stop, TaskResume,
              ResumeReady, listVars
<1>6. QED BY <1>1, <1>2, <1>3, <1>4, <1>5 DEF KernelNext

LEMMA KernelInherited ==
  ASSUME Inherited, Disciplined, BootOnly, NoRetunes, KernelNext, UNCHANGED mutexVars
  PROVE  Inherited'
<1>1. MutexInv'
  BY MutexKernelKeeps DEF Inherited
<1>2. PICK x \in Tasks \cup {Null} : KernelInv(x) /\ FirstAlone(x)
  BY DEF Inherited, MutexInv
<1>3. owner' = owner
  BY DEF mutexVars
<1>4. ASSUME NEW u \in Tasks, state'[u] = "BLOCKED", obj'[u] \in Objects
      PROVE  state[u] = "BLOCKED" /\ obj'[u] = obj[u]
  <2>1. Inside(u)'
    BY <1>1, <1>4 DEF MutexInv, Calling, Waiting, Awaits, Inside
  <2>2. /\ InCall(u, "mutexCheck")' <=> InCall(u, "mutexCheck")
        /\ InCall(u, "mutexCheck") => /\ obj'[u] = obj[u]
                                      /\ state'[u] = "BLOCKED" <=> state[u] = "BLOCKED"
    BY <1>2, CheckPlace, CallsStay DEF Inherited, MutexInv, Calling, Waiting
  <2>3. QED BY <1>4, <2>1, <2>2 DEF Inside
<1>5. /\ \/ UNCHANGED <<priority, basePriority>>
         \/ \A m \in Objects : owner[m] = Null
      /\ \A t \in Tasks : \/ priority'[t] = priority[t] /\ basePriority'[t] = basePriority[t]
                          \/ priority'[t] = basePriority'[t]
  <2>1. currentTask = Null => \A m \in Objects : owner[m] = Null
    BY <1>2 DEF FirstAlone, KernelInv, Fresh
  <2>2. QED BY <1>2, <2>1, KernelPriorities
<1>6. OwnsOne' /\ OwnersGoOn'
  BY <1>3, <1>4 DEF Inherited, OwnsOne, OwnersGoOn
<1>7. Inherits'
  <2>1. SUFFICES ASSUME NEW m \in Objects, NEW w \in Tasks, state'[w] = "BLOCKED", obj'[w] = m
                 PROVE  owner'[m] \in Tasks /\ priority'[owner'[m]] >= priority'[w]
    BY DEF Inherits
  <2>2. state[w] = "BLOCKED" /\ obj[w] = m
    BY <1>4, <2>1
  <2>3. owner[m] \in Tasks /\ priority[owner[m]] >= priority[w]
    BY <2>2 DEF Inherited, Inherits
  <2>4. priority' = priority
    BY <1>5, <2>3, ListAssumption
  <2>5. QED BY <1>3, <2>3, <2>4
<1>8. BoostUndone'
  <2>1. SUFFICES ASSUME NEW t \in Tasks, priority'[t] # basePriority'[t]
                 PROVE  \E m \in Objects : owner'[m] = t
    BY DEF BoostUndone
  <2>2. priority[t] # basePriority[t]
    BY <1>5, <2>1
  <2>3. QED BY <1>3, <2>2 DEF Inherited, BoostUndone
<1>9. Ordered(links', priority')
  <2>1. Others(links', links, WaitNames)
    BY <1>2, KernelStep DEF Goes, Keeps
  <2>2. ASSUME NEW t \in Tasks, state[t] = "BLOCKED", obj[t] \in Objects
        PROVE  priority'[t] = priority[t]
    <3>1. owner[obj[t]] \in Tasks
      BY <2>2 DEF Inherited, Inherits
    <3>2. QED BY <1>5, <2>2, <3>1, ListAssumption
  <2>3. Ordered(links, priority)
    BY DEF Inherited
  <2>4. QED BY <1>2, <2>1, <2>2, <2>3, OrderedKept
<1>10. QED BY <1>1, <1>6, <1>7, <1>8, <1>9 DEF Inherited

(* A task that may lock another mutex owns none. *)
LEMMA LocksNoOther ==
  ASSUME Inherited, OneAtATime, NEW t \in Tasks, NEW m \in Objects, MayLock(t, m), owner[m] # t
  PROVE  \A n \in Objects : owner[n] # t
<1>1. SUFFICES ASSUME NEW n \in Objects, owner[n] = t PROVE FALSE
  OBVIOUS
<1>2. /\ Executes(t, "run") /\ (m \in Holds(t) \/ Cardinality(Holds(t)) < 1)
      /\ MutexInv /\ OwnsOne
  BY DEF MayLock, OneAtATime, Inherited
<1>3. \A k \in Objects : Booked(k)
  BY <1>2 DEF MutexInv, Books
<1>4. ~Inside(t) /\ t # Null
  BY <1>2, RunsOutside
<1>5. \A k \in Holds(t) : k = n
  BY <1>1, <1>2, <1>3, <1>4 DEF Holds, Booked, OwnsOne
<1>6. held[t][n] = lockCount[n] /\ lockCount[n] \in 1..MaxDepth
  BY <1>1, <1>2, <1>4, Believes
<1>7. held[t][n] > 0 /\ m # n
  BY <1>1, <1>6, MutexAssumption
<1>8. Holds(t) = {n}
  BY <1>5, <1>7 DEF Holds
<1>9. Cardinality(Holds(t)) = 1
  BY <1>8, FS_Singleton
<1>10. QED BY <1>2, <1>7, <1>8, <1>9

(* A step that does not touch the kernel and, at most, gives a mutex that  *)
(* nobody waits for to a task that owns none.                              *)
LEMMA OwnerInherited ==
  ASSUME Inherited, MutexInv', NEW t \in Tasks, NEW m \in Objects,
         \A n \in Objects \ {m} : owner'[n] = owner[n],
         owner[m] \in {Null, t}, owner'[m] = t,
         owner[m] # t => \A n \in Objects : owner[n] # t,
         state[t] = "RUNNING",
         UNCHANGED <<links, state, priority, basePriority, obj>>
  PROVE  Inherited'
<1>1. OwnsOne' /\ OwnersGoOn'
  BY DEF Inherited, OwnsOne, OwnersGoOn
<1>2. \A n \in Objects : owner[n] \in Tasks => owner'[n] = owner[n]
  BY ListAssumption
<1>3. Inherits' /\ BoostUndone'
  BY <1>2 DEF Inherited, Inherits, BoostUndone
<1>4. Ordered(links', priority')
  BY DEF Inherited
<1>5. QED BY <1>1, <1>3, <1>4 DEF Inherited

LEMMA TakeInherited ==
  ASSUME Inherited, OneAtATime, NoWrap, NEW t \in Tasks, NEW m \in Objects, MutexTake(t, m)
  PROVE  Inherited'
<1>1. /\ MutexInv /\ MutexInv' /\ owner' = [owner EXCEPT ![m] = t]
      /\ UNCHANGED <<links, state, priority, basePriority, obj>>
  BY TakeKeeps DEF Inherited, kernelVars, listVars, callVars
<1>2. MayLock(t, m) /\ owner[m] \in {Null, t} /\ state[t] = "RUNNING"
  BY <1>1, RunsOutside DEF MutexTake, MayLock
<1>3. /\ \A n \in Objects \ {m} : owner'[n] = owner[n]
      /\ owner'[m] = t
  BY <1>1 DEF MutexInv, Books
<1>4. owner[m] # t => \A n \in Objects : owner[n] # t
  BY <1>2, LocksNoOther
<1>5. QED BY <1>1, <1>2, <1>3, <1>4, OwnerInherited

LEMMA BlockInherited ==
  ASSUME Inherited, OneAtATime, NoTimeouts, NEW t \in Tasks, NEW m \in Objects, MutexBlock(t, m)
  PROVE  Inherited'
<1>1. MutexInv' /\ Queued(t, m) /\ KernelInv(Null)
  BY BlockKeepsMutexes DEF Inherited
<1>2. MayLock(t, m) /\ owner[m] # t
  BY DEF MutexBlock
<1>3. \A n \in Objects : owner[n] # t
  BY <1>2, LocksNoOther
<1>4. /\ state \in [Tasks -> States] /\ obj \in [Tasks -> Objects \cup Tasks \cup {Null}]
      /\ priority \in [Tasks -> Nat] /\ priority' \in [Tasks -> Nat]
  BY <1>1 DEF KernelInv, Types, KernelTypeOK, Queued
<1>5. /\ \A u \in Tasks \ {t} : state'[u] = state[u] /\ obj'[u] = obj[u]
      /\ state'[t] = "BLOCKED" /\ obj'[t] = m /\ state[t] = "RUNNING"
      /\ owner' = owner /\ basePriority' = basePriority
  BY <1>1, <1>4 DEF Queued
<1>6. /\ \A u \in Tasks \ {owner[m]} : priority'[u] = priority[u]
      /\ priority'[owner[m]] >= priority[t] /\ priority'[owner[m]] >= priority[owner[m]]
      /\ owner[m] \in Tasks \ {t}
  BY <1>1 DEF Queued
<1>7. OwnsOne' /\ OwnersGoOn'
  BY <1>3, <1>5 DEF Inherited, OwnsOne, OwnersGoOn
<1>8. Inherits'
  <2>1. SUFFICES ASSUME NEW n \in Objects, NEW w \in Tasks, state'[w] = "BLOCKED", obj'[w] = n
                 PROVE  owner'[n] \in Tasks /\ priority'[owner'[n]] >= priority'[w]
    BY DEF Inherits
  <2>2. CASE w = t
    BY <1>5, <1>6, <2>1, <2>2
  <2>3. CASE w # t
    <3>1. state[w] = "BLOCKED" /\ obj[w] = n
      BY <1>5, <2>1, <2>3
    <3>2. owner[n] \in Tasks /\ priority[owner[n]] >= priority[w]
      BY <3>1 DEF Inherited, Inherits
    <3>3. w # owner[m]
      BY <3>1 DEF Inherited, OwnersGoOn
    <3>4. priority'[w] = priority[w] /\ priority'[owner[n]] >= priority[owner[n]]
      BY <1>4, <1>6, <3>2, <3>3
    <3>5. QED BY <1>4, <1>5, <3>2, <3>4
  <2>4. QED BY <2>2, <2>3
<1>9. BoostUndone'
  BY <1>5, <1>6 DEF Inherited, BoostUndone
<1>10. Ordered(links', priority')
  <2>1. ASSUME NEW u \in Tasks, state[u] = "BLOCKED", obj[u] \in Objects
        PROVE  priority'[u] = priority[u]
    <3>1. u # owner[m]
      BY <2>1 DEF Inherited, OwnersGoOn
    <3>2. QED BY <1>6, <3>1
  <2>2. Longer(links', links, Apart, WaitQueue(m),
               Passing(links, WaitQueue(m), {u \in Tasks : priority'[u] >= priority'[t]}), t)
    BY <1>1 DEF Queued
  <2>3. Ordered(links, priority) /\ Null \in Tasks \cup {Null}
    BY DEF Inherited
  <2>4. QED BY <1>1, <1>4, <1>5, <2>1, <2>2, <2>3, OrderedWait
<1>11. QED BY <1>1, <1>7, <1>8, <1>9, <1>10 DEF Inherited

LEMMA CheckInherited ==
  ASSUME Inherited, NEW t \in Tasks, MutexCheck(t)
  PROVE  Inherited'
<1>1. /\ MutexInv' /\ state[t] = "RUNNING" /\ obj' = [obj EXCEPT ![t] = Null]
      /\ UNCHANGED <<links, state, priority, basePriority, owner>>
  BY CheckKeeps DEF Inherited
<1>2. \A u \in Tasks : state[u] = "BLOCKED" => obj'[u] = obj[u]
  BY <1>1
<1>3. OwnsOne' /\ OwnersGoOn' /\ Inherits' /\ BoostUndone' /\ Ordered(links', priority')
  BY <1>1, <1>2 DEF Inherited, OwnsOne, OwnersGoOn, Inherits, BoostUndone
<1>4. QED BY <1>1, <1>3 DEF Inherited

LEMMA UnlockInherited ==
  ASSUME Inherited, NEW t \in Tasks, NEW m \in Objects, MutexUnlock(t, m), LastUnlock(m)
  PROVE  Inherited'
<1>1. MutexInv /\ MutexInv'
  BY LastUnlockKeeps DEF Inherited
<1>2. PICK w \in Tasks \cup {Null} : Released(t, m, w)
  BY <1>1, LastUnlockKeeps
<1>3. PICK x \in Tasks \cup {Null} : KernelInv(x)
  BY <1>1 DEF MutexInv
<1>4. /\ state \in [Tasks -> States] /\ priority \in [Tasks -> Nat]
      /\ basePriority \in [Tasks -> Nat] /\ owner \in [Objects -> Tasks \cup {Null}]
  BY <1>1, <1>3 DEF KernelInv, Types, KernelTypeOK, MutexInv, Books
<1>5. /\ owner[m] = t /\ state[t] = "RUNNING" /\ w = FirstWaiter(m)
      /\ priority'[t] = basePriority[t] /\ \A u \in Tasks \ {t} : priority'[u] = priority[u]
      /\ owner'[m] = w /\ \A n \in Objects \ {m} : owner'[n] = owner[n]
      /\ obj' = obj /\ basePriority' = basePriority
      /\ w # Null => Served1(t, m, w)
      /\ w = Null => UNCHANGED <<links, state>>
  BY <1>2, <1>4, ListAssumption DEF Released, Served1
<1>6. \A n \in Objects \ {m} : owner[n] # t
  BY <1>5, ListAssumption DEF Inherited, OwnsOne
<1>7. w # Null => /\ w # t /\ state[w] = "BLOCKED" /\ obj[w] = m /\ state'[w] = "READY"
                  /\ w \in Tasks
  BY <1>4, <1>5 DEF Served1
<1>8. \A u \in Tasks : /\ u # w => state'[u] = state[u]
                       /\ state'[u] = "BLOCKED" => state[u] = "BLOCKED" /\ u # w
  BY <1>4, <1>5, <1>7, ListAssumption DEF Served1
<1>9. w # Null => \A n \in Objects : owner[n] # w
  BY <1>7 DEF Inherited, OwnersGoOn
<1>10. OwnsOne' /\ OwnersGoOn'
  BY <1>5, <1>8, <1>9 DEF Inherited, OwnsOne, OwnersGoOn
<1>11. Inherits'
  <2>1. SUFFICES ASSUME NEW n \in Objects, NEW u \in Tasks, state'[u] = "BLOCKED", obj'[u] = n
                 PROVE  owner'[n] \in Tasks /\ priority'[owner'[n]] >= priority'[u]
    BY DEF Inherits
  <2>2. state[u] = "BLOCKED" /\ obj[u] = n /\ u # t /\ u # w
    BY <1>5, <1>8, <2>1
  <2>3. priority'[u] = priority[u]
    BY <1>5, <2>2
  <2>4. owner[n] \in Tasks /\ priority[owner[n]] >= priority[u]
    BY <2>2 DEF Inherited, Inherits
  <2>5. CASE n # m
    BY <1>5, <1>6, <2>3, <2>4, <2>5
  <2>6. CASE n = m
    <3>1. w # Null
      BY <1>1, <1>5, <2>2, <2>6, NobodyWaits DEF MutexInv, Sound
    <3>2. /\ w \in Tasks /\ w = Chain(links, WaitQueue(m))[1]
          /\ Len(Chain(links, WaitQueue(m))) > 0 /\ state[u] = "BLOCKED" /\ obj[u] = m
          /\ Ordered(links, priority)
      BY <1>5, <2>2, <2>6, <3>1 DEF Served1, Inherited
    <3>3. priority[u] <= priority[w]
      BY <1>3, <3>2, FirstIsBest
    <3>4. priority'[w] = priority[w]
      BY <1>5, <1>7, <3>1
    <3>5. QED BY <1>4, <1>5, <2>3, <2>6, <3>2, <3>3, <3>4
  <2>7. QED BY <2>5, <2>6
<1>12. BoostUndone'
  <2>1. SUFFICES ASSUME NEW u \in Tasks, priority'[u] # basePriority'[u]
                 PROVE  \E n \in Objects : owner'[n] = u
    BY DEF BoostUndone
  <2>2. u # t /\ priority[u] # basePriority[u]
    BY <1>5, <2>1
  <2>3. PICK n \in Objects : owner[n] = u
    BY <2>2 DEF Inherited, BoostUndone
  <2>4. QED BY <1>5, <2>2, <2>3
<1>13. Ordered(links', priority')
  <2>1. \A u \in Tasks : state[u] = "BLOCKED" /\ obj[u] \in Objects => priority'[u] = priority[u]
    BY <1>5
  <2>2. Ordered(links, priority)
    BY DEF Inherited
  <2>3. CASE w = Null
    <3>1. Others(links', links, WaitNames)
      BY <1>5, <2>3 DEF Others
    <3>2. QED BY <1>3, <2>1, <2>2, <3>1, OrderedKept
  <2>4. CASE w # Null
    <3>1. Shorter(links', links, Apart, WaitQueue(m), 1) /\ Len(Chain(links, WaitQueue(m))) > 0
      BY <1>5, <2>4 DEF Served1
    <3>2. QED BY <1>3, <2>1, <2>2, <3>1, OrderedSignal
  <2>5. QED BY <2>3, <2>4
<1>14. QED BY <1>1, <1>10, <1>11, <1>12, <1>13 DEF Inherited

LEMMA InnerUnlockInherited ==
  ASSUME Inherited, NEW t \in Tasks, NEW m \in Objects, MutexUnlock(t, m), ~LastUnlock(m)
  PROVE  Inherited'
<1>1. MutexInv' /\ UNCHANGED <<links, state, priority, basePriority, obj, owner>>
  BY InnerUnlockKeeps DEF Inherited, kernelVars, listVars, callVars
<1>2. OwnsOne' /\ OwnersGoOn' /\ Inherits' /\ BoostUndone' /\ Ordered(links', priority')
  BY <1>1 DEF Inherited, OwnsOne, OwnersGoOn, Inherits, BoostUndone
<1>3. QED BY <1>1, <1>2 DEF Inherited

LEMMA MutexesInherit ==
  ASSUME Disciplined, NoTimeouts, BootOnly, NoWrap, OneAtATime, NoRetunes
  PROVE  MutexSpec => []Inherited
<1>1. MutexInit => Inherited
  BY InitInherited
<1>2. Inherited /\ [MutexNext]_vars => Inherited'
  <2> SUFFICES ASSUME Inherited, [MutexNext]_vars PROVE Inherited'
    OBVIOUS
  <2>1. CASE KernelNext /\ UNCHANGED mutexVars
    BY <2>1, KernelInherited
  <2>2. ASSUME NEW t \in Tasks, MutexCheck(t) PROVE Inherited'
    BY <2>2, CheckInherited
  <2>3. ASSUME NEW t \in Tasks, NEW m \in Objects, MutexTake(t, m) PROVE Inherited'
    BY <2>3, TakeInherited
  <2>4. ASSUME NEW t \in Tasks, NEW m \in Objects, MutexBlock(t, m) PROVE Inherited'
    BY <2>4, BlockInherited
  <2>5. ASSUME NEW t \in Tasks, NEW m \in Objects, MutexUnlock(t, m) PROVE Inherited'
    BY <2>5, UnlockInherited, InnerUnlockInherited
  <2>6. CASE UNCHANGED vars
    <3>1. MutexInv'
      BY <2>6, MutexStepKeeps DEF Inherited
    <3>2. UNCHANGED <<links, state, priority, basePriority, obj, owner>>
      BY <2>6 DEF vars, mutexVars, kernelVars, listVars, callVars
    <3>3. OwnsOne' /\ OwnersGoOn' /\ Inherits' /\ BoostUndone' /\ Ordered(links', priority')
      BY <3>2 DEF Inherited, OwnsOne, OwnersGoOn, Inherits, BoostUndone
    <3>4. QED BY <3>1, <3>3 DEF Inherited
  <2>7. QED BY <2>1, <2>2, <2>3, <2>4, <2>5, <2>6 DEF MutexNext, MutexStep
<1>3. QED BY <1>1, <1>2, PTL DEF MutexSpec

(* The owner of a mutex never runs at a lower priority than a task that    *)
(* waits for it, and a free mutex has no waiters (mutex_lock raises the    *)
(* owner, mutex_unlock hands over to the first waiter).                    *)
THEOREM OwnersInherit ==
  ASSUME Disciplined, NoTimeouts, BootOnly, NoWrap, OneAtATime, NoRetunes
  PROVE  MutexSpec => []PriorityInherited
<1>1. Inherited => PriorityInherited
  <2> SUFFICES ASSUME Inherited, NEW m \in Objects, NEW w \in Tasks, On(links, WaitQueue(m), w)
               PROVE  owner[m] # Null /\ priority[owner[m]] >= priority[w]
    BY DEF PriorityInherited
  <2>1. state[w] = "BLOCKED" /\ obj[w] = m
    BY SoundWaiters DEF Inherited, MutexInv, Sound, WaitersQueued
  <2>2. QED BY <2>1, ListAssumption DEF Inherited, Inherits
<1>2. QED BY <1>1, MutexesInherit, PTL

(* A task that owns no mutex is at its own priority: no boost outlives the *)
(* mutex it was for (mutex_unlock).                                        *)
THEOREM BoostsUndone ==
  ASSUME Disciplined, NoTimeouts, BootOnly, NoWrap, OneAtATime, NoRetunes
  PROVE  MutexSpec => []BoostUndone
<1>1. Inherited => BoostUndone
  BY DEF Inherited
<1>2. QED BY <1>1, MutexesInherit, PTL
=============================================================================
