------------------------------ MODULE Spinlock ------------------------------
(***************************************************************************)
(* The kernel's two ways of excluding others, as the SMP kernels use them: *)
(*   - include/spinlock.h: a word taken by amoswap, with local interrupts  *)
(*     masked first (irqsave) and restored after the release (irqrestore); *)
(*   - src/kernel/critical.c: masking local interrupts alone.              *)
(* Every core runs task code that may be interrupted whenever mstatus.MIE  *)
(* is set, at any instruction of the sequences below; the handler takes    *)
(* the same locks.  Locks nest in the order of Rank, as g_delay_lock and   *)
(* then g_sched_lock do in delay_ticks.  What is done inside the sections  *)
(* is left out.                                                            *)
(***************************************************************************)
EXTENDS Integers, Sequences

CONSTANTS Cores,      \* harts
          Locks,      \* the spinlock_t objects: g_delay_lock, g_sched_lock
          Rank,       \* the nesting order the callers keep
          NoLock,     \* the "lock" of a frame made by critical_enter
          MaxDepth    \* bound: how deep one call chain nests sections

ASSUME LockAssumption == /\ Rank \in [Locks -> Nat]
                         /\ NoLock \notin Locks
                         /\ MaxDepth \in Nat

VARIABLES locked,  \* lock->locked, TRUE for 1
          mie,     \* mstatus.MIE of each core
          held,    \* the sections a core is in: [lock, saved mstatus.MIE], innermost last
          pc,      \* instruction a core is at: run, clear, spin, restore
          want,    \* argument of the running irqsave / acquire
          saved,   \* its register that holds the mstatus just read
          inIsr,   \* the core is in trap_handler
          outer    \* what trap_entry saved: [pc, want, saved, depth]

vars == <<locked, mie, held, pc, want, saved, inIsr, outer>>

Frame == [lock : Locks \cup {NoLock}, saved : BOOLEAN]
Pcs == {"run", "clear", "spin", "restore"}
Saved == [pc : Pcs, want : Locks \cup {NoLock}, saved : BOOLEAN, depth : Nat]

(* Sections entered by the code that runs now, not by what it interrupted. *)
Base(c) == IF inIsr[c] THEN outer[c].depth ELSE 0
Own(c) == {i \in 1..Len(held[c]) : i > Base(c)}

(* Mutant: locks are nested in any order. *)
MayTakeAny(c, l) == \A i \in Own(c) : held[c][i].lock # l

(* The callers' discipline: delay.c nests g_sched_lock inside g_delay_lock *)
(* and no chain takes a lock that ranks below one it holds.                *)
MayTake(c, l) == \A i \in Own(c) : held[c][i].lock \in Locks =>
                                     Rank[held[c][i].lock] < Rank[l]
Room(c) == Len(held[c]) - Base(c) < MaxDepth

Init == /\ locked = [l \in Locks |-> FALSE]
        /\ mie = [c \in Cores |-> TRUE]
        /\ held = [c \in Cores |-> <<>>]
        /\ pc = [c \in Cores |-> "run"]
        /\ want = [c \in Cores |-> NoLock]
        /\ saved = [c \in Cores |-> FALSE]
        /\ inIsr = [c \in Cores |-> FALSE]
        /\ outer = [c \in Cores |->
                      [pc |-> "run", want |-> NoLock, saved |-> FALSE, depth |-> 0]]

(* spinlock_lock_irqsave, csrr: mstatus is read, not yet masked. *)
ReadMstatus(c, l) == /\ pc[c] = "run"
                     /\ MayTake(c, l) /\ Room(c)
                     /\ want' = [want EXCEPT ![c] = l]
                     /\ saved' = [saved EXCEPT ![c] = mie[c]]
                     /\ pc' = [pc EXCEPT ![c] = "clear"]
                     /\ UNCHANGED <<locked, mie, held, inIsr, outer>>

(* Mutant: the mask is left as it is. *)
MaskNothing(c) == /\ pc[c] = "clear"
                  /\ pc' = [pc EXCEPT ![c] = "spin"]
                  /\ UNCHANGED <<locked, mie, held, want, saved, inIsr, outer>>

(* spinlock_lock_irqsave, csrc mstatus, 0x8. *)
MaskIrq(c) == /\ pc[c] = "clear"
              /\ mie' = [mie EXCEPT ![c] = FALSE]
              /\ pc' = [pc EXCEPT ![c] = "spin"]
              /\ UNCHANGED <<locked, held, want, saved, inIsr, outer>>

(* sched_schedule's spinlock_acquire: the trap has masked interrupts. *)
RawAcquire(c, l) == /\ pc[c] = "run" /\ inIsr[c]
                    /\ MayTake(c, l) /\ Room(c)
                    /\ want' = [want EXCEPT ![c] = l]
                    /\ saved' = [saved EXCEPT ![c] = FALSE]
                    /\ pc' = [pc EXCEPT ![c] = "spin"]
                    /\ UNCHANGED <<locked, mie, held, inIsr, outer>>

(* Mutant: a plain store instead of a swap; the old value is not looked at. *)
StoreOne(c) == /\ pc[c] = "spin"
               /\ locked' = [locked EXCEPT ![want[c]] = TRUE]
               /\ held' = [held EXCEPT ![c] =
                             Append(@, [lock |-> want[c], saved |-> saved[c]])]
               /\ pc' = [pc EXCEPT ![c] = "run"]
               /\ UNCHANGED <<mie, want, saved, inIsr, outer>>

(* One turn of spinlock_acquire's loop: 1 is stored whatever was there;  *)
(* the loop is left when 0 was read.                                     *)
Amoswap(c) == /\ pc[c] = "spin"
              /\ locked' = [locked EXCEPT ![want[c]] = TRUE]
              /\ IF locked[want[c]]
                   THEN UNCHANGED <<held, pc>>
                   ELSE /\ held' = [held EXCEPT ![c] =
                                      Append(@, [lock |-> want[c], saved |-> saved[c]])]
                        /\ pc' = [pc EXCEPT ![c] = "run"]
              /\ UNCHANGED <<mie, want, saved, inIsr, outer>>

(* critical_enter: csrrci reads and masks in one instruction. *)
CriticalEnter(c) == /\ pc[c] = "run" /\ Room(c)
                    /\ mie' = [mie EXCEPT ![c] = FALSE]
                    /\ held' = [held EXCEPT ![c] =
                                  Append(@, [lock |-> NoLock, saved |-> mie[c]])]
                    /\ UNCHANGED <<locked, pc, want, saved, inIsr, outer>>

(* Leaving the innermost section: spinlock_release's store of zero (there *)
(* is none in critical_exit).  The saved mstatus stays in a register.     *)
Release(c) == /\ pc[c] = "run" /\ Own(c) # {}
              /\ LET top == held[c][Len(held[c])]
                 IN  /\ locked' = [l \in Locks |-> locked[l] /\ l # top.lock]
                     /\ saved' = [saved EXCEPT ![c] = top.saved]
              /\ held' = [held EXCEPT ![c] = SubSeq(@, 1, Len(@) - 1)]
              /\ pc' = [pc EXCEPT ![c] = "restore"]
              /\ UNCHANGED <<mie, want, inIsr, outer>>

(* Mutant: interrupts are enabled whatever the mask was. *)
EnableIrq(c) == /\ pc[c] = "restore"
                /\ mie' = [mie EXCEPT ![c] = TRUE]
                /\ pc' = [pc EXCEPT ![c] = "run"]
                /\ UNCHANGED <<locked, held, want, saved, inIsr, outer>>

(* if (mstatus & 0x8) csrs mstatus, 0x8 -- and critical_exit's csrsi. *)
RestoreIrq(c) == /\ pc[c] = "restore"
                 /\ mie' = [mie EXCEPT ![c] = @ \/ saved[c]]
                 /\ pc' = [pc EXCEPT ![c] = "run"]
                 /\ UNCHANGED <<locked, held, want, saved, inIsr, outer>>

(* trap_entry: taken at any instruction while MIE is set; hardware clears *)
(* MIE (MPIE keeps it) and the handler starts in run.                     *)
Interrupt(c) == /\ mie[c]
                /\ outer' = [outer EXCEPT ![c] =
                               [pc |-> pc[c], want |-> want[c],
                                saved |-> saved[c], depth |-> Len(held[c])]]
                /\ mie' = [mie EXCEPT ![c] = FALSE]
                /\ inIsr' = [inIsr EXCEPT ![c] = TRUE]
                /\ pc' = [pc EXCEPT ![c] = "run"]
                /\ UNCHANGED <<locked, held, want, saved>>

(* trap_exit: registers are restored and mret sets MIE from MPIE. *)
Mret(c) == /\ inIsr[c] /\ pc[c] = "run" /\ Own(c) = {}
           /\ pc' = [pc EXCEPT ![c] = outer[c].pc]
           /\ want' = [want EXCEPT ![c] = outer[c].want]
           /\ saved' = [saved EXCEPT ![c] = outer[c].saved]
           /\ mie' = [mie EXCEPT ![c] = TRUE]
           /\ inIsr' = [inIsr EXCEPT ![c] = FALSE]
           /\ UNCHANGED <<locked, held, outer>>

Next == \E c \in Cores :
          \/ \E l \in Locks : ReadMstatus(c, l) \/ RawAcquire(c, l)
          \/ MaskIrq(c) \/ Amoswap(c) \/ CriticalEnter(c)
          \/ Release(c) \/ RestoreIrq(c) \/ Interrupt(c) \/ Mret(c)

Spec == Init /\ [][Next]_vars

-----------------------------------------------------------------------------
(* Every variable has its type. *)
TypeOK == /\ locked \in [Locks -> BOOLEAN]
          /\ mie \in [Cores -> BOOLEAN]
          /\ held \in [Cores -> Seq(Frame)]
          /\ pc \in [Cores -> Pcs]
          /\ want \in [Cores -> Locks \cup {NoLock}]
          /\ saved \in [Cores -> BOOLEAN]
          /\ inIsr \in [Cores -> BOOLEAN]
          /\ outer \in [Cores -> Saved]

Holds(c, l) == \E i \in 1..Len(held[c]) : held[c][i].lock = l

(* No lock is inside two sections, of two cores or of one core and the    *)
(* handler that interrupted it (spinlock_acquire / spinlock_release).     *)
MutualExclusion ==
  \A l \in Locks, c, d \in Cores :
    \A i \in 1..Len(held[c]), j \in 1..Len(held[d]) :
      held[c][i].lock = l /\ held[d][j].lock = l => c = d /\ i = j

(* A core never spins on a lock that it holds itself, in the handler or   *)
(* in the code the handler interrupted: it would never get it.  This is   *)
(* what masking interrupts before the acquire is for (spinlock.h:98-99).  *)
NoSelfDeadlock ==
  \A c \in Cores : pc[c] = "spin" => ~Holds(c, want[c])

(* Cores that hold locks never all wait for one another: some holder is   *)
(* not spinning on a taken lock (delay.c nests g_sched_lock within        *)
(* g_delay_lock, never the other way round).                              *)
NoCircularWait ==
  (\E c \in Cores, l \in Locks : Holds(c, l)) =>
     \E c \in Cores : /\ \E l \in Locks : Holds(c, l)
                      /\ ~(pc[c] = "spin" /\ locked[want[c]])

(* Interrupts stay masked in every section and in the handler, and are    *)
(* enabled again once task code has left its outermost section: nesting   *)
(* irqsave and critical_enter restores the mask of each level.            *)
IrqMaskMatchesSections ==
  \A c \in Cores : /\ held[c] # <<>> \/ inIsr[c] => ~mie[c]
                   /\ held[c] = <<>> /\ ~inIsr[c] /\ pc[c] = "run" => mie[c]
=============================================================================
