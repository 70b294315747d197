--------------------------- MODULE SpinlockProofs ---------------------------
(***************************************************************************)
(* Mutual exclusion, freedom from self-deadlock and the restoring of the   *)
(* interrupt mask, for any number of cores and locks and any nesting depth.*)
(***************************************************************************)
EXTENDS Spinlock, WellFoundedInduction, SequenceTheorems, TLAPS

(* A taken lock's word is set: a swap that reads 0 takes a free lock. *)
WordSet == \A l \in Locks, c \in Cores : Holds(c, l) => locked[l]

(* A core about to swap has a lock to swap, and one its code does not hold. *)
WantsFree ==
  \A c \in Cores :
    /\ pc[c] \in {"clear", "spin"} => want[c] \in Locks /\ ~Holds(c, want[c])
    /\ inIsr[c] /\ outer[c].pc = "clear" => outer[c].want \in Locks

(* Interrupts are enabled only outside every section.  The one mstatus    *)
(* with MIE set is the one saved by the outermost section of task code.   *)
MaskInv ==
  \A c \in Cores :
    /\ mie[c] => held[c] = <<>> /\ ~inIsr[c] /\ pc[c] \in {"run", "clear"}
    /\ inIsr[c] => /\ outer[c].depth = 0
                   /\ outer[c].pc \in {"run", "clear"}
                   /\ outer[c].pc = "clear" => outer[c].saved
    /\ \A i \in 1..Len(held[c]) : held[c][i].saved <=> i = 1 /\ ~inIsr[c]
    /\ pc[c] # "run" => (saved[c] <=> held[c] = <<>> /\ ~inIsr[c])
    /\ pc[c] = "run" /\ held[c] = <<>> /\ ~inIsr[c] => mie[c]

IInv == TypeOK /\ MutualExclusion /\ WordSet /\ WantsFree /\ MaskInv

(* Entering a section adds its frame on top of those already entered. *)
LEMMA PushFrame ==
  ASSUME NEW s \in Seq(Frame), NEW f \in Frame
  PROVE  /\ Append(s, f) \in Seq(Frame)
         /\ Len(Append(s, f)) = Len(s) + 1
         /\ \A i \in 1..Len(s) : Append(s, f)[i] = s[i]
         /\ Append(s, f)[Len(s) + 1] = f
BY AppendProperties

(* Leaving the innermost section keeps the frames below it. *)
LEMMA PopFrame ==
  ASSUME NEW s \in Seq(Frame), Len(s) > 0
  PROVE  /\ SubSeq(s, 1, Len(s) - 1) \in Seq(Frame)
         /\ Len(SubSeq(s, 1, Len(s) - 1)) = Len(s) - 1
         /\ \A i \in 1..Len(s) - 1 : SubSeq(s, 1, Len(s) - 1)[i] = s[i]
         /\ s[Len(s)] \in Frame
<1>1. Len(s) \in Nat /\ \A i \in 1..Len(s) : s[i] \in Frame
  BY LenProperties, ElementOfSeq
<1>2. \A i \in 1..Len(s) - 1 : s[i] \in Frame
  BY <1>1
<1> DEFINE n == Len(s) - 1
<1>3. n \in Int /\ n \in Nat /\ \A i \in 1..n : s[i] \in Frame
  BY <1>1, <1>2
<1> HIDE DEF n
<1>4. \A m \in Int : (\A i \in m..n : s[i] \in Frame) =>
        /\ SubSeq(s, m, n) \in Seq(Frame)
        /\ Len(SubSeq(s, m, n)) = IF m <= n THEN n - m + 1 ELSE 0
        /\ \A i \in 1..n - m + 1 : SubSeq(s, m, n)[i] = s[m + i - 1]
  BY <1>3, SubSeqProperties
<1>5. /\ SubSeq(s, 1, n) \in Seq(Frame)
      /\ Len(SubSeq(s, 1, n)) = n
      /\ \A i \in 1..n : SubSeq(s, 1, n)[i] = s[i]
  BY <1>3, <1>4
<1>6. QED
  BY <1>1, <1>5 DEF n

LEMMA InitIInv == Init => IInv
<1>1. ASSUME Init PROVE IInv
  <2>1. \A c \in Cores : held[c] = <<>> /\ Len(held[c]) = 0
    BY <1>1 DEF Init
  <2>2. TypeOK
    BY <1>1, EmptySeq DEF Init, TypeOK, Saved, Pcs
  <2>3. MutualExclusion /\ WordSet /\ WantsFree /\ MaskInv
    BY <1>1, <2>1 DEF Init, MutualExclusion, WordSet, WantsFree, MaskInv, Holds
  <2>4. QED BY <2>2, <2>3 DEF IInv
<1>2. QED BY <1>1

(* The steps that neither enter nor leave a section. *)
LEMMA PlainStep ==
  ASSUME IInv, NEW c \in Cores,
         \/ \E l \in Locks : ReadMstatus(c, l) \/ RawAcquire(c, l)
         \/ MaskIrq(c) \/ RestoreIrq(c) \/ Interrupt(c) \/ Mret(c)
  PROVE  IInv'
<1> USE DEF IInv
<1>1. UNCHANGED <<locked, held>>
  BY DEF ReadMstatus, RawAcquire, MaskIrq, RestoreIrq, Interrupt, Mret
<1>2. MutualExclusion' /\ WordSet'
  BY <1>1 DEF MutualExclusion, WordSet, Holds
<1>3. \A d \in Cores : Len(held[d]) \in Nat /\ (held[d] = <<>> <=> Len(held[d]) = 0)
  BY LenProperties, EmptySeq DEF TypeOK
<1>4. TypeOK'
  <2>1. CASE \E l \in Locks : ReadMstatus(c, l) \/ RawAcquire(c, l)
    <3>1. PICK l \in Locks : ReadMstatus(c, l) \/ RawAcquire(c, l)
      BY <2>1
    <3>2. /\ want' = [want EXCEPT ![c] = l]
          /\ \E b \in BOOLEAN : saved' = [saved EXCEPT ![c] = b]
          /\ \E p \in Pcs : pc' = [pc EXCEPT ![c] = p]
          /\ UNCHANGED <<locked, mie, held, inIsr, outer>>
      BY <3>1 DEF ReadMstatus, RawAcquire, TypeOK, Pcs
    <3>3. QED BY <3>2 DEF TypeOK
  <2>2. CASE MaskIrq(c) \/ RestoreIrq(c)
    BY <2>2 DEF MaskIrq, RestoreIrq, TypeOK, Pcs
  <2>3. CASE Interrupt(c)
    BY <1>3, <2>3 DEF Interrupt, TypeOK, Pcs, Saved
  <2>4. CASE Mret(c)
    BY <2>4 DEF Mret, TypeOK, Saved
  <2>5. QED BY <2>1, <2>2, <2>3, <2>4
<1>5. ASSUME NEW l \in Locks, ReadMstatus(c, l) \/ RawAcquire(c, l)
      PROVE  (WantsFree /\ MaskInv)'
  <2>1. ~Holds(c, l)
    <3>1. Own(c) = 1..Len(held[c])
      BY <1>3 DEF Own, Base, MaskInv
    <3>2. MayTake(c, l)
      BY <1>5 DEF ReadMstatus, RawAcquire
    <3>3. QED BY <3>1, <3>2, LockAssumption DEF MayTake, Holds
  <2>2. /\ pc[c] = "run" /\ pc'[c] \in {"clear", "spin"} /\ want'[c] = l
        /\ saved'[c] <=> mie[c]
        /\ mie' = mie /\ inIsr' = inIsr /\ outer' = outer
        /\ pc'[c] = "spin" => inIsr[c]
        /\ \A d \in Cores : d # c => /\ pc'[d] = pc[d] /\ want'[d] = want[d]
                                     /\ saved'[d] = saved[d]
    BY <1>5 DEF ReadMstatus, RawAcquire, TypeOK, MaskInv
  <2>3. WantsFree'
    BY <1>1, <2>1, <2>2 DEF WantsFree, Holds
  <2>4. MaskInv'
    BY <1>1, <2>2 DEF MaskInv
  <2>5. QED BY <2>3, <2>4
<1>6. ASSUME MaskIrq(c) \/ RestoreIrq(c)
      PROVE  (WantsFree /\ MaskInv)'
  <2>1. WantsFree'
    BY <1>1, <1>6 DEF MaskIrq, RestoreIrq, WantsFree, Holds, TypeOK
  <2>2. /\ \/ /\ pc[c] = "clear" /\ pc'[c] = "spin" /\ ~mie'[c]
           \/ /\ pc[c] = "restore" /\ pc'[c] = "run" /\ (mie'[c] <=> mie[c] \/ saved[c])
        /\ saved' = saved /\ inIsr' = inIsr /\ outer' = outer
        /\ \A d \in Cores : d # c => mie'[d] = mie[d] /\ pc'[d] = pc[d]
    BY <1>6 DEF MaskIrq, RestoreIrq, TypeOK
  <2>3. CASE pc[c] = "clear"
    BY <1>1, <2>1, <2>2, <2>3 DEF MaskInv
  <2>4. CASE pc[c] = "restore"
    BY <1>1, <2>1, <2>2, <2>4 DEF MaskInv
  <2>5. QED BY <2>2, <2>3, <2>4
<1>7. ASSUME Interrupt(c)
      PROVE  (WantsFree /\ MaskInv)'
  <2>1. Len(held[c]) = 0 /\ held[c] = <<>> /\ pc[c] \in {"run", "clear"} /\ ~inIsr[c]
    BY <1>3, <1>7 DEF Interrupt, MaskInv
  <2>2. /\ outer'[c] = [pc |-> pc[c], want |-> want[c], saved |-> saved[c], depth |-> 0]
        /\ inIsr'[c] /\ ~mie'[c] /\ pc'[c] = "run"
        /\ \A d \in Cores : d # c => /\ outer'[d] = outer[d] /\ inIsr'[d] = inIsr[d]
                                     /\ mie'[d] = mie[d] /\ pc'[d] = pc[d]
        /\ UNCHANGED <<want, saved>>
    BY <1>7, <2>1 DEF Interrupt, TypeOK
  <2>3. WantsFree'
    BY <1>1, <2>1, <2>2 DEF WantsFree, Holds
  <2>4. MaskInv'
    BY <1>1, <2>1, <2>2 DEF MaskInv
  <2>5. QED BY <2>3, <2>4
<1>8. ASSUME Mret(c)
      PROVE  (WantsFree /\ MaskInv)'
  <2>1. held[c] = <<>>
    <3>1. \A i \in 1..Len(held[c]) : i \in Own(c)
      BY <1>3, <1>8 DEF Mret, Own, Base, MaskInv
    <3>2. QED BY <1>3, <1>8, <3>1 DEF Mret
  <2>2. WantsFree'
    BY <1>1, <1>3, <1>8, <2>1 DEF Mret, WantsFree, MaskInv, Holds, TypeOK
  <2>3. MaskInv'
    BY <1>1, <1>3, <1>8, <2>1 DEF Mret, MaskInv, TypeOK
  <2>4. QED BY <2>2, <2>3
<1>9. QED BY <1>2, <1>4, <1>5, <1>6, <1>7, <1>8

(* spinlock_acquire's loop, lost or won. *)
LEMMA AmoswapStep ==
  ASSUME IInv, NEW c \in Cores, Amoswap(c)
  PROVE  IInv'
<1> USE DEF IInv
<1>1. CASE locked[want[c]]
  <2>1. locked' = locked /\ UNCHANGED <<mie, held, pc, want, saved, inIsr, outer>>
    BY <1>1 DEF Amoswap, TypeOK, WantsFree
  <2>2. QED
    <3>1. TypeOK' /\ MutualExclusion' BY <2>1 DEF TypeOK, MutualExclusion
    <3>2. WordSet' /\ WantsFree' BY <2>1 DEF WordSet, WantsFree, Holds
    <3>3. MaskInv' BY <2>1 DEF MaskInv
    <3>4. QED BY <3>1, <3>2, <3>3
<1>2. CASE ~locked[want[c]]
  <2> DEFINE f == [lock |-> want[c], saved |-> saved[c]]
             n == Len(held[c])
  <2>1. /\ held' = [held EXCEPT ![c] = Append(held[c], f)]
        /\ locked' = [locked EXCEPT ![want[c]] = TRUE]
        /\ pc' = [pc EXCEPT ![c] = "run"]
        /\ UNCHANGED <<mie, want, saved, inIsr, outer>>
    BY <1>2 DEF Amoswap, TypeOK
  <2>2. f \in Frame /\ want[c] \in Locks /\ pc[c] = "spin"
    BY DEF Amoswap, WantsFree, TypeOK, Frame
  <2>3. /\ n \in Nat
        /\ held'[c] \in Seq(Frame) /\ Len(held'[c]) = n + 1
        /\ \A i \in 1..n : held'[c][i] = held[c][i]
        /\ held'[c][n + 1] = f
    BY <2>1, <2>2, PushFrame, LenProperties DEF TypeOK
  <2>4. \A d \in Cores : d # c => held'[d] = held[d]
    BY <2>1 DEF TypeOK
  <2>5. \A d \in Cores : Len(held[d]) \in Nat /\ (held[d] = <<>> <=> Len(held[d]) = 0)
    BY LenProperties, EmptySeq DEF TypeOK
  <2>6. TypeOK'
    BY <2>1, <2>3 DEF TypeOK, Pcs
  <2>7. MutualExclusion'
    <3> SUFFICES ASSUME NEW l \in Locks, NEW a \in Cores, NEW b \in Cores,
                        NEW i \in 1..Len(held'[a]), NEW j \in 1..Len(held'[b]),
                        held'[a][i].lock = l, held'[b][j].lock = l
                 PROVE  a = b /\ i = j
      BY DEF MutualExclusion
    <3>1. \A d \in Cores : \A k \in 1..Len(held'[d]) :
             \/ k \in 1..Len(held[d]) /\ held'[d][k] = held[d][k]
             \/ d = c /\ k = n + 1 /\ held'[d][k] = f
      BY <2>3, <2>4, <2>5
    <3>2. \A d \in Cores : \A k \in 1..Len(held[d]) : held[d][k].lock # f.lock
      BY <1>2, <2>2 DEF WordSet, Holds
    <3>3. CASE l = f.lock
      BY <2>5, <3>1, <3>2, <3>3, ZenonT(60)
    <3>4. CASE l # f.lock
      <4>1. /\ i \in 1..Len(held[a]) /\ held[a][i].lock = l
            /\ j \in 1..Len(held[b]) /\ held[b][j].lock = l
        BY <3>1, <3>4
      <4>2. QED BY <4>1 DEF MutualExclusion
    <3>5. QED BY <3>3, <3>4
  <2>8. WordSet'
    BY <2>1, <2>2, <2>3, <2>4, <2>5 DEF WordSet, Holds, TypeOK
  <2>9. WantsFree'
    BY <2>1, <2>4, <2>5 DEF WantsFree, Holds, TypeOK
  <2>10. MaskInv'
    <3>1. held'[c] # <<>>
      BY <2>3, EmptySeq
    <3>2. f.saved = saved[c]
      OBVIOUS
    <3>3. n = 0 <=> held[c] = <<>>
      BY <2>5
    <3>4. \A i \in 1..Len(held'[c]) : held'[c][i].saved <=> i = 1 /\ ~inIsr[c]
      BY <2>2, <2>3, <3>2, <3>3 DEF MaskInv
    <3>5. QED BY <2>1, <2>2, <2>4, <3>1, <3>4 DEF MaskInv, TypeOK
  <2>11. QED BY <2>6, <2>7, <2>8, <2>9, <2>10
<1>3. QED BY <1>1, <1>2

(* critical_enter: a section without a lock. *)
LEMMA CriticalEnterStep ==
  ASSUME IInv, NEW c \in Cores, CriticalEnter(c)
  PROVE  IInv'
<1> USE DEF IInv
<1> DEFINE f == [lock |-> NoLock, saved |-> mie[c]]
           n == Len(held[c])
<1>1. f \in Frame /\ f.saved = mie[c] /\ \A l \in Locks : f.lock # l
  BY LockAssumption DEF TypeOK, Frame
<1>2. /\ n \in Nat
      /\ held'[c] \in Seq(Frame) /\ Len(held'[c]) = n + 1
      /\ \A i \in 1..n : held'[c][i] = held[c][i]
      /\ held'[c][n + 1] = f
  BY <1>1, PushFrame, LenProperties DEF CriticalEnter, TypeOK
<1>3. \A d \in Cores : d # c => held'[d] = held[d]
  BY DEF CriticalEnter, TypeOK
<1>4. \A d \in Cores : Len(held[d]) \in Nat /\ (held[d] = <<>> <=> Len(held[d]) = 0)
  BY LenProperties, EmptySeq DEF TypeOK
<1>5. TypeOK'
  BY <1>2 DEF CriticalEnter, TypeOK
<1>6. MutualExclusion'
  <2>1. \A d \in Cores : \A k \in 1..Len(held'[d]) :
           \/ k \in 1..Len(held[d]) /\ held'[d][k] = held[d][k]
           \/ held'[d][k].lock \notin Locks
    BY <1>1, <1>2, <1>3, <1>4
  <2> SUFFICES ASSUME NEW l \in Locks, NEW a \in Cores, NEW b \in Cores,
                      NEW i \in 1..Len(held'[a]), NEW j \in 1..Len(held'[b]),
                      held'[a][i].lock = l, held'[b][j].lock = l
               PROVE  a = b /\ i = j
    BY DEF MutualExclusion
  <2>2. /\ i \in 1..Len(held[a]) /\ held[a][i].lock = l
        /\ j \in 1..Len(held[b]) /\ held[b][j].lock = l
    BY <2>1
  <2>3. QED BY <2>2 DEF MutualExclusion
<1>7. WordSet'
  BY <1>1, <1>2, <1>3, <1>4 DEF CriticalEnter, WordSet, Holds
<1>8. WantsFree'
  BY <1>1, <1>2, <1>3, <1>4 DEF CriticalEnter, WantsFree, Holds
<1>9. MaskInv'
  <2>1. held'[c] # <<>>
    BY <1>2, EmptySeq
  <2>2. \A i \in 1..Len(held'[c]) : held'[c][i].saved <=> i = 1 /\ ~inIsr[c]
    BY <1>1, <1>2, <1>4 DEF CriticalEnter, MaskInv
  <2>3. QED BY <1>3, <2>1, <2>2 DEF CriticalEnter, MaskInv, TypeOK
<1>10. QED BY <1>5, <1>6, <1>7, <1>8, <1>9

(* spinlock_release and critical_exit, up to the restoring of mstatus. *)
LEMMA ReleaseStep ==
  ASSUME IInv, NEW c \in Cores, Release(c)
  PROVE  IInv'
<1> USE DEF IInv
<1> DEFINE n == Len(held[c])
           top == held[c][n]
<1>1. \A d \in Cores : Len(held[d]) \in Nat /\ (held[d] = <<>> <=> Len(held[d]) = 0)
  BY LenProperties, EmptySeq DEF TypeOK
<1>2. n > 0
  BY <1>1 DEF Release, Own, Base, TypeOK, Saved
<1>3. /\ held'[c] \in Seq(Frame) /\ Len(held'[c]) = n - 1
      /\ \A i \in 1..n - 1 : held'[c][i] = held[c][i]
      /\ top \in Frame
  BY <1>2, PopFrame DEF Release, TypeOK
<1>4. \A d \in Cores : d # c => held'[d] = held[d]
  BY DEF Release, TypeOK
<1>5. /\ locked' = [l \in Locks |-> locked[l] /\ l # top.lock]
      /\ saved' = [saved EXCEPT ![c] = top.saved]
      /\ pc' = [pc EXCEPT ![c] = "restore"]
      /\ UNCHANGED <<mie, want, inIsr, outer>>
  BY DEF Release
<1>6. TypeOK'
  <2>1. held' \in [Cores -> Seq(Frame)]
    BY <1>3 DEF Release, TypeOK
  <2>2. top.saved \in BOOLEAN
    BY <1>3 DEF Frame
  <2>3. QED BY <1>5, <2>1, <2>2 DEF TypeOK, Pcs
<1>7. MutualExclusion'
  <2>1. \A d \in Cores : \A k \in 1..Len(held'[d]) :
           k \in 1..Len(held[d]) /\ held'[d][k] = held[d][k]
    BY <1>1, <1>2, <1>3, <1>4
  <2> SUFFICES ASSUME NEW l \in Locks, NEW a \in Cores, NEW b \in Cores,
                      NEW i \in 1..Len(held'[a]), NEW j \in 1..Len(held'[b]),
                      held'[a][i].lock = l, held'[b][j].lock = l
               PROVE  a = b /\ i = j
    BY DEF MutualExclusion
  <2>2. /\ i \in 1..Len(held[a]) /\ held[a][i].lock = l
        /\ j \in 1..Len(held[b]) /\ held[b][j].lock = l
    BY <2>1
  <2>3. QED BY <2>2 DEF MutualExclusion
<1>8. WordSet'
  <2> SUFFICES ASSUME NEW l \in Locks, NEW d \in Cores, Holds(d, l)'
               PROVE  locked'[l]
    BY DEF WordSet
  <2>1. PICK i \in 1..Len(held'[d]) : held'[d][i].lock = l
    BY DEF Holds
  <2>2. /\ i \in 1..Len(held[d]) /\ held[d][i].lock = l
        /\ d = c => i # n
    BY <1>1, <1>2, <1>3, <1>4, <2>1
  <2>3. top.lock # l
    BY <1>1, <1>2, <2>2 DEF MutualExclusion
  <2>4. locked[l]
    BY <2>2 DEF WordSet, Holds
  <2>5. QED BY <1>5, <2>3, <2>4 DEF TypeOK
<1>9. WantsFree'
  BY <1>4, <1>5 DEF WantsFree, Holds, TypeOK
<1>10. MaskInv'
  <2>1. top.saved <=> n = 1 /\ ~inIsr[c]
    <3>1. n \in 1..n
      BY <1>1, <1>2
    <3>2. QED BY <3>1 DEF MaskInv
  <2>2. held'[c] = <<>> <=> n = 1
    <3>1. Len(held'[c]) = 0 <=> n = 1
      BY <1>1, <1>2, <1>3
    <3>2. QED BY <1>3, <3>1, EmptySeq
  <2>3. \A i \in 1..Len(held'[c]) : held'[c][i].saved <=> i = 1 /\ ~inIsr[c]
    BY <1>1, <1>2, <1>3 DEF MaskInv
  <2>4. ~mie[c]
    BY <1>1, <1>2 DEF MaskInv
  <2>5. QED BY <1>4, <1>5, <2>1, <2>2, <2>3, <2>4 DEF MaskInv, TypeOK
<1>11. QED BY <1>6, <1>7, <1>8, <1>9, <1>10

LEMMA NextIInv == IInv /\ [Next]_vars => IInv'
<1> SUFFICES ASSUME IInv, [Next]_vars PROVE IInv'
  OBVIOUS
<1>1. CASE Next
  <2>1. PICK c \in Cores :
          \/ \E l \in Locks : ReadMstatus(c, l) \/ RawAcquire(c, l)
          \/ MaskIrq(c) \/ Amoswap(c) \/ CriticalEnter(c)
          \/ Release(c) \/ RestoreIrq(c) \/ Interrupt(c) \/ Mret(c)
    BY <1>1 DEF Next
  <2>2. QED BY <2>1, PlainStep, AmoswapStep, CriticalEnterStep, ReleaseStep
<1>2. CASE UNCHANGED vars
  <2> USE <1>2 DEF vars, IInv
  <2>1. TypeOK' /\ MutualExclusion' BY DEF TypeOK, MutualExclusion
  <2>2. WordSet' /\ WantsFree' BY DEF WordSet, WantsFree, Holds
  <2>3. MaskInv' BY DEF MaskInv
  <2>4. QED BY <2>1, <2>2, <2>3
<1>3. QED BY <1>1, <1>2

LEMMA SpecIInv == Spec => []IInv
BY InitIInv, NextIInv, PTL DEF Spec

-----------------------------------------------------------------------------
(* Whatever the number of cores, no spinlock_t is inside two sections at   *)
(* once (spinlock_acquire, spinlock_release).                              *)
THEOREM SpinlocksExclude == Spec => []MutualExclusion
<1>1. IInv => MutualExclusion BY DEF IInv
<1>2. QED BY SpecIInv, <1>1, PTL

(* Since irqsave masks interrupts before it swaps, and locks are nested in *)
(* rank order, no core ever spins on a lock that it holds itself.          *)
THEOREM NeverSpinsOnOwnLock == Spec => []NoSelfDeadlock
<1>1. IInv => NoSelfDeadlock BY DEF IInv, WantsFree, NoSelfDeadlock
<1>2. QED BY SpecIInv, <1>1, PTL

(* irqrestore and critical_exit give back exactly the mask that was there  *)
(* before: masked inside every section, enabled again outside the last.    *)
THEOREM IrqMaskRestored == Spec => []IrqMaskMatchesSections
<1>1. IInv => IrqMaskMatchesSections BY DEF IInv, MaskInv, IrqMaskMatchesSections
<1>2. QED BY SpecIInv, <1>1, PTL

-----------------------------------------------------------------------------
(* A word that is set belongs to somebody, and whoever is about to swap    *)
(* wants a lock that ranks above all those it holds.                       *)
TakenIsHeld == \A l \in Locks : locked[l] => \E c \in Cores : Holds(c, l)
InOrder ==
  \A c \in Cores : pc[c] \in {"clear", "spin"} =>
    \A i \in 1..Len(held[c]) : held[c][i].lock \in Locks =>
      Rank[held[c][i].lock] < Rank[want[c]]

LEMMA NextTaken == IInv /\ TakenIsHeld /\ [Next]_vars => TakenIsHeld'
<1> SUFFICES ASSUME IInv, TakenIsHeld, [Next]_vars PROVE TakenIsHeld'
  OBVIOUS
<1>1. \A d \in Cores : Len(held[d]) \in Nat
  BY LenProperties DEF IInv, TypeOK
<1>2. CASE UNCHANGED <<locked, held>>
  BY <1>2 DEF TakenIsHeld, Holds
<1>3. ASSUME NEW c \in Cores, Amoswap(c), ~locked[want[c]] PROVE TakenIsHeld'
  <2> DEFINE f == [lock |-> want[c], saved |-> saved[c]]
  <2>1. f \in Frame /\ want[c] \in Locks
    BY <1>3 DEF Amoswap, IInv, WantsFree, TypeOK, Frame
  <2>2. /\ held' = [held EXCEPT ![c] = Append(held[c], f)]
        /\ locked' = [locked EXCEPT ![want[c]] = TRUE]
    BY <1>3 DEF Amoswap
  <2>3. /\ Len(held'[c]) = Len(held[c]) + 1
        /\ \A i \in 1..Len(held[c]) : held'[c][i] = held[c][i]
        /\ held'[c][Len(held[c]) + 1].lock = want[c]
    BY <2>1, <2>2, PushFrame DEF IInv, TypeOK
  <2>4. \A d \in Cores, l \in Locks : Holds(d, l) => Holds(d, l)'
    BY <1>1, <2>2, <2>3 DEF Holds, IInv, TypeOK
  <2>5. Holds(c, want[c])'
    <3>1. Len(held[c]) + 1 \in 1..Len(held'[c]) /\ want'[c] = want[c]
      BY <1>1, <1>3, <2>3 DEF Amoswap
    <3>2. QED BY <2>3, <3>1 DEF Holds
  <2>6. \A l \in Locks : locked'[l] => l = want[c] \/ locked[l]
    BY <2>2 DEF IInv, TypeOK
  <2>7. QED BY <1>3, <2>4, <2>5, <2>6 DEF TakenIsHeld, Amoswap, Holds
<1>4. ASSUME NEW c \in Cores, CriticalEnter(c) PROVE TakenIsHeld'
  <2>1. [lock |-> NoLock, saved |-> mie[c]] \in Frame
    BY DEF IInv, TypeOK, Frame
  <2>2. /\ Len(held'[c]) = Len(held[c]) + 1
        /\ \A i \in 1..Len(held[c]) : held'[c][i] = held[c][i]
    BY <1>4, <2>1, PushFrame DEF CriticalEnter, IInv, TypeOK
  <2>3. \A d \in Cores, l \in Locks : Holds(d, l) => Holds(d, l)'
    BY <1>1, <1>4, <2>2 DEF CriticalEnter, Holds, IInv, TypeOK
  <2>4. QED BY <1>4, <2>3 DEF CriticalEnter, TakenIsHeld
<1>5. ASSUME NEW c \in Cores, Release(c) PROVE TakenIsHeld'
  <2> DEFINE n == Len(held[c])
             top == held[c][n]
  <2>1. n > 0
    BY <1>1, <1>5 DEF Release, Own, Base, IInv, TypeOK, Saved
  <2>2. /\ Len(held'[c]) = n - 1
        /\ \A i \in 1..n - 1 : held'[c][i] = held[c][i]
    BY <1>5, <2>1, PopFrame DEF Release, IInv, TypeOK
  <2>3. \A d \in Cores : d # c => held'[d] = held[d]
    BY <1>5 DEF Release, IInv, TypeOK
  <2>4. \A l \in Locks : locked'[l] => locked[l] /\ l # top.lock
    BY <1>5 DEF Release
  <2>5. ASSUME NEW d \in Cores, NEW l \in Locks, Holds(d, l), l # top.lock
        PROVE  Holds(d, l)'
    <3>1. PICK i \in 1..Len(held[d]) : held[d][i].lock = l
      BY <2>5 DEF Holds
    <3>2. CASE d = c
      <4>1. i \in 1..n - 1
        BY <1>1, <2>5, <3>1, <3>2
      <4>2. i \in 1..Len(held'[d]) /\ held'[d][i].lock = l
        BY <2>2, <3>1, <3>2, <4>1
      <4>3. QED BY <4>2 DEF Holds
    <3>3. CASE d # c
      BY <2>3, <3>1, <3>3 DEF Holds
    <3>4. QED BY <3>2, <3>3
  <2>6. QED BY <2>4, <2>5 DEF TakenIsHeld
<1>6. ASSUME NEW c \in Cores,
             \/ \E l \in Locks : ReadMstatus(c, l) \/ RawAcquire(c, l)
             \/ MaskIrq(c) \/ RestoreIrq(c) \/ Interrupt(c) \/ Mret(c)
             \/ Amoswap(c) /\ locked[want[c]]
      PROVE  UNCHANGED <<locked, held>>
  BY <1>6 DEF ReadMstatus, RawAcquire, MaskIrq, RestoreIrq, Interrupt, Mret, Amoswap,
              IInv, TypeOK, WantsFree
<1>7. QED BY <1>2, <1>3, <1>4, <1>5, <1>6 DEF Next, vars

LEMMA NextInOrder == IInv /\ InOrder /\ [Next]_vars => InOrder'
<1> SUFFICES ASSUME IInv, InOrder, [Next]_vars PROVE InOrder'
  OBVIOUS
<1>1. \A d \in Cores : Len(held[d]) \in Nat /\ (held[d] = <<>> <=> Len(held[d]) = 0)
  BY LenProperties, EmptySeq DEF IInv, TypeOK
<1>2. CASE UNCHANGED vars
  BY <1>2 DEF vars, InOrder
<1>3. ASSUME NEW c \in Cores, NEW l \in Locks, ReadMstatus(c, l) \/ RawAcquire(c, l)
      PROVE  InOrder'
  <2>1. Own(c) = 1..Len(held[c])
    BY <1>1 DEF Own, Base, IInv, MaskInv
  <2>2. \A i \in 1..Len(held[c]) : held[c][i].lock \in Locks => Rank[held[c][i].lock] < Rank[l]
    BY <1>3, <2>1 DEF ReadMstatus, RawAcquire, MayTake
  <2>3. /\ want'[c] = l
        /\ \A d \in Cores : d # c => want'[d] = want[d] /\ pc'[d] = pc[d]
        /\ UNCHANGED held
    BY <1>3 DEF ReadMstatus, RawAcquire, IInv, TypeOK
  <2>4. QED BY <2>2, <2>3 DEF InOrder
<1>4. ASSUME NEW c \in Cores, MaskIrq(c) PROVE InOrder'
  BY <1>4 DEF MaskIrq, InOrder, IInv, TypeOK
<1>5. ASSUME NEW c \in Cores, Amoswap(c) \/ Release(c) PROVE InOrder'
  <2>1. /\ UNCHANGED want
        /\ \A d \in Cores : d # c => held'[d] = held[d] /\ pc'[d] = pc[d]
        /\ \/ pc'[c] \in {"run", "restore"}
           \/ held' = held /\ pc' = pc
    BY <1>5 DEF Amoswap, Release, IInv, TypeOK
  <2>2. QED BY <2>1 DEF InOrder
<1>6. ASSUME NEW c \in Cores, CriticalEnter(c) PROVE InOrder'
  BY <1>6 DEF CriticalEnter, InOrder, IInv, TypeOK
<1>7. ASSUME NEW c \in Cores, RestoreIrq(c) \/ Interrupt(c) PROVE InOrder'
  BY <1>7 DEF RestoreIrq, Interrupt, InOrder, IInv, TypeOK
<1>8. ASSUME NEW c \in Cores, Mret(c) PROVE InOrder'
  <2>1. Len(held[c]) = 0
    <3>1. \A i \in 1..Len(held[c]) : i \in Own(c)
      BY <1>1, <1>8 DEF Mret, Own, Base, IInv, MaskInv
    <3>2. QED BY <1>1, <1>8, <3>1 DEF Mret
  <2>2. /\ UNCHANGED held
        /\ \A d \in Cores : d # c => want'[d] = want[d] /\ pc'[d] = pc[d]
    BY <1>8 DEF Mret, IInv, TypeOK
  <2>3. QED BY <2>1, <2>2 DEF InOrder
<1>9. QED BY <1>2, <1>3, <1>4, <1>5, <1>6, <1>7, <1>8 DEF Next

(* Of the naturals below a bound, some of them have a greatest one.         *)
LEMMA GreatestNat ==
  ASSUME NEW n \in Nat, NEW T, T \subseteq 0..n - 1, T # {}
  PROVE  \E x \in T : \A y \in T : y <= x
<1> DEFINE D == {n - x : x \in T}
<1>1. D \subseteq Nat /\ D # {}
  OBVIOUS
<1>2. PICK d \in D : \A e \in D : ~ (<<e, d>> \in OpToRel(<, Nat))
  BY <1>1, WFMin, NatLessThanWellFounded
<1>3. PICK x \in T : d = n - x
  OBVIOUS
<1>4. \A y \in T : ~ (n - y < n - x)
  BY <1>1, <1>2, <1>3 DEF OpToRel
<1>5. QED BY <1>4

(* As long as the ranks are bounded, cores that hold locks never all wait  *)
(* for one another: the holder of the lock of the highest rank that is     *)
(* held can only spin on a higher one, which nobody holds.                 *)
THEOREM LocksNeverDeadlock ==
  ASSUME NEW bound \in Nat, \A l \in Locks : Rank[l] < bound
  PROVE  Spec => []NoCircularWait
<1>1. Init => IInv /\ TakenIsHeld /\ InOrder
  BY InitIInv DEF Init, TakenIsHeld, InOrder
<1>2. IInv /\ TakenIsHeld /\ InOrder /\ [Next]_vars => (IInv /\ TakenIsHeld /\ InOrder)'
  BY NextIInv, NextTaken, NextInOrder
<1>3. IInv /\ TakenIsHeld /\ InOrder => NoCircularWait
  <2> SUFFICES ASSUME IInv, TakenIsHeld, InOrder,
                      NEW a \in Cores, NEW m \in Locks, Holds(a, m)
               PROVE  \E c \in Cores : /\ \E l \in Locks : Holds(c, l)
                                       /\ ~(pc[c] = "spin" /\ locked[want[c]])
    BY DEF NoCircularWait
  <2> DEFINE Ranks == {Rank[l] : l \in {k \in Locks : \E c \in Cores : Holds(c, k)}}
  <2>1. Ranks \subseteq 0..bound - 1 /\ Ranks # {}
    BY LockAssumption
  <2>2. PICK r \in Ranks : \A q \in Ranks : q <= r
    BY <2>1, GreatestNat
  <2>3. PICK l \in Locks, c \in Cores : Holds(c, l) /\ Rank[l] = r
    OBVIOUS
  <2>4. ASSUME pc[c] = "spin", locked[want[c]] PROVE FALSE
    <3>1. want[c] \in Locks
      BY <2>4 DEF IInv, WantsFree
    <3>2. Rank[want[c]] \in Ranks
      BY <2>4, <3>1 DEF TakenIsHeld
    <3>3. Rank[l] < Rank[want[c]]
      BY <2>3, <2>4 DEF InOrder, Holds
    <3>4. Rank[l] \in Nat /\ Rank[want[c]] \in Nat
      BY <3>1, LockAssumption
    <3>5. QED BY <2>2, <2>3, <3>2, <3>3, <3>4
  <2>5. QED BY <2>3, <2>4
<1>4. QED BY <1>1, <1>2, <1>3, PTL DEF Spec
=============================================================================
