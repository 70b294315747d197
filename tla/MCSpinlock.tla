----------------------------- MODULE MCSpinlock -----------------------------
(* Two cores and the two locks of v2-msmp/v3-smp, nested as delay_ticks does. *)
EXTENDS Spinlock, TLC

CONSTANTS c0, c1, delay, sched
MCCores == {c0, c1}
MCLocks == {delay, sched}
MCRank == (delay :> 1) @@ (sched :> 2)
CoreSymmetry == Permutations(MCCores)
=============================================================================
