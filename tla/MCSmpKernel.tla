---------------------------- MODULE MCSmpKernel -----------------------------
(* Two harts with their idle tasks and three tasks; a .cfg chooses who is  *)
(* pinned where and who makes which calls.                                 *)
EXTENDS SmpKernel, TLC

CONSTANTS c0, c1, i0, i1, t1, t2, t3

MCCores == {c0, c1}
MCTasks == {i0, i1, t1, t2, t3}
MCIdle == (c0 :> i0) @@ (c1 :> i1)
IdleOnly == (i0 :> {c0}) @@ (i1 :> {c1})
IdlePriority == (i0 :> 0) @@ (i1 :> 0)
Nobody == [t \in MCTasks |-> {}]

(* t1 and t3 pinned to different harts, t2 goes anywhere. *)
MixedAffinity == IdleOnly @@ (t1 :> {c0}) @@ (t2 :> {c0, c1}) @@ (t3 :> {c1})
(* Two tasks on hart 0, one on hart 1, as in demo_ssd_controller. *)
PinnedAffinity == IdleOnly @@ (t1 :> {c0}) @@ (t2 :> {c0}) @@ (t3 :> {c1})
(* Every task CONFIG_CORE_ANY. *)
FreeAffinity == IdleOnly @@ [t \in {t1, t2, t3} |-> MCCores]

(* A smaller set of tasks for liveness. *)
FewTasks == {i0, i1, t1, t2}
FewAffinity == IdleOnly @@ (t1 :> {c0}) @@ (t2 :> {c0, c1})
FewPriority == IdlePriority @@ (t1 :> 1) @@ (t2 :> 1)
FewNobody == [t \in FewTasks |-> {}]

EqualPriority == IdlePriority @@ (t1 :> 1) @@ (t2 :> 1) @@ (t3 :> 1)
StepPriority == IdlePriority @@ (t1 :> 2) @@ (t2 :> 1) @@ (t3 :> 5)

T2Resumes == [Nobody EXCEPT ![t2] = {t3}]
BothResume == [Nobody EXCEPT ![t1] = {t3}, ![t2] = {t3}]
=============================================================================
