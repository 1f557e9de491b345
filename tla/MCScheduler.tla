---------------------------- MODULE MCScheduler ----------------------------
(***************************************************************************)
(* Instances of Scheduler for TLC, and what the README says of it that the *)
(* code does not keep.                                                     *)
(***************************************************************************)
EXTENDS Scheduler

(* Sleeps that end at the next tick, and sleeps whose deadline overflows. *)
MCSleepTimes == {0, LONG_MAX}

(* The idle task registers tasks as long as it keeps being scheduled. *)
BootFairSpec == FairSpec /\ ([]<>(current_tid = 0 /\ boot # "idle") => []<><<IdleStep>>_vars)

-----------------------------------------------------------------------------
(* README: the scheduler is starvation free.  Every task of OS_TASK_LIST runs. *)
StarvationFree == \A t \in 1..OS_Tasks : <>(current_tid = t)
=============================================================================
