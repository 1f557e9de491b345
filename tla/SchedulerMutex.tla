--------------------------- MODULE SchedulerMutex ---------------------------
(***************************************************************************)
(* The kernel mutex of Scheduler implements MutexSpec.                     *)
(***************************************************************************)
EXTENDS Scheduler

(* The idle task never locks: its number stands for "no holder". *)
Holder == IF \E t \in Tids : Holds(t) THEN CHOOSE t \in Tids : Holds(t) ELSE 0

Lock == INSTANCE MutexSpec WITH
            Task <- Tids \ {0}, None <- 0,
            holder <- Holder, waiting <- critical \ {t \in Tids : Holds(t)}

(* Every step of the kernel is a step of the abstract lock or leaves it alone:
   a grant in k_task_update_state during any switch is one Grant. *)
ImplementsLock == Lock!Spec

(* And the abstract lock's fairness holds: the next switch, which the timer
   forces, grants a mutex that was left free. *)
ImplementsFairLock == Lock!FairSpec
=============================================================================
