----------------------------- MODULE MutexSpec -----------------------------
(***************************************************************************)
(* What mutex_lock and mutex_unlock promise their callers: one holder, who *)
(* may be a newcomer that finds the mutex free or a task that waited, and  *)
(* no free mutex that is kept from its waiters for ever.                   *)
(***************************************************************************)
CONSTANTS
    Task,
    None   \* no task: the holder of a free mutex

VARIABLES holder, waiting

mvars == <<holder, waiting>>

Init == holder = None /\ waiting = {}

(* mutex_lock returns at once. *)
Acquire(t) ==
    /\ holder = None /\ t \notin waiting
    /\ holder' = t
    /\ UNCHANGED waiting

(* mutex_lock has to wait. *)
Block(t) ==
    /\ holder # None /\ t # holder /\ t \notin waiting
    /\ waiting' = waiting \cup {t}
    /\ UNCHANGED holder

(* The mutex_lock of a waiting task will return. *)
Grant(t) ==
    /\ holder = None /\ t \in waiting
    /\ holder' = t
    /\ waiting' = waiting \ {t}

Release ==
    /\ holder # None
    /\ holder' = None
    /\ UNCHANGED waiting

Next == Release \/ \E t \in Task : Acquire(t) \/ Block(t) \/ Grant(t)

(* A mutex left free is granted to a waiter; a newcomer may still be faster. *)
Fairness == WF_mvars(\E t \in Task : Grant(t))

Spec == Init /\ [][Next]_mvars

FairSpec == Spec /\ Fairness
=============================================================================
