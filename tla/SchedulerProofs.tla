-------------------------- MODULE SchedulerProofs --------------------------
(***************************************************************************)
(* Proofs about Scheduler, for every number of tasks, every timer period   *)
(* and every width of long int.                                            *)
(***************************************************************************)
EXTENDS SchedulerMutex, TLAPS, WellFoundedInduction

-----------------------------------------------------------------------------
(* The order the scan of k_task_peek_next follows is well founded. *)
LEMMA LessThanWellFounded ==
    ASSUME NEW R, R = {p \in Nat \X Nat : p[1] < p[2]}
    PROVE  IsWellFoundedOn(R, Nat)
<1>1. R = OpToRel(<, Nat)
    BY DEF OpToRel
<1> QED BY <1>1, NatLessThanWellFounded, Zenon

(* So the first ready task the scan stops at exists and comes before the others. *)
LEMMA MinInSet ==
    ASSUME NEW S, S \subseteq Nat, S # {}
    PROVE  Min(S) \in S /\ \A y \in S : Min(S) <= y
<1> DEFINE R == {p \in Nat \X Nat : p[1] < p[2]}
<1>1. IsWellFoundedOn(R, Nat)
    BY LessThanWellFounded
<1>2. PICK x \in S : \A y \in S : ~ (<<y, x>> \in R)
  <2> HIDE DEF R
  <2> QED BY <1>1, WFMin, Zenon
<1>3. \A y \in S : x <= y
  <2> SUFFICES ASSUME NEW y \in S, ~ (x <= y) PROVE FALSE
      OBVIOUS
  <2>1. y \in Nat /\ x \in Nat /\ y < x
      OBVIOUS
  <2>2. <<y, x>> \in Nat \X Nat /\ <<y, x>>[1] < <<y, x>>[2]
      BY <2>1
  <2>3. <<y, x>> \in R
      BY <2>2, Zenon
  <2> QED BY <2>3, <1>2
<1> QED BY <1>3 DEF Min

(* k_task_peek_next returns the idle task or a registered ready task other than
   the one it was called for. *)
LEMMA PeekNextChoice ==
    ASSUME registered_tasks \in Nat, NEW st, NEW ctid
    PROVE  \/ PeekNext(st, ctid) = 0
           \/ /\ PeekNext(st, ctid) \in Registered \ {ctid}
              /\ st[PeekNext(st, ctid)] = "ready"
<1> DEFINE ready == {t \in Registered \ {ctid} : st[t] = "ready"}
           after == {t \in ready : t > ctid}
<1>1. ready \subseteq Nat /\ after \subseteq ready
    BY DEF Registered
<1>2. after # {} => Min(after) \in ready
    BY <1>1, MinInSet
<1>3. ready # {} => Min(ready) \in ready
    BY <1>1, MinInSet
<1>4. PeekNext(st, ctid) = IF after # {} THEN Min(after)
                           ELSE IF ready # {} THEN Min(ready) ELSE 0
    BY DEF PeekNext
<1> HIDE DEF after
<1> QED BY <1>2, <1>3, <1>4

(* It returns the idle task only when no other task is ready. *)
LEMMA PeekNextIdle ==
    ASSUME registered_tasks \in Nat, NEW st, NEW ctid, PeekNext(st, ctid) = 0
    PROVE  \A t \in Registered \ {ctid} : st[t] # "ready"
<1> DEFINE ready == {t \in Registered \ {ctid} : st[t] = "ready"}
           after == {t \in ready : t > ctid}
<1>1. ready \subseteq Nat /\ after \subseteq ready /\ 0 \notin ready
    BY DEF Registered
<1>2. after # {} => Min(after) \in ready
    BY <1>1, MinInSet
<1>3. ready # {} => Min(ready) \in ready
    BY <1>1, MinInSet
<1>4. PeekNext(st, ctid) = IF after # {} THEN Min(after)
                           ELSE IF ready # {} THEN Min(ready) ELSE 0
    BY DEF PeekNext
<1>5. ready = {}
  <2> HIDE DEF ready, after
  <2> QED BY <1>1, <1>2, <1>3, <1>4
<1> QED BY <1>5

-----------------------------------------------------------------------------
(***************************************************************************)
(* The inductive invariant.  BootInv says what the idle task has completed *)
(* when it is preempted inside k_task_register; WaitInv ties the tasks     *)
(* blocked on the mutex to their pending mutex_lock.                       *)
(***************************************************************************)
BootInv ==
    /\ boot \in {"ready", "count"} => NewTid < MAX_TASKS /\ sp[NewTid]
    /\ boot = "count" => state[NewTid] = "ready"

WaitInv ==
    /\ state[0] \in {"ready", "running"}
    /\ critical \subseteq Registered
    /\ \A t \in Tids : state[t] = "mutex_blocked" => t \in critical

Inv ==
    /\ TypeInv
    /\ RunningIsCurrent
    /\ MutualExclusion
    /\ SignalOwner
    /\ VisibleTaskComplete
    /\ BootInv
    /\ WaitInv

LEMMA RegisteredInTids ==
    ASSUME TypeInv
    PROVE  /\ Registered \subseteq Tids \ {0} /\ 0 \in Tids
           /\ \A t \in Tids : t \in Int
BY SizesAssumption DEF TypeInv, Registered, Tids

LEMMA WrapInLong ==
    ASSUME NEW x \in Int, x >= -(LONG_MAX + 1), x <= 2 * LONG_MAX + 1
    PROVE  Wrap(x) \in Long
BY TimeAssumption DEF Wrap, Long

(* At most one waiter is granted, and only when the mutex is free. *)
LEMMA GrantedOnce ==
    ASSUME TypeInv, NEW st
    PROVE  /\ Granted(st) \subseteq Waiters(st)
           /\ \A t, u \in Granted(st) : t = u
           /\ Granted(st) # {} => mutex = 0
BY RegisteredInTids DEF Granted, Waiters, Registered

(* A switch: exactly one running task, the others as k_task_update_state left
   them, and a mutex waiter released exactly when it is granted. *)
LEMMA RescheduleEffect ==
    ASSUME TypeInv, NEW st \in [Tids -> States], NEW until, NEW now,
           \A t \in Tids : st[t] # "running",
           st[0] = "ready",
           Reschedule(st, until, now)
    PROVE  /\ current_tid' \in Registered \cup {0}
           /\ state' \in [Tids -> States]
           /\ \A t \in Tids : state'[t] = "running" <=> t = current_tid'
           /\ \A t \in Tids \ Registered : t # 0 => state'[t] = st[t]
           /\ \A t \in Tids : st[t] # "none" => state'[t] # "none"
           /\ state'[0] \in {"ready", "running"}
           /\ \A t \in Tids : state'[t] = "mutex_blocked"
                                <=> st[t] = "mutex_blocked" /\ t \notin Granted(st)
           /\ mutex' = IF Granted(st) # {} THEN 1 ELSE mutex
<1> DEFINE updated == Updated(st, until, now)
           next == PeekNext(updated, current_tid)
<1>1. Registered \subseteq Tids \ {0} /\ 0 \in Tids
    BY RegisteredInTids
<1>2. /\ updated \in [Tids -> States]
      /\ \A t \in Tids : updated[t] # "running"
      /\ \A t \in Tids \ Registered : updated[t] = st[t]
      /\ \A t \in Tids : st[t] # "none" => updated[t] # "none"
      /\ \A t \in Tids : updated[t] = "mutex_blocked"
                           <=> st[t] = "mutex_blocked" /\ t \notin Granted(st)
    BY <1>1 DEF Updated, Woken, Granted, Waiters, States
<1>3. \/ next = 0
      \/ next \in Registered /\ updated[next] = "ready"
    BY PeekNextChoice DEF TypeInv
<1>4. /\ current_tid' = next
      /\ state' = [updated EXCEPT ![next] = "running"]
      /\ mutex' = IF Granted(st) # {} THEN 1 ELSE mutex
    BY DEF Reschedule
<1>5. updated[0] = "ready"
    BY <1>1, <1>2
<1> HIDE DEF updated, next
<1> QED BY <1>1, <1>2, <1>3, <1>4, <1>5 DEF States

-----------------------------------------------------------------------------
LEMMA InitInv == Init => Inv
<1> SUFFICES ASSUME Init PROVE Inv
    OBVIOUS
<1> USE SizesAssumption, TimeAssumption DEF Init
<1>1. TypeInv
  <2>1. sp \in [Tids -> BOOLEAN] /\ pending \in BOOLEAN
      BY Zenon DEF TimerStarted
  <2> QED BY <2>1 DEF TypeInv, TimerStarted, Tids, Long, States
<1>2. RunningIsCurrent /\ MutualExclusion
    BY DEF RunningIsCurrent, MutualExclusion, Holds, Tids
<1>3. SignalOwner /\ VisibleTaskComplete
    BY DEF SignalOwner, VisibleTaskComplete, Registered
<1>4. BootInv /\ WaitInv
    BY DEF BootInv, WaitInv, Tids
<1> QED BY <1>1, <1>2, <1>3, <1>4 DEF Inv

(***************************************************************************)
(* What the switching handlers have in common: st is tasks[].state after   *)
(* the handler has stored the caller's new state, no task is running in    *)
(* it, and a caller that blocks on the mutex enters critical.              *)
(***************************************************************************)
Switch(st) ==
    /\ \A t \in Tids : t # current_tid => st[t] = state[t]
    /\ st[current_tid] \in {"ready", "blocked", "mutex_blocked"}
    /\ st[0] = "ready"
    /\ st[current_tid] = "mutex_blocked" => current_tid \notin critical /\ mutex # 0
    /\ critical' = IF st[current_tid] = "mutex_blocked"
                   THEN critical \cup {current_tid} ELSE critical
    /\ \E until, now : Reschedule(st, until, now)
    /\ UNCHANGED <<registered_tasks, boot, sp>>

LEMMA SysTickSwitches ==
    ASSUME Inv, SysTick
    PROVE  \E st \in [Tids -> States] : Switch(st)
<1> DEFINE waits == signal_flag # 0
           until == [sleep_until EXCEPT ![current_tid] = IF waits THEN 0 ELSE @]
           st == [state EXCEPT ![current_tid] = IF waits THEN "blocked" ELSE "ready"]
<1>1. Reschedule(st, until, jiffy') /\ UNCHANGED <<registered_tasks, boot, sp, critical>>
    BY DEF SysTick
<1>2. state \in [Tids -> States] /\ current_tid \in Tids /\ 0 \in Tids
    BY RegisteredInTids DEF Inv, TypeInv
<1>3. /\ st \in [Tids -> States] /\ st[current_tid] \in {"ready", "blocked"}
      /\ \A t \in Tids : t # current_tid => st[t] = state[t]
    BY <1>2 DEF States
<1>4. st[0] = "ready"
    BY <1>2 DEF Inv, SignalOwner, RunningIsCurrent, WaitInv
<1> HIDE DEF st, until
<1> QED BY <1>1, <1>3, <1>4 DEF Switch

LEMMA SvcSwitches ==
    ASSUME Inv, NEW t \in Tids, CanCall(t),
           NEW c \in {"ready", "blocked", "mutex_blocked"}, NEW until,
           c = "mutex_blocked" => t \notin critical /\ mutex # 0,
           critical' = IF c = "mutex_blocked" THEN critical \cup {t} ELSE critical,
           SwitchFrom(t, c, until)
    PROVE  \E st \in [Tids -> States] : Switch(st)
<1> DEFINE st == [state EXCEPT ![t] = c]
<1>1. t = current_tid /\ t # 0
    BY DEF CanCall, Runs
<1>2. Reschedule(st, until, jiffy) /\ UNCHANGED <<registered_tasks, boot, sp>>
    BY DEF SwitchFrom
<1>3. state \in [Tids -> States] /\ 0 \in Tids
    BY RegisteredInTids DEF Inv, TypeInv
<1>4. /\ st \in [Tids -> States] /\ st[t] = c
      /\ \A u \in Tids : u # t => st[u] = state[u]
    BY <1>3 DEF States
<1>5. st[0] = "ready"
    BY <1>1, <1>3, <1>4 DEF Inv, RunningIsCurrent, WaitInv
<1> HIDE DEF st
<1> QED BY <1>1, <1>2, <1>4, <1>5 DEF Switch

(* No task is marked running when k_task_peek_next is called. *)
LEMMA SwitchNoneRunning ==
    ASSUME Inv, NEW st \in [Tids -> States], Switch(st)
    PROVE  \A t \in Tids : st[t] # "running"
BY DEF Inv, TypeInv, RunningIsCurrent, Switch

(* A switch makes at most one more task a holder, the waiter it grants. *)
LEMMA SwitchHolds ==
    ASSUME Inv, NEW st \in [Tids -> States], Switch(st)
    PROVE  /\ \A t \in Tids : Holds(t)' <=> Holds(t) \/ t \in Granted(st)
           /\ \A t \in Granted(st) : t \in critical /\ ~ Holds(t)
           /\ mutex' = IF Granted(st) # {} THEN 1 ELSE mutex
<1> USE DEF Inv
<1>1. Registered \subseteq Tids \ {0} /\ current_tid \in Tids
    BY RegisteredInTids DEF TypeInv
<1>2. PICK until, now : Reschedule(st, until, now)
    BY DEF Switch
<1>3. /\ \A t \in Tids : state'[t] = "mutex_blocked"
                           <=> st[t] = "mutex_blocked" /\ t \notin Granted(st)
      /\ mutex' = IF Granted(st) # {} THEN 1 ELSE mutex
    BY <1>2, SwitchNoneRunning, RescheduleEffect DEF Switch
<1>4. /\ Granted(st) \subseteq Waiters(st)
      /\ Granted(st) # {} => mutex = 0
    BY GrantedOnce
<1> HIDE DEF Registered
<1>5. \A t \in Granted(st) : t \in Tids /\ t \in critical /\ state[t] = "mutex_blocked"
    BY <1>1, <1>4 DEF Waiters, WaitInv, Switch
<1>6. \A t \in Tids : Holds(t)' <=> Holds(t) \/ t \in Granted(st)
    BY <1>1, <1>3, <1>5 DEF Holds, RunningIsCurrent, Switch
<1> QED BY <1>3, <1>5, <1>6 DEF Holds

(* What every switching handler preserves. *)
LEMMA SwitchInv ==
    ASSUME Inv, NEW st \in [Tids -> States], Switch(st)
    PROVE  /\ current_tid' \in Tids /\ state' \in [Tids -> States]
           /\ mutex' \in {0, 1} /\ critical' \subseteq Tids
           /\ RunningIsCurrent' /\ MutualExclusion' /\ VisibleTaskComplete'
           /\ BootInv' /\ WaitInv'
<1> USE DEF Inv
<1>1. Registered \subseteq Tids \ {0} /\ 0 \in Tids /\ Registered' = Registered
    BY RegisteredInTids DEF Registered, Switch
<1>2. current_tid \in Registered \cup {0} /\ current_tid \in Tids
    BY DEF TypeInv, VisibleTaskComplete
<1>3. PICK until, now : Reschedule(st, until, now)
    BY DEF Switch
<1>4. /\ current_tid' \in Registered \cup {0}
      /\ state' \in [Tids -> States]
      /\ \A t \in Tids : state'[t] = "running" <=> t = current_tid'
      /\ \A t \in Tids \ Registered : t # 0 => state'[t] = st[t]
      /\ \A t \in Tids : st[t] # "none" => state'[t] # "none"
      /\ state'[0] \in {"ready", "running"}
      /\ \A t \in Tids : state'[t] = "mutex_blocked"
                           <=> st[t] = "mutex_blocked" /\ t \notin Granted(st)
    BY <1>3, SwitchNoneRunning, RescheduleEffect DEF Switch
<1> HIDE DEF Registered
<1>5. critical' \subseteq Registered
    BY <1>1, <1>2 DEF WaitInv, Switch
<1>6. MutualExclusion'
  <2>1. /\ Granted(st) \subseteq Tids
        /\ \A t, u \in Granted(st) : t = u
        /\ Granted(st) # {} => mutex = 0
      BY <1>1, GrantedOnce DEF Waiters
  <2> QED BY <2>1, SwitchHolds DEF MutualExclusion, TypeInv
<1>7. RunningIsCurrent'
    BY <1>4 DEF RunningIsCurrent
<1>8. VisibleTaskComplete'
    BY <1>1, <1>2, <1>4 DEF VisibleTaskComplete, Switch
<1>9. BootInv'
  <2>1. NewTid' = NewTid /\ (NewTid < MAX_TASKS => NewTid \in Tids \ Registered /\ NewTid # 0)
      BY SizesAssumption DEF NewTid, TypeInv, Tids, Registered, Switch
  <2>2. boot = "count" => state'[NewTid] = "ready"
      BY <1>2, <1>4, <2>1 DEF BootInv, Switch
  <2> QED BY <2>1, <2>2 DEF BootInv, Switch
<1>10. WaitInv'
    BY <1>1, <1>2, <1>4, <1>5 DEF WaitInv, Switch
<1>11. mutex' \in {0, 1}
    BY SwitchHolds DEF TypeInv
<1> QED BY <1>1, <1>4, <1>5, <1>6, <1>7, <1>8, <1>9, <1>10, <1>11

-----------------------------------------------------------------------------
(* The steps of the inductive invariant, one lemma per kind of action. *)
LEMMA ElapseInv == Inv /\ Elapse => Inv'
<1> SUFFICES ASSUME Inv, Elapse PROVE Inv'
    OBVIOUS
<1> USE DEF Inv, Elapse
<1>1. val' \in 1..LOAD /\ pending' \in BOOLEAN
  <2>1. pending' \in BOOLEAN
      BY Zenon
  <2> QED BY <2>1, TimeAssumption DEF TypeInv
<1>2. TypeInv'
    BY <1>1 DEF TypeInv
<1>3. RunningIsCurrent' /\ MutualExclusion' /\ SignalOwner'
    BY DEF RunningIsCurrent, MutualExclusion, Holds, SignalOwner
<1>4. VisibleTaskComplete' /\ BootInv' /\ WaitInv'
    BY DEF VisibleTaskComplete, Registered, BootInv, NewTid, WaitInv
<1> QED BY <1>2, <1>3, <1>4

LEMMA SysTickInv == Inv /\ SysTick => Inv'
<1> SUFFICES ASSUME Inv, SysTick PROVE Inv'
    OBVIOUS
<1>1. /\ pending' = FALSE /\ jiffy' = Wrap(jiffy + 1)
      /\ sleep_until' = [sleep_until EXCEPT ![current_tid] = IF signal_flag # 0 THEN 0 ELSE @]
      /\ signal_flag' = 0
      /\ task_signal' = [task_signal EXCEPT ![current_tid] = IF signal_flag # 0
                                                             THEN signal_flag ELSE @]
      /\ RestartTimer
      /\ UNCHANGED <<registered_tasks, sp, boot, pc, critical>>
    BY DEF SysTick
<1>2. TypeInv
    BY DEF Inv
<1>3. /\ current_tid' \in Tids /\ state' \in [Tids -> States]
      /\ mutex' \in {0, 1} /\ critical' \subseteq Tids
      /\ RunningIsCurrent' /\ MutualExclusion' /\ VisibleTaskComplete'
      /\ BootInv' /\ WaitInv'
    BY SysTickSwitches, SwitchInv
<1>4. sleep_until' \in [Tids -> Long] /\ task_signal' \in [Tids -> Signals \cup {0}]
    BY <1>1, <1>2, TimeAssumption DEF TypeInv, Long
<1>5. jiffy' \in Long
    BY <1>1, <1>2, WrapInLong, TimeAssumption DEF TypeInv, Long
<1>6. val' \in 1..LOAD
    BY <1>1, <1>2, TimeAssumption DEF RestartTimer, TypeInv
<1>7. TypeInv'
    BY <1>1, <1>2, <1>3, <1>4, <1>5, <1>6 DEF TypeInv
<1>8. SignalOwner'
    BY <1>1 DEF SignalOwner
<1> QED BY <1>3, <1>7, <1>8 DEF Inv

(* The switching SVCs differ in the state they leave the caller in. *)
LEMMA SwitchFromInv ==
    ASSUME Inv, NEW t \in Tids, CanCall(t),
           NEW c \in {"ready", "blocked", "mutex_blocked"},
           NEW until \in [Tids -> Long],
           c = "mutex_blocked" => t \notin critical /\ mutex # 0,
           critical' = IF c = "mutex_blocked" THEN critical \cup {t} ELSE critical,
           task_signal' \in [Tids -> Signals \cup {0}],
           SwitchFrom(t, c, until)
    PROVE  Inv'
<1>1. TypeInv /\ t = current_tid /\ pc[t] = "user"
    BY DEF CanCall, Runs, Inv
<1>2. /\ pending' \in BOOLEAN
      /\ IF pending' THEN val' = LOAD ELSE RestartTimer
      /\ sleep_until' = until
      /\ UNCHANGED <<registered_tasks, jiffy, signal_flag, sp, boot, pc>>
  <2>1. pending' \in {p \in BOOLEAN : p => val = 1}
      BY Zenon DEF SwitchFrom
  <2> QED BY <2>1, Zenon DEF SwitchFrom
<1>3. /\ current_tid' \in Tids /\ state' \in [Tids -> States]
      /\ mutex' \in {0, 1} /\ critical' \subseteq Tids
      /\ RunningIsCurrent' /\ MutualExclusion' /\ VisibleTaskComplete'
      /\ BootInv' /\ WaitInv'
    BY SvcSwitches, SwitchInv
<1>4. val' \in 1..LOAD
    BY <1>1, <1>2, TimeAssumption DEF RestartTimer, TypeInv
<1>5. TypeInv'
    BY <1>1, <1>2, <1>3, <1>4 DEF TypeInv
<1>6. SignalOwner'
    BY <1>1, <1>2 DEF SignalOwner, Inv
<1> QED BY <1>3, <1>5, <1>6 DEF Inv

LEMMA SleepInv ==
    ASSUME Inv, NEW t \in Tids, NEW ms \in SleepTimes, Sleep(t, ms)
    PROVE  Inv'
<1>1. TypeInv /\ CanCall(t) /\ UNCHANGED critical
    BY DEF Inv, Sleep
<1>2. [sleep_until EXCEPT ![t] = Wrap(jiffy + ms)] \in [Tids -> Long]
  <2>1. Wrap(jiffy + ms) \in Long
      BY <1>1, WrapInLong, TimeAssumption, CallsAssumption DEF TypeInv, Long
  <2> QED BY <1>1, <2>1 DEF TypeInv
<1>3. task_signal' \in [Tids -> Signals \cup {0}]
    BY <1>1 DEF Sleep, TypeInv
<1>4. SwitchFrom(t, "blocked", [sleep_until EXCEPT ![t] = Wrap(jiffy + ms)])
    BY DEF Sleep
<1> QED BY <1>1, <1>2, <1>3, <1>4, SwitchFromInv

LEMMA YieldInv ==
    ASSUME Inv, NEW t \in Tids, Yield(t)
    PROVE  Inv'
<1>1. /\ TypeInv /\ CanCall(t) /\ UNCHANGED <<task_signal, critical>>
      /\ SwitchFrom(t, "ready", sleep_until)
    BY DEF Inv, Yield
<1>2. sleep_until \in [Tids -> Long] /\ task_signal' \in [Tids -> Signals \cup {0}]
    BY <1>1 DEF TypeInv
<1> QED BY <1>1, <1>2, SwitchFromInv

LEMMA MutexLockBusyInv ==
    ASSUME Inv, NEW t \in Tids, MutexLockBusy(t)
    PROVE  Inv'
<1>1. /\ TypeInv /\ CanCall(t) /\ t \notin critical /\ mutex # 0
      /\ critical' = critical \cup {t} /\ UNCHANGED task_signal
      /\ SwitchFrom(t, "mutex_blocked", sleep_until)
    BY DEF Inv, MutexLockBusy
<1>2. sleep_until \in [Tids -> Long] /\ task_signal' \in [Tids -> Signals \cup {0}]
    BY <1>1 DEF TypeInv
<1> QED BY <1>1, <1>2, SwitchFromInv

(* mutex_lock on a free mutex: no task holds it, and the caller now does. *)
LEMMA MutexLockFreeInv ==
    ASSUME Inv, NEW t \in Tids, MutexLockFree(t)
    PROVE  Inv'
<1> USE DEF Inv, MutexLockFree
<1>1. /\ TypeInv /\ t = current_tid /\ t \in Registered
      /\ mutex = 0 /\ mutex' = 1 /\ critical' = critical \cup {t}
    BY DEF CanCall, Runs, VisibleTaskComplete
<1>2. TypeInv'
    BY <1>1 DEF TypeInv
<1>3. state[t] = "running"
    BY <1>1 DEF RunningIsCurrent
<1>4. MutualExclusion'
    BY <1>1, <1>3 DEF MutualExclusion, Holds
<1>5. RunningIsCurrent' /\ SignalOwner' /\ VisibleTaskComplete'
    BY DEF RunningIsCurrent, SignalOwner, VisibleTaskComplete, Registered
<1>6. BootInv'
    BY DEF BootInv, NewTid
<1>7. WaitInv'
    BY <1>1 DEF WaitInv, Registered
<1> QED BY <1>2, <1>4, <1>5, <1>6, <1>7

(* mutex_unlock by the holder: no task holds the mutex any more. *)
LEMMA MutexUnlockInv ==
    ASSUME Inv, NEW t \in Tids, MutexUnlock(t)
    PROVE  Inv'
<1> USE DEF Inv, MutexUnlock
<1>1. /\ TypeInv /\ t = current_tid /\ t \in critical
      /\ mutex' = 0 /\ critical' = critical \ {t}
    BY DEF CanCall, Runs
<1>2. TypeInv'
    BY <1>1 DEF TypeInv
<1>3. Holds(t)
    BY <1>1 DEF RunningIsCurrent, Holds
<1>4. MutualExclusion'
    BY <1>1, <1>3 DEF MutualExclusion, Holds
<1>5. RunningIsCurrent' /\ SignalOwner' /\ VisibleTaskComplete'
    BY DEF RunningIsCurrent, SignalOwner, VisibleTaskComplete, Registered
<1>6. BootInv'
    BY DEF BootInv, NewTid
<1>7. WaitInv'
    BY <1>1 DEF WaitInv, Registered, RunningIsCurrent
<1> QED BY <1>2, <1>4, <1>5, <1>6, <1>7

(* The three steps of signal_wait write only the flag, the timer and pc. *)
LEMMA SignalInv ==
    ASSUME Inv, NEW t \in Tids,
           (\E s \in Signals : SignalWait(t, s)) \/ SignalReset(t) \/ SignalReturn(t)
    PROVE  Inv'
<1> USE DEF Inv
<1>1. /\ UNCHANGED <<current_tid, registered_tasks, jiffy, mutex, state, sleep_until,
                     task_signal, sp, pending, boot, critical>>
      /\ t = current_tid /\ t # 0
    BY DEF SignalWait, SignalReset, SignalReturn, CanCall, Runs
<1>2. signal_flag' \in Signals \cup {0} /\ val' \in 1..LOAD
    BY TimeAssumption DEF SignalWait, SignalReset, SignalReturn, TypeInv
<1>3. pc' \in [Tids -> {"user", "reset", "spin"}]
    BY DEF SignalWait, SignalReset, SignalReturn, TypeInv
<1>4. TypeInv'
    BY <1>1, <1>2, <1>3 DEF TypeInv
<1>5. SignalOwner'
    BY <1>1 DEF SignalWait, SignalReset, SignalReturn, SignalOwner, TypeInv
<1>6. RunningIsCurrent' /\ MutualExclusion' /\ VisibleTaskComplete'
    BY <1>1 DEF RunningIsCurrent, MutualExclusion, Holds, VisibleTaskComplete, Registered
<1>7. BootInv' /\ WaitInv'
    BY <1>1 DEF BootInv, NewTid, WaitInv, Registered
<1> QED BY <1>4, <1>5, <1>6, <1>7

(* k_task_register: NewTid is a free slot of tasks[], and the task becomes
   visible with its frame and its state already there. *)
LEMMA IdleInv ==
    ASSUME Inv, IdleStep
    PROVE  Inv'
<1> USE DEF Inv
<1>1. /\ TypeInv /\ current_tid = 0
      /\ UNCHANGED <<current_tid, jiffy, mutex, signal_flag, sleep_until,
                     task_signal, val, pending, pc, critical>>
    BY DEF IdleStep, RegisterFrame, RegisterReady, RegisterCount, RegisterDone,
           RegisterFail, IdleRuns, UnchangedByIdle
<1>2. /\ NewTid \in Nat /\ NewTid # 0 /\ NewTid \notin Registered
      /\ NewTid < MAX_TASKS => NewTid \in Tids
      /\ Registered \subseteq Tids \ {0} /\ 0 \in Tids
    BY RegisteredInTids, SizesAssumption DEF NewTid, TypeInv, Registered, Tids
<1>3. SignalOwner'
    BY <1>1 DEF SignalOwner
<1>4. CASE RegisterFrame
  <2>1. /\ NewTid < MAX_TASKS /\ sp' = [sp EXCEPT ![NewTid] = TRUE] /\ boot' = "ready"
        /\ UNCHANGED <<registered_tasks, state>>
      BY <1>4 DEF RegisterFrame
  <2>2. TypeInv'
      BY <1>1, <1>2, <2>1 DEF TypeInv
  <2>3. RunningIsCurrent' /\ MutualExclusion' /\ WaitInv'
      BY <1>1, <2>1 DEF RunningIsCurrent, MutualExclusion, Holds, WaitInv, Registered
  <2>4. VisibleTaskComplete'
      BY <1>1, <1>2, <2>1 DEF VisibleTaskComplete, Registered, TypeInv
  <2>5. BootInv'
      BY <1>1, <1>2, <2>1 DEF BootInv, NewTid, TypeInv
  <2> QED BY <1>3, <2>2, <2>3, <2>4, <2>5
<1>5. CASE RegisterReady
  <2>1. /\ boot = "ready" /\ state' = [state EXCEPT ![NewTid] = "ready"] /\ boot' = "count"
        /\ UNCHANGED <<registered_tasks, sp>>
      BY <1>5 DEF RegisterReady
  <2>2. NewTid \in Tids /\ NewTid # current_tid /\ NewTid \notin critical
      BY <1>1, <1>2, <2>1 DEF BootInv, WaitInv
  <2>3. TypeInv'
      BY <1>1, <2>1, <2>2 DEF TypeInv, States
  <2>4. RunningIsCurrent' /\ MutualExclusion'
      BY <1>1, <2>1, <2>2 DEF RunningIsCurrent, MutualExclusion, Holds, TypeInv
  <2>5. VisibleTaskComplete' /\ WaitInv'
      BY <1>1, <1>2, <2>1, <2>2 DEF VisibleTaskComplete, WaitInv, Registered, TypeInv
  <2>6. BootInv'
      BY <1>1, <2>1, <2>2 DEF BootInv, NewTid, TypeInv
  <2> QED BY <1>3, <2>3, <2>4, <2>5, <2>6
<1>6. CASE RegisterCount
  <2>1. /\ boot = "count" /\ registered_tasks' = NewTid /\ boot' = "frame"
        /\ UNCHANGED <<state, sp>>
      BY <1>6 DEF RegisterCount
  <2>2. NewTid < MAX_TASKS /\ sp[NewTid] /\ state[NewTid] = "ready"
      BY <2>1 DEF BootInv
  <2>3. Registered' = Registered \cup {NewTid}
      BY <1>1, <2>1 DEF Registered, NewTid, TypeInv
  <2>4. TypeInv'
      BY <1>1, <1>2, <2>1, <2>2 DEF TypeInv
  <2>5. RunningIsCurrent' /\ MutualExclusion' /\ BootInv'
      BY <1>1, <2>1 DEF RunningIsCurrent, MutualExclusion, Holds, BootInv
  <2>6. VisibleTaskComplete' /\ WaitInv'
      BY <1>1, <2>1, <2>2, <2>3 DEF VisibleTaskComplete, WaitInv
  <2> QED BY <1>3, <2>4, <2>5, <2>6
<1>7. CASE RegisterDone \/ RegisterFail
  <2>1. boot' \in {"idle", "fatal"} /\ UNCHANGED <<registered_tasks, state, sp>>
      BY <1>7 DEF RegisterDone, RegisterFail
  <2>2. TypeInv' /\ BootInv'
      BY <1>1, <2>1 DEF TypeInv, BootInv
  <2>3. RunningIsCurrent' /\ MutualExclusion' /\ VisibleTaskComplete' /\ WaitInv'
      BY <1>1, <2>1 DEF RunningIsCurrent, MutualExclusion, Holds, VisibleTaskComplete,
                        WaitInv, Registered
  <2> QED BY <1>3, <2>2, <2>3
<1> QED BY <1>4, <1>5, <1>6, <1>7 DEF IdleStep

LEMMA StutterInv == Inv /\ UNCHANGED vars => Inv'
BY DEF vars, Inv, TypeInv, RunningIsCurrent, MutualExclusion, Holds, SignalOwner,
       VisibleTaskComplete, Registered, BootInv, NewTid, WaitInv

LEMMA NextInv == Inv /\ [Next]_vars => Inv'
<1> SUFFICES ASSUME Inv, [Next]_vars PROVE Inv'
    OBVIOUS
<1>1. CASE Elapse
    BY <1>1, ElapseInv
<1>2. CASE SysTick
    BY <1>2, SysTickInv
<1>3. CASE IdleStep
    BY <1>3, IdleInv
<1>4. ASSUME NEW t \in Tids, TaskStep(t) PROVE Inv'
  <2>1. CASE \E ms \in SleepTimes : Sleep(t, ms)
      BY <2>1, SleepInv
  <2>2. CASE Yield(t)
      BY <2>2, YieldInv
  <2>3. CASE MutexLockFree(t)
      BY <2>3, MutexLockFreeInv
  <2>4. CASE MutexLockBusy(t)
      BY <2>4, MutexLockBusyInv
  <2>5. CASE MutexUnlock(t)
      BY <2>5, MutexUnlockInv
  <2>6. CASE (\E s \in Signals : SignalWait(t, s)) \/ SignalReset(t) \/ SignalReturn(t)
      BY <2>6, SignalInv
  <2> QED BY <1>4, <2>1, <2>2, <2>3, <2>4, <2>5, <2>6 DEF TaskStep
<1>5. CASE UNCHANGED vars
    BY <1>5, StutterInv
<1> QED BY <1>1, <1>2, <1>3, <1>4, <1>5 DEF Next

(* The kernel never leaves the inductive invariant. *)
THEOREM SpecInv == Spec => []Inv
<1>1. Init => Inv
    BY InitInv
<1>2. Inv /\ [Next]_vars => Inv'
    BY NextInv
<1> QED BY <1>1, <1>2, PTL DEF Spec

-----------------------------------------------------------------------------
(* Every variable of the kernel keeps its type; jiffy and the deadlines stay
   within long int although they wrap. *)
THEOREM TypeCorrect == Spec => []TypeInv
<1>1. Inv => TypeInv
    BY DEF Inv
<1> QED BY <1>1, SpecInv, PTL

(* The context switched by task_save_context and task_restore_context is the
   running task's, after every handler. *)
THEOREM RunningIsCurrentAlways == Spec => []RunningIsCurrent
<1>1. Inv => RunningIsCurrent
    BY DEF Inv
<1> QED BY <1>1, SpecInv, PTL

(* k_mutex_lock, k_mutex_unlock and the grant in k_task_update_state keep the
   mutex exclusive for any number of tasks and any preemption. *)
THEOREM MutexExclusive == Spec => []MutualExclusion
<1>1. Inv => MutualExclusion
    BY DEF Inv
<1> QED BY <1>1, SpecInv, PTL

(* A SysTick that finds signal_flag set blocks the task that set it. *)
THEOREM SignalFlagOwned == Spec => []SignalOwner
<1>1. Inv => SignalOwner
    BY DEF Inv
<1> QED BY <1>1, SpecInv, PTL

(* A handler that preempts k_task_register never sees a half built task. *)
THEOREM RegistrationSafe == Spec => []VisibleTaskComplete
<1>1. Inv => VisibleTaskComplete
    BY DEF Inv
<1> QED BY <1>1, SpecInv, PTL

-----------------------------------------------------------------------------
(* The action properties: a step that changes the running task or the time is a
   switch. *)
LEMMA StepSwitches ==
    ASSUME Inv, [Next]_vars, current_tid' # current_tid \/ jiffy' # jiffy
    PROVE  \E st \in [Tids -> States] : Switch(st)
<1>1. CASE SysTick
    BY <1>1, SysTickSwitches
<1>2. ASSUME NEW t \in Tids, NEW ms \in SleepTimes, Sleep(t, ms)
      PROVE  \E st \in [Tids -> States] : Switch(st)
    BY <1>2, SvcSwitches DEF Sleep
<1>3. ASSUME NEW t \in Tids, Yield(t) \/ MutexLockBusy(t)
      PROVE  \E st \in [Tids -> States] : Switch(st)
    BY <1>3, SvcSwitches DEF Yield, MutexLockBusy
<1>4. ASSUME NEW t \in Tids,
             \/ MutexLockFree(t) \/ MutexUnlock(t) \/ SignalReset(t) \/ SignalReturn(t)
             \/ \E s \in Signals : SignalWait(t, s)
      PROVE  FALSE
    BY <1>4 DEF MutexLockFree, MutexUnlock, SignalReset, SignalReturn, SignalWait
<1>5. CASE Elapse \/ IdleStep \/ UNCHANGED vars
    BY <1>5 DEF Elapse, IdleStep, RegisterFrame, RegisterReady, RegisterCount,
                RegisterDone, RegisterFail, UnchangedByIdle, vars
<1> QED BY <1>1, <1>2, <1>3, <1>4, <1>5 DEF Next, TaskStep

(* k_task_peek_next falls back on the idle task only when nobody else can run. *)
THEOREM WorkConservingAlways == Spec => WorkConserving
<1>1. ASSUME Inv, [Next]_vars, current_tid' = 0, current_tid # 0 \/ jiffy' # jiffy,
             NEW t \in Registered \ {current_tid}
      PROVE  state'[t] # "ready"
  <2>1. PICK st \in [Tids -> States] : Switch(st)
      BY <1>1, StepSwitches
  <2>2. PICK until, now : Reschedule(st, until, now)
      BY <2>1 DEF Switch
  <2> DEFINE updated == Updated(st, until, now)
  <2>3. PeekNext(updated, current_tid) = 0 /\ state' = [updated EXCEPT ![0] = "running"]
      BY <1>1, <2>2 DEF Reschedule
  <2>4. updated[t] # "ready"
      BY <1>1, <2>3, PeekNextIdle DEF Inv, TypeInv
  <2>5. t \in Tids /\ t # 0
      BY <1>1, RegisteredInTids DEF Inv
  <2>6. updated = [u \in Tids |-> updated[u]]
      BY DEF Updated
  <2> HIDE DEF updated
  <2> QED BY <2>3, <2>4, <2>5, <2>6
<1>2. Inv /\ [Next]_vars
        => [current_tid' = 0 /\ (current_tid # 0 \/ jiffy' # jiffy)
              => \A t \in Registered \ {current_tid} : state'[t] # "ready"]_vars
    BY <1>1
<1> QED BY <1>2, SpecInv, PTL DEF Spec, WorkConserving

(* A mutex that k_mutex_unlock left free is handed to a waiter, if there is
   one, by the first switch that follows. *)
THEOREM NoLostGrantAlways == Spec => NoLostGrant
<1>1. ASSUME Inv, [Next]_vars, current_tid' # current_tid, mutex' # 1
      PROVE  Waiters(state)' = {}
  <2>1. PICK st \in [Tids -> States] : Switch(st)
      BY <1>1, StepSwitches
  <2>2. PICK until, now : Reschedule(st, until, now)
      BY <2>1 DEF Switch
  <2>3. /\ mutex' = IF Granted(st) # {} THEN 1 ELSE mutex
        /\ \A t \in Tids : state'[t] = "mutex_blocked" => st[t] = "mutex_blocked"
      BY <1>1, <2>1, <2>2, SwitchNoneRunning, RescheduleEffect DEF Inv, Switch
  <2>4. mutex = 0 /\ Granted(st) = {}
      BY <1>1, <2>3 DEF Inv, TypeInv
  <2>5. Waiters(st) = {}
    <3>1. Waiters(st) \subseteq Nat
        BY DEF Waiters, Registered
    <3>2. Waiters(st) # {} => Min(Waiters(st)) \in Granted(st)
        BY <2>4, <3>1, MinInSet DEF Granted
    <3> QED BY <2>4, <3>2
  <2>6. Registered' = Registered /\ Registered \subseteq Tids
      BY <1>1, <2>1, RegisteredInTids DEF Registered, Inv, Switch
  <2> QED BY <2>3, <2>5, <2>6 DEF Waiters
<1>2. Inv /\ [Next]_vars
        => [current_tid' # current_tid => mutex' = 1 \/ Waiters(state)' = {}]_vars
    BY <1>1
<1> QED BY <1>2, SpecInv, PTL DEF Spec, NoLostGrant

-----------------------------------------------------------------------------
(* The kernel mutex implements the abstract lock, for any number of tasks. *)
HolderFacts ==
    /\ \A t \in Tids : Holds(t) => t \in Tids \ {0} /\ Holder = t
    /\ (\A t \in Tids : ~ Holds(t)) => Holder = 0
    /\ mutex = 0 <=> Holder = 0
    /\ critical \subseteq Tids \ {0}

(* The abstract holder is 0 exactly when the variable mutex is. *)
LEMMA HolderIs == Inv => HolderFacts
<1> SUFFICES ASSUME Inv PROVE HolderFacts
    OBVIOUS
<1>1. critical \subseteq Tids \ {0}
    BY RegisteredInTids DEF Inv, WaitInv
<1>2. \A t \in Tids : Holds(t) => t \in Tids \ {0} /\ Holder = t
    BY <1>1 DEF Holder, Holds, Inv, MutualExclusion
<1>3. (\A t \in Tids : ~ Holds(t)) => Holder = 0
    BY DEF Holder
<1> QED BY <1>1, <1>2, <1>3 DEF HolderFacts, Inv, TypeInv, MutualExclusion

LEMMA HolderIsNext == Inv' => HolderFacts'
BY HolderIs, PTL

(* The abstract holder depends on the set of holding tasks only. *)
LEMMA SameHolders ==
    ASSUME Inv, Inv', \A t \in Tids : Holds(t)' <=> Holds(t)
    PROVE  Holder' = Holder
<1>1. HolderFacts /\ HolderFacts'
    BY HolderIs, HolderIsNext
<1>2. CASE \E t \in Tids : Holds(t)
    BY <1>1, <1>2 DEF HolderFacts
<1>3. CASE \A t \in Tids : ~ Holds(t)
    BY <1>1, <1>3 DEF HolderFacts
<1> QED BY <1>2, <1>3

(* A switch is a Grant of the waiter that k_task_update_state releases, a Block
   of the caller, or invisible to the lock. *)
LEMMA SwitchIsLockStep ==
    ASSUME Inv, Inv', NEW st \in [Tids -> States], Switch(st)
    PROVE  [Lock!Next]_(Lock!mvars)
<1>1. /\ \A t \in Tids : Holds(t)' <=> Holds(t) \/ t \in Granted(st)
      /\ \A t \in Granted(st) : t \in critical /\ ~ Holds(t)
    BY SwitchHolds
<1>2. HolderFacts /\ HolderFacts' /\ current_tid \in Tids
    BY HolderIs, HolderIsNext DEF Inv, TypeInv
<1>3. /\ \A t, u \in Granted(st) : t = u
      /\ Granted(st) # {} => mutex = 0
    BY GrantedOnce DEF Inv
<1>4. CASE st[current_tid] = "mutex_blocked"
  <2>1. /\ critical' = critical \cup {current_tid} /\ current_tid \notin critical
        /\ Granted(st) = {} /\ Holder # 0
      BY <1>2, <1>3, <1>4 DEF Switch, HolderFacts
  <2>2. ~ Holds(current_tid) /\ current_tid # Holder /\ current_tid # 0
      BY <1>2, <2>1 DEF Holds, HolderFacts, Inv, MutualExclusion, TypeInv
  <2>3. Holder' = Holder /\ \A t \in Tids : Holds(t)' <=> Holds(t)
      BY <1>1, <2>1, SameHolders
  <2>4. Lock!Block(current_tid)
      BY <1>2, <2>1, <2>2, <2>3 DEF Lock!Block, HolderFacts
  <2> QED BY <1>2, <2>2, <2>4 DEF Lock!Next
<1>5. CASE st[current_tid] # "mutex_blocked" /\ Granted(st) = {}
  <2>1. critical' = critical /\ \A t \in Tids : Holds(t)' <=> Holds(t)
      BY <1>1, <1>5 DEF Switch
  <2>2. Holder' = Holder
      BY <2>1, SameHolders
  <2> QED BY <2>1, <2>2 DEF Lock!mvars
<1>6. ASSUME st[current_tid] # "mutex_blocked", NEW g \in Granted(st)
      PROVE  [Lock!Next]_(Lock!mvars)
  <2>1. /\ critical' = critical /\ g \in critical /\ g \in Tids \ {0} /\ ~ Holds(g)
        /\ mutex = 0 /\ Holder = 0
      BY <1>1, <1>2, <1>3, <1>6 DEF Switch, HolderFacts
  <2>2. \A t \in Tids : ~ Holds(t) /\ (Holds(t)' <=> t = g)
      BY <1>1, <1>2, <1>3, <1>6, <2>1 DEF HolderFacts
  <2>3. Holder' = g
      BY <1>2, <2>1, <2>2 DEF HolderFacts
  <2>4. Lock!Grant(g)
      BY <2>1, <2>2, <2>3 DEF Lock!Grant
  <2> QED BY <2>1, <2>4 DEF Lock!Next
<1> QED BY <1>4, <1>5, <1>6

(* mutex_lock on a free mutex is an Acquire, even when others wait for it. *)
LEMMA LockFreeIsAcquire ==
    ASSUME Inv, Inv', NEW t \in Tids, MutexLockFree(t)
    PROVE  [Lock!Next]_(Lock!mvars)
<1>1. /\ t \notin critical /\ mutex = 0 /\ critical' = critical \cup {t} /\ UNCHANGED state
      /\ t = current_tid /\ t # 0
    BY DEF MutexLockFree, CanCall, Runs
<1>2. HolderFacts /\ HolderFacts' /\ state[t] # "mutex_blocked"
    BY <1>1, HolderIs, HolderIsNext DEF Inv, RunningIsCurrent
<1>3. \A u \in Tids : ~ Holds(u) /\ (Holds(u)' <=> u = t)
    BY <1>1, <1>2 DEF HolderFacts, Holds
<1>4. Holder = 0 /\ Holder' = t
    BY <1>1, <1>2, <1>3 DEF HolderFacts
<1>5. Lock!Acquire(t)
    BY <1>1, <1>3, <1>4 DEF Lock!Acquire
<1> QED BY <1>1, <1>5 DEF Lock!Next

(* mutex_unlock is a Release. *)
LEMMA UnlockIsRelease ==
    ASSUME Inv, Inv', NEW t \in Tids, MutexUnlock(t)
    PROVE  [Lock!Next]_(Lock!mvars)
<1>1. /\ t \in critical /\ mutex' = 0 /\ critical' = critical \ {t} /\ UNCHANGED state
      /\ t = current_tid
    BY DEF MutexUnlock, CanCall, Runs
<1>2. HolderFacts /\ HolderFacts' /\ Holds(t)
    BY <1>1, HolderIs, HolderIsNext DEF Inv, RunningIsCurrent, Holds
<1>3. \A u \in Tids : (Holds(u) <=> u = t) /\ ~ (Holds(u)')
    BY <1>1, <1>2 DEF HolderFacts, Holds, Inv, MutualExclusion
<1>4. Holder = t /\ t # 0 /\ Holder' = 0
    BY <1>2, <1>3 DEF HolderFacts
<1>5. Lock!Release
    BY <1>1, <1>3, <1>4 DEF Lock!Release
<1> QED BY <1>5 DEF Lock!Next

(* The other steps leave the state of the tasks that are critical alone. *)
LEMMA OtherIsStutter ==
    ASSUME Inv, Inv', UNCHANGED critical,
           \A t \in critical : state'[t] = state[t]
    PROVE  UNCHANGED (Lock!mvars)
<1>1. \A t \in Tids : Holds(t)' <=> Holds(t)
    BY DEF Holds
<1> QED BY <1>1, SameHolders DEF Lock!mvars

LEMMA StepIsLockStep ==
    ASSUME Inv, Inv', [Next]_vars
    PROVE  [Lock!Next]_(Lock!mvars)
<1>1. CASE SysTick
    BY <1>1, SysTickSwitches, SwitchIsLockStep
<1>2. ASSUME NEW t \in Tids, NEW ms \in SleepTimes, Sleep(t, ms)
      PROVE  [Lock!Next]_(Lock!mvars)
    BY <1>2, SvcSwitches, SwitchIsLockStep DEF Sleep
<1>3. ASSUME NEW t \in Tids, Yield(t) \/ MutexLockBusy(t)
      PROVE  [Lock!Next]_(Lock!mvars)
    BY <1>3, SvcSwitches, SwitchIsLockStep DEF Yield, MutexLockBusy
<1>4. ASSUME NEW t \in Tids, MutexLockFree(t) \/ MutexUnlock(t)
      PROVE  [Lock!Next]_(Lock!mvars)
    BY <1>4, LockFreeIsAcquire, UnlockIsRelease
<1>5. ASSUME NEW t \in Tids,
             (\E s \in Signals : SignalWait(t, s)) \/ SignalReset(t) \/ SignalReturn(t)
      PROVE  UNCHANGED (Lock!mvars)
    BY <1>5, OtherIsStutter DEF SignalWait, SignalReset, SignalReturn
<1>6. CASE Elapse \/ UNCHANGED vars
    BY <1>6, OtherIsStutter DEF Elapse, vars
<1>7. CASE IdleStep
  <2>1. UNCHANGED critical /\ (UNCHANGED state \/ RegisterReady)
      BY <1>7 DEF IdleStep, RegisterFrame, RegisterReady, RegisterCount, RegisterDone,
                  RegisterFail, UnchangedByIdle
  <2>2. \A t \in critical : t # NewTid
      BY DEF Inv, WaitInv, Registered, NewTid, TypeInv
  <2>3. \A t \in critical : state'[t] = state[t]
      BY <2>1, <2>2 DEF RegisterReady, Inv, TypeInv
  <2> QED BY <2>1, <2>3, OtherIsStutter
<1> QED BY <1>1, <1>2, <1>3, <1>4, <1>5, <1>6, <1>7 DEF Next, TaskStep

(* k_mutex_lock, k_mutex_unlock and k_task_update_state implement the lock: one
   holder, granted to a waiter or taken by a newcomer. *)
THEOREM KernelImplementsLock == Spec => ImplementsLock
<1>1. Init => Lock!Init
    BY DEF Init, Lock!Init, Holder, Holds
<1>2. Inv /\ Inv' /\ [Next]_vars => [Lock!Next]_(Lock!mvars)
    BY StepIsLockStep
<1> QED BY <1>1, <1>2, SpecInv, PTL DEF Spec, ImplementsLock, Lock!Spec
=============================================================================
