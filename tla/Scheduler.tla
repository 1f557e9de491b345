----------------------------- MODULE Scheduler -----------------------------
(***************************************************************************)
(* The PascalScheduler kernel on its single Cortex-M0 core: the SysTick    *)
(* handler (scheduler), the SVC services (sleep, yield, mutex), the        *)
(* signal_wait of thread mode, and the idle task (thread 0), which         *)
(* registers the tasks of OS_Tasks while the timer already preempts it.    *)
(*                                                                         *)
(* A handler is one action: SVC (priority 0) and SysTick (lowest) never    *)
(* preempt one another, a SysTick that expires during an SVC is taken when *)
(* the SVC returns (pending).  Thread mode code is preempted between any   *)
(* two of its actions.                                                     *)
(***************************************************************************)
EXTENDS Integers, FiniteSetsExt

CONSTANTS
    MAX_TASKS,   \* size of tasks[], idle included
    OS_Tasks,    \* number of entries of OS_TASK_LIST before its final 0
    LONG_MAX,    \* largest long int: jiffy and sleep_until wrap past it
    LOAD,        \* SysTick->LOAD, in units of the external timer
    SleepTimes,  \* arguments the tasks give to sys_sleep
    Signals      \* arguments the tasks give to signal_wait

ASSUME SizesAssumption == MAX_TASKS \in Nat \ {0} /\ OS_Tasks \in Nat
ASSUME TimeAssumption == LONG_MAX \in Nat \ {0} /\ LOAD \in Nat \ {0}
ASSUME CallsAssumption == SleepTimes \subseteq 0..LONG_MAX /\ Signals \subseteq Nat \ {0}

VARIABLES
    current_tid, registered_tasks, jiffy, mutex, signal_flag,
    state, sleep_until, task_signal,  \* fields of tasks[]; task_signal is signal_flag
    sp,        \* sp[t]: tasks[t].sp points at a complete frame
    val,       \* SysTick->VAL
    pending,   \* SysTick exception pending
    boot,      \* where the idle task is in _kernel_entry
    pc,        \* pc[t]: where a task is in signal_wait, or "user"
    critical   \* tasks that called mutex_lock and have not called mutex_unlock

vars == <<current_tid, registered_tasks, jiffy, mutex, signal_flag, state,
          sleep_until, task_signal, sp, val, pending, boot, pc, critical>>

Tids == 0..(MAX_TASKS - 1)
Registered == 1..registered_tasks
Long == (-(LONG_MAX + 1))..LONG_MAX
States == {"none", "ready", "running", "blocked", "mutex_blocked"}

(* Faulty variant: an addition that does not wrap. *)
WrapNot(x) == x

(* Two's complement of the width of long int. *)
Wrap(x) == IF x > LONG_MAX THEN x - 2 * (LONG_MAX + 1) ELSE x

(***************************************************************************)
(* k_task_update_state: deadlines that have passed, and at most one mutex  *)
(* waiter, the first of tasks[], when the mutex is free.                   *)
(***************************************************************************)
(* Faulty variant: the deadline itself already wakes. *)
WokenEarly(st, until, now) == {t \in Registered : st[t] = "blocked" /\ now >= until[t]}

Woken(st, until, now) == {t \in Registered : st[t] = "blocked" /\ now > until[t]}

Waiters(st) == {t \in Registered : st[t] = "mutex_blocked"}

(* Faulty variants: every waiter is granted; none is. *)
GrantedAll(st) == {t \in Waiters(st) : mutex = 0}
GrantedNone(st) == {}

Granted(st) == {t \in Waiters(st) : mutex = 0 /\ \A u \in Waiters(st) : t <= u}

Updated(st, until, now) ==
    [t \in Tids |-> IF t \in Woken(st, until, now) \cup Granted(st) THEN "ready" ELSE st[t]]

(* Faulty variants of the scan below: it stops at the end of tasks[], or starts
   at the first task again. *)
PeekNextToEnd(st, ctid) ==
    LET after == {t \in Registered \ {ctid} : st[t] = "ready" /\ t > ctid}
    IN  IF after # {} THEN Min(after) ELSE 0

PeekNextFromFirst(st, ctid) ==
    LET ready == {t \in Registered \ {ctid} : st[t] = "ready"}
    IN  IF ready # {} THEN Min(ready) ELSE 0

(***************************************************************************)
(* k_task_peek_next: the first ready task after ctid in cyclic order, ctid *)
(* itself excluded; the idle task when there is none.                      *)
(***************************************************************************)
PeekNext(st, ctid) ==
    LET ready == {t \in Registered \ {ctid} : st[t] = "ready"}
        after == {t \in ready : t > ctid}
    IN  IF after # {} THEN Min(after) ELSE IF ready # {} THEN Min(ready) ELSE 0

(* Faulty variants: a return to the idle task is not marked; the mutex is not
   taken for the waiter that is granted. *)
RescheduleUnmarked(st, until, now) ==
    LET updated == Updated(st, until, now)
        next == PeekNext(updated, current_tid)
    IN  /\ current_tid' = next
        /\ state' = IF next = 0 THEN updated ELSE [updated EXCEPT ![next] = "running"]
        /\ mutex' = IF Granted(st) # {} THEN 1 ELSE mutex

RescheduleUntaken(st, until, now) ==
    LET updated == Updated(st, until, now)
        next == PeekNext(updated, current_tid)
    IN  /\ current_tid' = next
        /\ state' = [updated EXCEPT ![next] = "running"]
        /\ mutex' = mutex

(* The common end of every switching handler; st has the caller's new state. *)
Reschedule(st, until, now) ==
    LET updated == Updated(st, until, now)
        next == PeekNext(updated, current_tid)
    IN  /\ current_tid' = next
        /\ state' = [updated EXCEPT ![next] = "running"]
        /\ mutex' = IF Granted(st) # {} THEN 1 ELSE mutex

(* A choice of a task restarts the timer: SysTick->VAL = SysTick->LOAD. *)
RestartTimer == val' = IF current_tid' # 0 THEN LOAD ELSE val

-----------------------------------------------------------------------------
(* c_init has started the timer long before scheduler_init restarts it and
   unmasks the interrupts: a SysTick may be pending already. *)
TimerStarted == val = LOAD /\ pending \in BOOLEAN

Init ==
    /\ current_tid = 0 /\ registered_tasks = 0
    /\ jiffy = 0 /\ mutex = 0 /\ signal_flag = 0
    /\ state = [t \in Tids |-> IF t = 0 THEN "running" ELSE "none"]
    /\ sleep_until = [t \in Tids |-> 0] /\ task_signal = [t \in Tids |-> 0]
    /\ sp = [t \in Tids |-> t = 0]
    /\ TimerStarted
    /\ boot = "frame"
    /\ pc = [t \in Tids |-> "user"] /\ critical = {}

(* The hardware timer counts down; at the end of a period it pends SysTick. *)
Elapse ==
    /\ ~pending /\ boot # "fatal"
    /\ val' = IF val > 1 THEN val - 1 ELSE LOAD
    /\ pending' = (val = 1)
    /\ UNCHANGED <<current_tid, registered_tasks, jiffy, mutex, signal_flag, state,
                   sleep_until, task_signal, sp, boot, pc, critical>>

(* Faulty variant: the flag is not consumed. *)
SysTickKeepsFlag ==
    /\ pending /\ boot # "fatal"
    /\ pending' = FALSE
    /\ jiffy' = Wrap(jiffy + 1)
    /\ Reschedule([state EXCEPT ![current_tid] = IF signal_flag # 0 THEN "blocked" ELSE "ready"],
                  sleep_until, jiffy')
    /\ RestartTimer
    /\ UNCHANGED <<registered_tasks, signal_flag, sleep_until, task_signal, sp, boot, pc, critical>>

(* scheduler(), alias SysTick_C_Handler: a caller of signal_wait is blocked. *)
SysTick ==
    LET waits == signal_flag # 0
        until == [sleep_until EXCEPT ![current_tid] = IF waits THEN 0 ELSE @]
        st == [state EXCEPT ![current_tid] = IF waits THEN "blocked" ELSE "ready"]
    IN  /\ pending /\ boot # "fatal"
        /\ pending' = FALSE
        /\ jiffy' = Wrap(jiffy + 1)
        /\ sleep_until' = until
        /\ task_signal' = [task_signal EXCEPT ![current_tid] = IF waits THEN signal_flag ELSE @]
        /\ signal_flag' = 0
        /\ Reschedule(st, until, jiffy')
        /\ RestartTimer
        /\ UNCHANGED <<registered_tasks, sp, boot, pc, critical>>

-----------------------------------------------------------------------------
(* Thread mode of a task: it is current and no exception is pending. *)
Runs(t) == t # 0 /\ t = current_tid /\ ~pending
CanCall(t) == Runs(t) /\ pc[t] = "user"

(* A switching SVC; the timer may expire while its handler runs, and SysTick
   then follows the SVC. *)
SwitchFrom(t, st, until) ==
    /\ Reschedule([state EXCEPT ![t] = st], until, jiffy)
    /\ pending' \in {p \in BOOLEAN : p => val = 1}
    /\ IF pending' THEN val' = LOAD ELSE RestartTimer
    /\ sleep_until' = until
    /\ UNCHANGED <<registered_tasks, jiffy, signal_flag, sp, boot, pc>>

(* sys_sleep, SVC_SLEEP, k_task_sleep *)
Sleep(t, ms) ==
    /\ CanCall(t)
    /\ SwitchFrom(t, "blocked", [sleep_until EXCEPT ![t] = Wrap(jiffy + ms)])
    /\ task_signal' = [task_signal EXCEPT ![t] = 0]
    /\ UNCHANGED critical

(* sys_yield, SVC_YIELD, k_task_yield *)
Yield(t) ==
    /\ CanCall(t)
    /\ SwitchFrom(t, "ready", sleep_until)
    /\ UNCHANGED <<task_signal, critical>>

(* mutex_lock, SVC_MUTEX_LOCK, k_mutex_lock: the mutex is free ... *)
MutexLockFree(t) ==
    /\ CanCall(t) /\ t \notin critical
    /\ mutex = 0
    /\ mutex' = 1
    /\ critical' = critical \cup {t}
    /\ UNCHANGED <<current_tid, registered_tasks, jiffy, signal_flag, state,
                   sleep_until, task_signal, sp, val, pending, boot, pc>>

(* ... or taken, and the caller waits for k_task_update_state to grant it. *)
MutexLockBusy(t) ==
    /\ CanCall(t) /\ t \notin critical
    /\ mutex # 0
    /\ SwitchFrom(t, "mutex_blocked", sleep_until)
    /\ critical' = critical \cup {t}
    /\ UNCHANGED task_signal

(* mutex_unlock, SVC_MUTEX_UNLOCK, k_mutex_unlock: no switch, no hand-over. *)
MutexUnlock(t) ==
    /\ CanCall(t) /\ t \in critical
    /\ mutex' = 0
    /\ critical' = critical \ {t}
    /\ UNCHANGED <<current_tid, registered_tasks, jiffy, signal_flag, state,
                   sleep_until, task_signal, sp, val, pending, boot, pc>>

(* signal_wait, one action per access: set the flag, restart the timer, and
   spin until a SysTick has consumed the flag. *)
SignalWait(t, s) ==
    /\ CanCall(t)
    /\ signal_flag' = s
    /\ pc' = [pc EXCEPT ![t] = "reset"]
    /\ UNCHANGED <<current_tid, registered_tasks, jiffy, mutex, state, sleep_until,
                   task_signal, sp, val, pending, boot, critical>>

SignalReset(t) ==
    /\ Runs(t) /\ pc[t] = "reset"
    /\ val' = LOAD
    /\ pc' = [pc EXCEPT ![t] = "spin"]
    /\ UNCHANGED <<current_tid, registered_tasks, jiffy, mutex, signal_flag, state,
                   sleep_until, task_signal, sp, pending, boot, critical>>

(* Faulty variant: signal_wait does not look at the flag. *)
SignalReturnAtOnce(t) ==
    /\ Runs(t) /\ pc[t] = "spin"
    /\ pc' = [pc EXCEPT ![t] = "user"]
    /\ UNCHANGED <<current_tid, registered_tasks, jiffy, mutex, signal_flag, state, sleep_until,
                   task_signal, sp, val, pending, boot, critical>>

SignalReturn(t) ==
    /\ Runs(t) /\ pc[t] = "spin"
    /\ signal_flag = 0
    /\ pc' = [pc EXCEPT ![t] = "user"]
    /\ UNCHANGED <<current_tid, registered_tasks, jiffy, mutex, signal_flag, state,
                   sleep_until, task_signal, sp, val, pending, boot, critical>>

-----------------------------------------------------------------------------
(***************************************************************************)
(* The idle task in _kernel_entry: k_task_register for each entry of       *)
(* OS_Tasks, preemptible between the frame, the state and the counter.     *)
(***************************************************************************)
IdleRuns == current_tid = 0 /\ ~pending
NewTid == registered_tasks + 1

UnchangedByIdle == UNCHANGED <<current_tid, jiffy, mutex, signal_flag, sleep_until,
                               task_signal, val, pending, pc, critical>>

(* Faulty variant: the task is counted before it is complete. *)
RegisterCountFirst ==
    /\ IdleRuns /\ boot = "frame"
    /\ registered_tasks < OS_Tasks /\ NewTid < MAX_TASKS
    /\ registered_tasks' = NewTid
    /\ UnchangedByIdle /\ UNCHANGED <<boot, sp, state>>

RegisterFrame ==
    /\ IdleRuns /\ boot = "frame"
    /\ registered_tasks < OS_Tasks /\ NewTid < MAX_TASKS
    /\ sp' = [sp EXCEPT ![NewTid] = TRUE]
    /\ boot' = "ready"
    /\ UnchangedByIdle /\ UNCHANGED <<registered_tasks, state>>

RegisterReady ==
    /\ IdleRuns /\ boot = "ready"
    /\ state' = [state EXCEPT ![NewTid] = "ready"]
    /\ boot' = "count"
    /\ UnchangedByIdle /\ UNCHANGED <<registered_tasks, sp>>

RegisterCount ==
    /\ IdleRuns /\ boot = "count"
    /\ registered_tasks' = NewTid
    /\ boot' = "frame"
    /\ UnchangedByIdle /\ UNCHANGED <<state, sp>>

RegisterDone ==
    /\ IdleRuns /\ boot = "frame"
    /\ registered_tasks = OS_Tasks
    /\ boot' = "idle"
    /\ UnchangedByIdle /\ UNCHANGED <<registered_tasks, state, sp>>

(* k_task_register returns -1: fatal() masks interrupts and stops. *)
RegisterFail ==
    /\ IdleRuns /\ boot = "frame"
    /\ registered_tasks < OS_Tasks /\ NewTid >= MAX_TASKS
    /\ boot' = "fatal"
    /\ UnchangedByIdle /\ UNCHANGED <<registered_tasks, state, sp>>

IdleStep == RegisterFrame \/ RegisterReady \/ RegisterCount \/ RegisterDone \/ RegisterFail

TaskStep(t) ==
    \/ \E ms \in SleepTimes : Sleep(t, ms)
    \/ Yield(t)
    \/ MutexLockFree(t)
    \/ MutexLockBusy(t)
    \/ MutexUnlock(t)
    \/ \E s \in Signals : SignalWait(t, s)
    \/ SignalReset(t)
    \/ SignalReturn(t)

Next == Elapse \/ SysTick \/ IdleStep \/ \E t \in Tids : TaskStep(t)

Spec == Init /\ [][Next]_vars

(* The timer counts whatever the code does, and a pending SysTick is taken as
   soon as no SVC is running.  No task is obliged to make any call. *)
FairSpec == Spec /\ WF_vars(Elapse) /\ WF_vars(SysTick)

-----------------------------------------------------------------------------
(* Every variable stays in its C type, and the thread numbers in tasks[]. *)
TypeInv ==
    /\ current_tid \in Tids
    /\ registered_tasks \in Nat /\ registered_tasks < MAX_TASKS
    /\ jiffy \in Long /\ mutex \in {0, 1} /\ signal_flag \in Signals \cup {0}
    /\ state \in [Tids -> States]
    /\ sleep_until \in [Tids -> Long] /\ task_signal \in [Tids -> Signals \cup {0}]
    /\ sp \in [Tids -> BOOLEAN]
    /\ val \in 1..LOAD /\ pending \in BOOLEAN
    /\ boot \in {"frame", "ready", "count", "idle", "fatal"}
    /\ pc \in [Tids -> {"user", "reset", "spin"}]
    /\ critical \subseteq Tids

(* The context that task_save_context and task_restore_context address through
   current_tid is that of the one task marked TASK_RUNNING. *)
RunningIsCurrent == \A t \in Tids : state[t] = "running" <=> t = current_tid

(* A task inside its critical section: mutex_lock has returned to it, or will
   when it is next scheduled. *)
Holds(t) == t \in critical /\ state[t] # "mutex_blocked"

(* At most one task is past mutex_lock, whether it took the mutex itself or
   k_task_update_state granted it, and the mutex variable is 1 exactly then. *)
MutualExclusion ==
    /\ \A t, u \in Tids : Holds(t) /\ Holds(u) => t = u
    /\ mutex = 1 <=> \E t \in Tids : Holds(t)

(* The global signal_flag always belongs to the task that runs: a preempted
   signal_wait never leaves its flag to be charged to another task. *)
SignalOwner == signal_flag # 0 => current_tid # 0 /\ pc[current_tid] # "user"

(* A handler that preempts k_task_register sees only tasks whose frame and
   state are complete, and never runs one that is not counted. *)
VisibleTaskComplete ==
    /\ \A t \in Registered : sp[t] /\ state[t] # "none"
    /\ current_tid \in Registered \cup {0}

(* A switch gives the core to the idle task, and a tick leaves it there, only
   when no other task is ready. *)
WorkConserving ==
    [][current_tid' = 0 /\ (current_tid # 0 \/ jiffy' # jiffy)
        => \A t \in Registered \ {current_tid} : state'[t] # "ready"]_vars

(* A switch never leaves the mutex free while a task waits for it. *)
NoLostGrant ==
    [][current_tid' # current_tid => mutex' = 1 \/ Waiters(state)' = {}]_vars

(* A ready task gets the core, whatever the others call or do not call. *)
ReadyRuns ==
    \A t \in Tids \ {0} :
        (t \in Registered /\ state[t] = "ready") ~> current_tid = t
=============================================================================
