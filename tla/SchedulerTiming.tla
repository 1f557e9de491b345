-------------------------- MODULE SchedulerTiming --------------------------
(***************************************************************************)
(* Scheduler with the history its timing promises are about: for every     *)
(* sleeping task, how long it asked for, the timer units and the SysTicks  *)
(* since; for every ready task, who ran since it became ready; for every   *)
(* signal_wait, whether scheduler was called in it.  The history           *)
(* constrains no step of Scheduler.                                        *)
(***************************************************************************)
EXTENDS Scheduler

VARIABLES
    asked,   \* ms of the sys_sleep a task has not resumed from, or Awake
    exact,   \* of these tasks, those whose jiffy + ms was below LONG_MAX
    age,     \* timer units since the call, counted up to the units asked for
    ticks,   \* SysTicks since the call, counted up to TickCap
    passed,  \* tasks that got the core since the task became ready and counted
    called   \* tasks in a signal_wait that has seen a call of scheduler

history == <<asked, exact, age, ticks, passed, called>>
tvars == <<vars, history>>

Awake == -1
Asleep(t) == asked[t] # Awake
Units(t) == asked[t] * LOAD
TickCap(t) == asked[t] + MAX_TASKS

TimingInit ==
    /\ Init
    /\ asked = [t \in Tids |-> Awake]
    /\ exact = {}
    /\ age = [t \in Tids |-> 0]
    /\ ticks = [t \in Tids |-> 0]
    /\ passed = [t \in Tids |-> {}]
    /\ called = {}

(* A task has passed t when it gets the core while t stays ready. *)
Passes ==
    passed' = [t \in Tids |->
                 IF state'[t] # "ready" \/ t \notin Registered THEN {}
                 ELSE IF current_tid' # current_tid /\ state[t] = "ready"
                      THEN passed[t] \cup {current_tid'}
                      ELSE passed[t]]

(* A timer unit has passed: the sleeping tasks are one unit older. *)
Aged == [t \in Tids |-> IF Asleep(t) /\ age[t] < Units(t) THEN age[t] + 1 ELSE age[t]]

(* The timer expired while this step's SVC handler ran. *)
Late == pending' /\ ~pending

(* Of these tasks, the ones in signal_wait. *)
InWait(ts) == {t \in ts : pc'[t] # "user"}

(* The task that resumes is no longer asleep. *)
Resumed(f, default) == [f EXCEPT ![current_tid'] = default]

TimingElapse ==
    /\ Elapse
    /\ age' = Aged
    /\ UNCHANGED <<asked, exact, ticks, passed, called>>

TimingSysTick ==
    /\ SysTick
    /\ asked' = Resumed(asked, Awake)
    /\ exact' = exact \ {current_tid'}
    /\ age' = Resumed(age, 0)
    /\ ticks' = Resumed([t \in Tids |-> IF Asleep(t) /\ ticks[t] < TickCap(t)
                                        THEN ticks[t] + 1 ELSE ticks[t]], 0)
    /\ Passes
    /\ called' = InWait(called \cup {current_tid})

TimingSleep(t, ms) ==
    /\ Sleep(t, ms)
    /\ asked' = Resumed([asked EXCEPT ![t] = ms], Awake)
    /\ exact' = (IF jiffy + ms < LONG_MAX THEN exact \cup {t} ELSE exact) \ {current_tid'}
    /\ age' = Resumed(IF Late THEN Aged ELSE age, 0)
    /\ ticks' = Resumed(ticks, 0)
    /\ Passes
    /\ called' = InWait(called)

(* The other steps: a switch may resume a sleeping task. *)
OtherStep(t) ==
    \/ Yield(t)
    \/ MutexLockFree(t)
    \/ MutexLockBusy(t)
    \/ MutexUnlock(t)
    \/ \E s \in Signals : SignalWait(t, s)
    \/ SignalReset(t)
    \/ SignalReturn(t)

TimingOther ==
    /\ IdleStep \/ \E t \in Tids : OtherStep(t)
    /\ asked' = Resumed(asked, Awake)
    /\ exact' = exact \ {current_tid'}
    /\ age' = Resumed(IF Late THEN Aged ELSE age, 0)
    /\ ticks' = Resumed(ticks, 0)
    /\ Passes
    /\ called' = InWait(called)

TimingNext ==
    \/ TimingElapse
    \/ TimingSysTick
    \/ \E t \in Tids, ms \in SleepTimes : TimingSleep(t, ms)
    \/ TimingOther

TimingSpec == TimingInit /\ [][TimingNext]_tvars

-----------------------------------------------------------------------------
(* sys_sleep(ms) lasts at least ms timer periods of real time, however SysTick
   and the restarts of the timer interleave, while the deadline does not
   overflow long int. *)
SleepAtLeast ==
    \A t \in exact : state[t] = "ready" => age[t] = Units(t)

(* README: a sleeping task resumes at the latest at the tick that makes its
   number of ticks plus the number of tasks; by then every other task has had
   at most one turn. *)
WakeBound ==
    \A t \in exact : ticks[t] < asked[t] + registered_tasks

(* Round robin: no task gets the core twice while another one stays ready. *)
NoDoubleBypass ==
    [][\A t \in Registered :
         (state[t] = "ready" /\ state'[t] = "ready" /\ current_tid' # current_tid)
           => current_tid' \notin passed[t]]_tvars

(* signal_wait: "The scheduler is called before the function returns", in the
   window of this very call and not of another task's. *)
SchedulerCalled ==
    [][\A t \in Tids : pc[t] = "spin" /\ pc'[t] = "user" => t \in called]_tvars
=============================================================================
