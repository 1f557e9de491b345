----------------------- MODULE SchedulerTimingProofs -----------------------
(***************************************************************************)
(* Proofs about SchedulerTiming: signal_wait includes a call of the        *)
(* scheduler, the order of the scan is fair, and a sleep lasts its time    *)
(* and not much longer.                                                    *)
(***************************************************************************)
EXTENDS SchedulerTiming, SchedulerProofs

(***************************************************************************)
(* The inductive invariant, beside Inv of the kernel.                      *)
(***************************************************************************)
HistoryType ==
    /\ asked \in [Tids -> SleepTimes \cup {Awake}]
    /\ exact \subseteq Tids
    /\ age \in [Tids -> Nat] /\ ticks \in [Tids -> Nat]
    /\ passed \in [Tids -> SUBSET Tids]

(* A call of signal_wait that has not seen the scheduler still runs, with its
   flag set. *)
CallInv ==
    \A t \in Tids : pc[t] # "user" => t \in called \/ (signal_flag # 0 /\ current_tid = t)

(* In the cyclic order of the scan that starts behind t, the tasks that passed
   t come no later than the current one. *)
InOrder(t, u) ==
    /\ current_tid # 0 /\ u \in Registered
    /\ IF current_tid < t THEN u <= current_tid \/ u > t ELSE t < u /\ u <= current_tid

BypassInv ==
    \A t \in Tids :
        /\ t \notin Registered \/ state[t] # "ready" => passed[t] = {}
        /\ \A u \in passed[t] : InOrder(t, u)

(* The reload value is in the counter while a SysTick is pending. *)
PendingInv == pending => val = LOAD

(* The task that runs is awake. *)
AwakeInv ==
    /\ asked[current_tid] = Awake /\ age[current_tid] = 0 /\ ticks[current_tid] = 0
    /\ current_tid \notin exact

(* The ticks since the call of a task that is still blocked: the first may
   have come at once. *)
Since(t) == jiffy - (sleep_until[t] - asked[t])

(* The rest of the period that the timer has begun. *)
Rest == IF pending THEN 0 ELSE val

OldEnough(t) == Since(t) = 0 \/ age[t] = Units(t) \/ age[t] + Rest >= Since(t) * LOAD

(* The turns that others had in the scan since t was woken, at most. *)
Turns(t) ==
    IF current_tid > t THEN current_tid - t ELSE current_tid - t + registered_tasks

(* A sleeper whose deadline is exact: what the history says of it, ... *)
AsleepInv(t) ==
    /\ t \in Registered /\ asked[t] # Awake
    /\ state[t] \in {"blocked", "ready"}
    /\ age[t] <= Units(t)

(* ... while it is blocked, ... *)
BlockedInv(t) ==
    state[t] = "blocked" =>
        /\ sleep_until[t] < LONG_MAX
        /\ jiffy <= sleep_until[t] /\ Since(t) \in Nat
        /\ OldEnough(t)
        /\ ticks[t] = Since(t)

(* ... and when it has been woken and waits for the core. *)
ReadyInv(t) ==
    state[t] = "ready" =>
        /\ age[t] = Units(t)
        /\ current_tid # 0
        /\ ticks[t] <= asked[t] + Turns(t)

SleeperInv(t) == AsleepInv(t) /\ BlockedInv(t) /\ ReadyInv(t)

TimeInv ==
    /\ Inv /\ HistoryType /\ PendingInv
    /\ CallInv /\ BypassInv
    /\ AwakeInv /\ \A t \in exact : SleeperInv(t)

-----------------------------------------------------------------------------
(* When t is ready, the scan of k_task_peek_next stops at t or before it. *)
LEMMA PeekNextInOrder ==
    ASSUME registered_tasks \in Nat, NEW st, NEW ctid \in Nat,
           NEW t \in Registered \ {ctid}, st[t] = "ready"
    PROVE  /\ PeekNext(st, ctid) \in Registered \ {ctid}
           /\ IF ctid < t THEN ctid < PeekNext(st, ctid) /\ PeekNext(st, ctid) <= t
                          ELSE PeekNext(st, ctid) > ctid \/ PeekNext(st, ctid) <= t
<1> DEFINE ready == {u \in Registered \ {ctid} : st[u] = "ready"}
           after == {u \in ready : u > ctid}
<1>1. ready \subseteq Nat /\ after \subseteq ready /\ t \in ready
    BY DEF Registered
<1>2. after # {} => Min(after) \in after /\ \A u \in after : Min(after) <= u
    BY <1>1, MinInSet
<1>3. Min(ready) \in ready /\ \A u \in ready : Min(ready) <= u
    BY <1>1, MinInSet
<1>4. PeekNext(st, ctid) = IF after # {} THEN Min(after) ELSE Min(ready)
    BY <1>1 DEF PeekNext
<1>5. t > ctid => t \in after
    BY <1>1
<1>6. CASE after # {}
  <2>1. PeekNext(st, ctid) \in after
      BY <1>2, <1>4, <1>6
  <2> QED BY <1>2, <1>4, <1>5, <1>6, <2>1 DEF Registered
<1>7. CASE after = {}
  <2>1. PeekNext(st, ctid) \in ready /\ PeekNext(st, ctid) <= t /\ ~ (t > ctid)
      BY <1>1, <1>3, <1>4, <1>5, <1>7
  <2> QED BY <2>1 DEF Registered
<1> QED BY <1>6, <1>7

(***************************************************************************)
(* The two kinds of steps: those that leave the running task alone, and    *)
(* the handlers that end in Reschedule.                                    *)
(***************************************************************************)
Quiet ==
    /\ current_tid' = current_tid
    /\ \A t \in Registered : state'[t] = state[t]
    /\ Registered \subseteq Registered' /\ registered_tasks' \in Nat
    /\ current_tid # 0 => registered_tasks' = registered_tasks
    /\ UNCHANGED <<jiffy, sleep_until>>

SwitchTo(st, until) ==
    /\ \A t \in Tids \ {current_tid} : st[t] = state[t] /\ until[t] = sleep_until[t]
    /\ Reschedule(st, until, jiffy')
    /\ sleep_until' = until
    /\ UNCHANGED registered_tasks

SwitchStep ==
    jiffy' \in Int /\ \E st \in [Tids -> States], until \in [Tids -> Long] : SwitchTo(st, until)

LEMMA SysTickStep == ASSUME Inv, SysTick PROVE SwitchStep
<1> DEFINE waits == signal_flag # 0
           until == [sleep_until EXCEPT ![current_tid] = IF waits THEN 0 ELSE @]
           st == [state EXCEPT ![current_tid] = IF waits THEN "blocked" ELSE "ready"]
<1>1. /\ Reschedule(st, until, jiffy') /\ sleep_until' = until
      /\ UNCHANGED registered_tasks
    BY DEF SysTick
<1>2. st \in [Tids -> States] /\ until \in [Tids -> Long]
    BY TimeAssumption DEF Inv, TypeInv, States, Long
<1>3. \A t \in Tids \ {current_tid} : st[t] = state[t] /\ until[t] = sleep_until[t]
    BY DEF Inv, TypeInv
<1>4. jiffy' \in Int
    BY TimeAssumption DEF SysTick, Wrap, Inv, TypeInv, Long
<1> HIDE DEF st, until
<1> QED BY <1>1, <1>2, <1>3, <1>4 DEF SwitchStep, SwitchTo

LEMMA SvcStep ==
    ASSUME Inv, NEW t \in Tids, CanCall(t), NEW c \in States, NEW until \in [Tids -> Long],
           \A u \in Tids \ {t} : until[u] = sleep_until[u],
           SwitchFrom(t, c, until)
    PROVE  SwitchStep /\ jiffy' = jiffy
<1> DEFINE st == [state EXCEPT ![t] = c]
<1>1. /\ Reschedule(st, until, jiffy) /\ sleep_until' = until
      /\ UNCHANGED <<registered_tasks, jiffy>>
    BY DEF SwitchFrom
<1>2. st \in [Tids -> States] /\ \A u \in Tids \ {t} : st[u] = state[u]
    BY DEF Inv, TypeInv
<1>3. t = current_tid /\ jiffy \in Int
    BY DEF CanCall, Runs, Inv, TypeInv, Long
<1> HIDE DEF st
<1> QED BY <1>1, <1>2, <1>3 DEF SwitchStep, SwitchTo

LEMMA SleepStep ==
    ASSUME Inv, NEW t \in Tids, NEW ms \in SleepTimes, Sleep(t, ms)
    PROVE  SwitchStep /\ jiffy' = jiffy
<1>1. CanCall(t) /\ SwitchFrom(t, "blocked", [sleep_until EXCEPT ![t] = Wrap(jiffy + ms)])
    BY DEF Sleep
<1>2. Wrap(jiffy + ms) \in Long
    BY WrapInLong, TimeAssumption, CallsAssumption DEF Inv, TypeInv, Long
<1>3. /\ [sleep_until EXCEPT ![t] = Wrap(jiffy + ms)] \in [Tids -> Long]
      /\ \A u \in Tids \ {t} : [sleep_until EXCEPT ![t] = Wrap(jiffy + ms)][u] = sleep_until[u]
    BY <1>2 DEF Inv, TypeInv
<1>4. "blocked" \in States
    BY DEF States
<1> QED BY <1>1, <1>3, <1>4, SvcStep

LEMMA SwitchingCallStep ==
    ASSUME Inv, NEW t \in Tids, Yield(t) \/ MutexLockBusy(t)
    PROVE  SwitchStep /\ jiffy' = jiffy
<1>1. sleep_until \in [Tids -> Long] /\ "ready" \in States /\ "mutex_blocked" \in States
    BY DEF Inv, TypeInv, States
<1> QED BY <1>1, SvcStep DEF Yield, MutexLockBusy

QuietCall(t) ==
    \/ MutexLockFree(t) \/ MutexUnlock(t) \/ SignalReset(t) \/ SignalReturn(t)
    \/ \E s \in Signals : SignalWait(t, s)

LEMMA QuietStep ==
    ASSUME Inv, Elapse \/ IdleStep \/ \E t \in Tids : QuietCall(t)
    PROVE  Quiet
<1>1. registered_tasks \in Nat
    BY DEF Inv, TypeInv
<1>2. CASE Elapse
    BY <1>1, <1>2 DEF Elapse, Quiet, Registered
<1>3. CASE IdleStep
  <2>1. /\ UNCHANGED <<current_tid, jiffy, sleep_until>> /\ current_tid = 0
        /\ registered_tasks' \in {registered_tasks, NewTid}
        /\ state' = state \/ state' = [state EXCEPT ![NewTid] = "ready"]
      BY <1>3 DEF IdleStep, RegisterFrame, RegisterReady, RegisterCount, RegisterDone,
                  RegisterFail, IdleRuns, UnchangedByIdle
  <2>2. \A t \in Registered : state'[t] = state[t]
    <3>1. \A t \in Registered : t \in Tids /\ t # NewTid
        BY <1>1, RegisteredInTids DEF Registered, NewTid, Inv
    <3> QED BY <2>1, <3>1 DEF Inv, TypeInv
  <2> QED BY <1>1, <2>1, <2>2 DEF Quiet, Registered, NewTid
<1>4. ASSUME NEW t \in Tids, QuietCall(t) PROVE Quiet
    BY <1>1, <1>4 DEF QuietCall, MutexLockFree, MutexUnlock, SignalReset, SignalReturn,
                      SignalWait, Quiet, Registered
<1> QED BY <1>2, <1>3, <1>4

(***************************************************************************)
(* What a switch does to a task that is not the one that ran: a ready task *)
(* gets the core or stays ready, and then another one does, in order; a    *)
(* blocked task is woken exactly when its deadline has passed.             *)
(***************************************************************************)
Follows(t) ==
    /\ current_tid' \in Registered \ {current_tid}
    /\ IF current_tid < t THEN current_tid < current_tid' /\ current_tid' <= t
                          ELSE current_tid' > current_tid \/ current_tid' <= t

LEMMA SwitchOthers ==
    ASSUME Inv, SwitchStep, NEW t \in Registered \ {current_tid}
    PROVE  /\ state[t] = "ready"
                => Follows(t) /\ (t = current_tid' \/ state'[t] = "ready")
           /\ state[t] = "blocked" /\ jiffy' <= sleep_until[t]
                => t # current_tid' /\ state'[t] = "blocked"
           /\ state[t] = "blocked" /\ jiffy' > sleep_until[t]
                => Follows(t) /\ (t = current_tid' \/ state'[t] = "ready")
           /\ t # current_tid' /\ state[t] = "mutex_blocked"
                => state'[t] \in {"mutex_blocked", "ready"}
           /\ sleep_until'[t] = sleep_until[t]
<1>1. PICK st \in [Tids -> States], until \in [Tids -> Long] : SwitchTo(st, until)
    BY DEF SwitchStep
<1> DEFINE updated == Updated(st, until, jiffy')
           next == PeekNext(updated, current_tid)
<1>2. /\ t \in Tids /\ t # 0 /\ 0 \in Tids /\ registered_tasks \in Nat
      /\ current_tid \in Tids /\ current_tid \in Nat
    BY RegisteredInTids, SizesAssumption DEF Inv, TypeInv, Tids
<1>3. st[t] = state[t] /\ until[t] = sleep_until[t] /\ sleep_until' = until
    BY <1>1, <1>2 DEF SwitchTo
<1>4. /\ current_tid' = next
      /\ state' = [updated EXCEPT ![next] = "running"]
    BY <1>1 DEF SwitchTo, Reschedule
<1>5. updated = [u \in Tids |-> IF u \in Woken(st, until, jiffy') \cup Granted(st)
                                THEN "ready" ELSE st[u]]
    BY DEF Updated
<1>6. /\ t \in Woken(st, until, jiffy') <=> st[t] = "blocked" /\ jiffy' > until[t]
      /\ t \in Granted(st) => st[t] = "mutex_blocked"
    BY DEF Woken, Granted, Waiters
<1>7. /\ state[t] = "ready" => updated[t] = "ready"
      /\ state[t] = "blocked" /\ jiffy' > sleep_until[t] => updated[t] = "ready"
      /\ state[t] = "blocked" /\ ~ (jiffy' > sleep_until[t]) => updated[t] = "blocked"
      /\ state[t] = "mutex_blocked" => updated[t] \in {"mutex_blocked", "ready"}
    BY <1>2, <1>3, <1>5, <1>6
<1>8. updated[t] = "ready" => Follows(t)
  <2> HIDE DEF updated
  <2> QED BY <1>2, <1>4, PeekNextInOrder DEF Follows
<1>9. next = 0 \/ updated[next] = "ready"
  <2> HIDE DEF updated
  <2> QED BY <1>2, PeekNextChoice
<1>10. t # next => state'[t] = updated[t]
  <2>1. updated = [u \in Tids |-> updated[u]]
      BY <1>5
  <2> HIDE DEF updated, next
  <2> QED BY <1>2, <1>4, <2>1
<1>11. ~ (jiffy' > sleep_until[t]) <=> jiffy' <= sleep_until[t]
    BY <1>2 DEF SwitchStep, Inv, TypeInv, Long
<1>12. state[t] = "blocked" /\ ~ (jiffy' > sleep_until[t])
          => t # current_tid' /\ state'[t] = "blocked"
  <2> HIDE DEF updated, next
  <2> QED BY <1>2, <1>4, <1>7, <1>9, <1>10
<1> HIDE DEF updated, next
<1> QED BY <1>3, <1>4, <1>7, <1>8, <1>10, <1>11, <1>12

-----------------------------------------------------------------------------
(* The history constrains no step: a step of SchedulerTiming is one of the
   kernel, and either leaves the running task alone or is a switch. *)
LEMMA TimingIsNext ==
    ASSUME TimingNext
    PROVE  /\ Next
           /\ \/ TimingElapse
              \/ TimingSysTick
              \/ \E t \in Tids, ms \in SleepTimes : TimingSleep(t, ms)
              \/ TimingOther /\ (IdleStep \/ \E t \in Tids : QuietCall(t))
              \/ TimingOther /\ \E t \in Tids : Yield(t) \/ MutexLockBusy(t)
<1>1. CASE TimingElapse
    BY <1>1 DEF TimingElapse, Next
<1>2. CASE TimingSysTick
    BY <1>2 DEF TimingSysTick, Next
<1>3. CASE \E t \in Tids, ms \in SleepTimes : TimingSleep(t, ms)
    BY <1>3 DEF TimingSleep, Next, TaskStep
<1>4. CASE TimingOther
  <2>1. CASE IdleStep
      BY <1>4, <2>1 DEF Next
  <2>2. ASSUME NEW t \in Tids, OtherStep(t)
        PROVE  TaskStep(t) /\ (QuietCall(t) \/ Yield(t) \/ MutexLockBusy(t))
      BY <2>2 DEF OtherStep, TaskStep, QuietCall
  <2> QED BY <1>4, <2>1, <2>2 DEF TimingOther, Next
<1> QED BY <1>1, <1>2, <1>3, <1>4 DEF TimingNext

LEMMA StepKind ==
    ASSUME Inv, TimingNext
    PROVE  Quiet \/ SwitchStep
<1>1. CASE TimingElapse
    BY <1>1, QuietStep DEF TimingElapse
<1>2. CASE TimingSysTick
    BY <1>2, SysTickStep DEF TimingSysTick
<1>3. CASE \E t \in Tids, ms \in SleepTimes : TimingSleep(t, ms)
    BY <1>3, SleepStep DEF TimingSleep
<1>4. CASE IdleStep \/ \E t \in Tids : QuietCall(t)
    BY <1>4, QuietStep
<1>5. CASE \E t \in Tids : Yield(t) \/ MutexLockBusy(t)
    BY <1>5, SwitchingCallStep
<1> QED BY <1>1, <1>2, <1>3, <1>4, <1>5, TimingIsNext

LEMMA TimingInvStep == ASSUME Inv, TimingNext PROVE Inv'
BY TimingIsNext, NextInv

(***************************************************************************)
(* The steps of the inductive invariant, one lemma per part.               *)
(***************************************************************************)
LEMMA HistoryTypeStep ==
    ASSUME Inv, HistoryType, TimingNext
    PROVE  HistoryType'
<1> USE DEF HistoryType
<1>1. current_tid' \in Tids
    BY TimingInvStep DEF Inv, TypeInv
<1>2. Aged \in [Tids -> Nat]
    BY DEF Aged
<1>3. Passes => passed' \in [Tids -> SUBSET Tids]
    BY <1>1 DEF Passes
<1>4. CASE TimingElapse
    BY <1>2, <1>4 DEF TimingElapse
<1>5. CASE TimingSysTick
    BY <1>1, <1>3, <1>5 DEF TimingSysTick, Resumed
<1>6. ASSUME NEW t \in Tids, NEW ms \in SleepTimes, TimingSleep(t, ms)
      PROVE  HistoryType'
    BY <1>1, <1>2, <1>3, <1>6 DEF TimingSleep, Resumed
<1>7. CASE TimingOther
    BY <1>1, <1>2, <1>3, <1>7 DEF TimingOther, Resumed
<1> QED BY <1>4, <1>5, <1>6, <1>7 DEF TimingNext

(* Only SysTick is enabled while a SysTick is pending. *)
LEMMA PendingStep ==
    ASSUME Inv, PendingInv, TimingNext
    PROVE  PendingInv'
<1>1. CASE TimingElapse
  <2>1. pending' => val = 1
      BY <1>1, Zenon DEF TimingElapse, Elapse
  <2>2. val = 1 => val' = LOAD
      BY <1>1 DEF TimingElapse, Elapse
  <2> QED BY <2>1, <2>2 DEF PendingInv
<1>2. CASE TimingSysTick
    BY <1>2 DEF TimingSysTick, SysTick, PendingInv
<1>3. ASSUME NEW t \in Tids, NEW c, NEW until, SwitchFrom(t, c, until)
      PROVE  PendingInv'
    BY <1>3 DEF SwitchFrom, PendingInv
<1>4. CASE \E t \in Tids, ms \in SleepTimes : TimingSleep(t, ms)
    BY <1>3, <1>4 DEF TimingSleep, Sleep
<1>5. CASE \E t \in Tids : Yield(t) \/ MutexLockBusy(t)
    BY <1>3, <1>5 DEF Yield, MutexLockBusy
<1>6. CASE IdleStep
    BY <1>6 DEF IdleStep, RegisterFrame, RegisterReady, RegisterCount, RegisterDone,
                RegisterFail, UnchangedByIdle, PendingInv
<1>7. CASE \E t \in Tids : QuietCall(t)
    BY <1>7 DEF QuietCall, MutexLockFree, MutexUnlock, SignalReset, SignalReturn,
                SignalWait, PendingInv
<1> QED BY <1>1, <1>2, <1>4, <1>5, <1>6, <1>7, TimingIsNext

(* The tasks in signal_wait stay in the history until they return, and the
   caller joins it at the tick that consumes its flag. *)
LEMMA CallStep ==
    ASSUME Inv, HistoryType, CallInv, TimingNext
    PROVE  CallInv'
<1> USE DEF CallInv
<1>1. CASE TimingElapse
    BY <1>1 DEF TimingElapse, Elapse
<1>2. CASE TimingSysTick
    BY <1>2 DEF TimingSysTick, SysTick, InWait
<1>3. ASSUME called' = InWait(called), UNCHANGED pc,
             \/ UNCHANGED <<current_tid, signal_flag>>
             \/ signal_flag = 0 \/ pc[current_tid] = "user"
      PROVE  CallInv'
    BY <1>3 DEF InWait
<1>4. ASSUME NEW t \in Tids, NEW c, NEW until, CanCall(t), SwitchFrom(t, c, until)
      PROVE  UNCHANGED pc /\ pc[current_tid] = "user"
    BY <1>4 DEF SwitchFrom, CanCall, Runs
<1>5. CASE \E t \in Tids, ms \in SleepTimes : TimingSleep(t, ms)
    BY <1>3, <1>4, <1>5 DEF TimingSleep, Sleep
<1>6. CASE TimingOther /\ \E t \in Tids : Yield(t) \/ MutexLockBusy(t)
    BY <1>3, <1>4, <1>6 DEF TimingOther, Yield, MutexLockBusy
<1>7. CASE TimingOther /\ IdleStep
  <2>1. UNCHANGED <<current_tid, signal_flag, pc>>
      BY <1>7 DEF IdleStep, RegisterFrame, RegisterReady, RegisterCount, RegisterDone,
                  RegisterFail, UnchangedByIdle
  <2> QED BY <1>3, <1>7, <2>1 DEF TimingOther
<1>8. ASSUME TimingOther, NEW t \in Tids, QuietCall(t)
      PROVE  CallInv'
  <2>1. called' = InWait(called) /\ UNCHANGED current_tid /\ t = current_tid
      BY <1>8 DEF TimingOther, QuietCall, MutexLockFree, MutexUnlock, SignalReset,
                  SignalReturn, SignalWait, CanCall, Runs
  <2>2. \A u \in Tids \ {t} : pc'[u] = pc[u] /\ (pc[u] # "user" => u \in called)
      BY <1>8, <2>1 DEF QuietCall, MutexLockFree, MutexUnlock, SignalReset,
                        SignalReturn, SignalWait, Inv, TypeInv
  <2>3. pc'[t] # "user" => t \in called \/ signal_flag' # 0
      BY <1>8, <2>1, CallsAssumption
         DEF QuietCall, MutexLockFree, MutexUnlock, SignalReset, SignalReturn, SignalWait,
             CanCall, Inv, TypeInv
  <2> QED BY <2>1, <2>2, <2>3 DEF InWait
<1> QED BY <1>1, <1>2, <1>5, <1>6, <1>7, <1>8, TimingIsNext

(***************************************************************************)
(* Round robin.  The task that passes t comes after all that passed it     *)
(* before, in the cyclic order of the scan, and before t.                  *)
(***************************************************************************)
LEMMA PassesStep ==
    ASSUME TimingNext
    PROVE  TimingElapse \/ Passes
BY DEF TimingNext, TimingSysTick, TimingSleep, TimingOther

LEMMA SwitchPasses ==
    ASSUME Inv, Inv', HistoryType, BypassInv, SwitchStep,
           NEW t \in Registered, state[t] = "ready", state'[t] = "ready"
    PROVE  /\ current_tid' # current_tid /\ current_tid' \notin passed[t]
           /\ \A u \in passed[t] \cup {current_tid'} : InOrder(t, u)'
<1>1. t \in Tids /\ t # current_tid /\ t # current_tid'
    BY RegisteredInTids DEF Inv, RunningIsCurrent
<1>2. Follows(t) /\ registered_tasks' = registered_tasks
    BY <1>1, SwitchOthers DEF SwitchStep, SwitchTo
<1>3. /\ current_tid' \in Nat \ {0} /\ current_tid \in Nat /\ t \in Nat
      /\ \A u \in Registered : u \in Nat
      /\ Registered' = Registered
    BY <1>2, SizesAssumption DEF Follows, Registered, Inv, TypeInv, Tids
<1>4. \A u \in passed[t] : InOrder(t, u)
    BY <1>1 DEF BypassInv
<1>5. current_tid' # current_tid /\ current_tid' \notin passed[t]
    BY <1>1, <1>2, <1>3, <1>4 DEF Follows, InOrder
<1>6. ASSUME NEW u \in passed[t] \cup {current_tid'}
      PROVE  InOrder(t, u)'
  <2>1. CASE u = current_tid'
      BY <1>1, <1>2, <1>3, <2>1 DEF Follows, InOrder
  <2>2. CASE u \in passed[t]
    <3>1. u \in Registered /\ u \in Nat
        BY <1>3, <1>4, <2>2 DEF InOrder
    <3>2. IF current_tid' < t THEN u <= current_tid' \/ u > t ELSE t < u /\ u <= current_tid'
        BY <1>1, <1>2, <1>3, <1>4, <2>2, <3>1 DEF Follows, InOrder
    <3> QED BY <1>3, <3>1, <3>2 DEF InOrder
  <2> QED BY <2>1, <2>2
<1> QED BY <1>5, <1>6

LEMMA BypassStep ==
    ASSUME Inv, HistoryType, BypassInv, TimingNext
    PROVE  BypassInv'
<1> SUFFICES ASSUME NEW t \in Tids
             PROVE  /\ t \notin Registered' \/ state'[t] # "ready" => passed'[t] = {}
                    /\ \A u \in passed'[t] : InOrder(t, u)'
    BY DEF BypassInv
<1>1. Inv' /\ Registered \subseteq Registered'
    BY TimingInvStep, StepKind DEF Quiet, SwitchStep, SwitchTo, Registered
<1>2. CASE TimingElapse
    BY <1>2 DEF TimingElapse, Elapse, BypassInv, InOrder, Registered
<1>3. CASE Passes
  <2>1. CASE t \notin Registered \/ state'[t] # "ready" \/ state[t] # "ready"
    <3>1. passed'[t] = {}
        BY <1>3, <2>1 DEF Passes, BypassInv
    <3> QED BY <3>1
  <2>2. CASE t \in Registered /\ state'[t] = "ready" /\ state[t] = "ready"
    <3>1. CASE Quiet
      <4>1. passed'[t] = passed[t] /\ current_tid' = current_tid
          BY <1>3, <2>2, <3>1 DEF Passes, Quiet
      <4> QED BY <1>1, <2>2, <4>1 DEF BypassInv, InOrder
    <3>2. CASE SwitchStep
      <4>1. passed'[t] = passed[t] \cup {current_tid'}
          BY <1>1, <1>3, <2>2, <3>2, SwitchPasses DEF Passes
      <4> QED BY <1>1, <2>2, <3>2, <4>1, SwitchPasses
    <3> QED BY <3>1, <3>2, StepKind
  <2> QED BY <2>1, <2>2
<1> QED BY <1>2, <1>3, PassesStep

-----------------------------------------------------------------------------
(* A task that gets the core is no longer in the history of the sleepers. *)
LEMMA AwakeStep ==
    ASSUME Inv, HistoryType, AwakeInv, TimingNext
    PROVE  AwakeInv'
<1> USE DEF AwakeInv, HistoryType
<1>1. current_tid' \in Tids
    BY TimingInvStep DEF Inv, TypeInv
<1>2. CASE TimingElapse
    BY <1>1, <1>2 DEF TimingElapse, Elapse, Aged, Asleep
<1>3. CASE TimingSysTick
    BY <1>1, <1>3 DEF TimingSysTick, Resumed
<1>4. Aged \in [Tids -> Nat]
    BY DEF Aged
<1>5. ASSUME NEW t \in Tids, NEW ms \in SleepTimes, TimingSleep(t, ms)
      PROVE  AwakeInv'
    BY <1>1, <1>4, <1>5 DEF TimingSleep, Resumed
<1>6. CASE TimingOther
    BY <1>1, <1>4, <1>6 DEF TimingOther, Resumed
<1> QED BY <1>2, <1>3, <1>5, <1>6 DEF TimingNext

LEMMA UnitsNat ==
    ASSUME HistoryType, NEW t \in Tids, asked[t] # Awake
    PROVE  asked[t] \in Nat /\ Units(t) \in Nat
<1>1. asked[t] \in SleepTimes
    BY DEF HistoryType
<1>2. asked[t] \in 0..LONG_MAX
    BY <1>1, CallsAssumption
<1> QED BY <1>2, TimeAssumption DEF Units

(* Between two ticks a sleeper grows older at least as fast as the timer runs
   down, whatever restarts it. *)
LEMMA AgeStep ==
    ASSUME Inv, HistoryType, AwakeInv,
           NEW t \in Tids, asked[t] # Awake, age[t] <= Units(t),
           TimingElapse \/ TimingOther
             \/ \E u \in Tids, ms \in SleepTimes : TimingSleep(u, ms) /\ u # t,
           t # current_tid'
    PROVE  /\ asked'[t] = asked[t] /\ ticks'[t] = ticks[t]
           /\ age'[t] \in age[t]..Units(t)
           /\ age'[t] = Units(t) \/ age'[t] + Rest' >= age[t] + Rest
<1> DEFINE older == IF age[t] < Units(t) THEN age[t] + 1 ELSE age[t]
<1>1. Units(t) \in Nat /\ age[t] \in Nat /\ val \in 1..LOAD /\ LOAD \in Nat /\ current_tid' \in Tids
  <2>1. current_tid' \in Tids
      BY TimingInvStep DEF TimingNext, Inv, TypeInv
  <2> QED BY <2>1, UnitsNat, TimeAssumption DEF HistoryType, Inv, TypeInv
<1>2. Aged \in [Tids -> Nat] /\ Aged[t] = older
    BY DEF Aged, Asleep, HistoryType
<1>3. CASE TimingElapse
  <2>1. ~ pending /\ (pending' <=> val = 1) /\ age' = Aged /\ UNCHANGED <<asked, ticks>>
      BY <1>3, Zenon DEF TimingElapse, Elapse
  <2>2. val > 1 => val' = val - 1
      BY <1>3 DEF TimingElapse, Elapse
  <2> QED BY <1>1, <1>2, <2>1, <2>2 DEF Rest
<1>4. ASSUME age' = Resumed(IF Late THEN Aged ELSE age, 0), ~ pending,
             pending' => val = 1, ~ pending' => val' >= val /\ val' \in Nat
      PROVE  /\ age'[t] \in age[t]..Units(t)
             /\ age'[t] = Units(t) \/ age'[t] + Rest' >= age[t] + Rest
  <2>1. CASE pending'
    <3>1. age'[t] = older
        BY <1>1, <1>2, <1>4, <2>1 DEF Resumed, Late, HistoryType
    <3> QED BY <1>1, <1>4, <2>1, <3>1 DEF Rest
  <2>2. CASE ~ pending'
    <3>1. age'[t] = age[t]
        BY <1>1, <1>4, <2>2 DEF Resumed, Late, HistoryType
    <3> QED BY <1>1, <1>4, <2>2, <3>1 DEF Rest
  <2> QED BY <2>1, <2>2
<1>5. ASSUME NEW u \in Tids, NEW c, NEW until, CanCall(u), SwitchFrom(u, c, until)
      PROVE  ~ pending /\ (pending' => val = 1) /\ (~ pending' => val' >= val /\ val' \in Nat)
  <2>1. ~ pending /\ (pending' => val = 1)
      BY <1>5, Zenon DEF SwitchFrom, CanCall, Runs
  <2>2. ~ pending' => val' = IF current_tid' # 0 THEN LOAD ELSE val
      BY <1>5 DEF SwitchFrom, RestartTimer
  <2> QED BY <1>1, <2>1, <2>2
<1>6. ASSUME NEW u \in Tids, NEW ms \in SleepTimes, TimingSleep(u, ms), u # t
      PROVE  /\ asked'[t] = asked[t] /\ ticks'[t] = ticks[t] /\ age'[t] \in age[t]..Units(t)
             /\ age'[t] = Units(t) \/ age'[t] + Rest' >= age[t] + Rest
  <2>1. asked'[t] = asked[t] /\ ticks'[t] = ticks[t]
      BY <1>1, <1>6 DEF TimingSleep, Resumed, HistoryType
  <2> QED BY <1>4, <1>5, <1>6, <2>1 DEF TimingSleep, Sleep
<1>7. CASE TimingOther
  <2>1. asked'[t] = asked[t] /\ ticks'[t] = ticks[t]
      BY <1>1, <1>7 DEF TimingOther, Resumed, HistoryType
  <2>2. ASSUME NEW u \in Tids, Yield(u) \/ MutexLockBusy(u)
        PROVE  ~ pending /\ (pending' => val = 1) /\ (~ pending' => val' >= val /\ val' \in Nat)
      BY <1>5, <2>2 DEF Yield, MutexLockBusy
  <2>3. ASSUME NEW u \in Tids, QuietCall(u)
        PROVE  ~ pending /\ ~ pending' /\ val' >= val /\ val' \in Nat
      BY <1>1, <2>3 DEF QuietCall, MutexLockFree, MutexUnlock, SignalReset, SignalReturn,
                        SignalWait, CanCall, Runs
  <2>4. IdleStep => ~ pending /\ ~ pending' /\ val' >= val /\ val' \in Nat
      BY <1>1 DEF IdleStep, RegisterFrame, RegisterReady, RegisterCount, RegisterDone,
                        RegisterFail, UnchangedByIdle, IdleRuns
  <2>5. \/ IdleStep
        \/ \E u \in Tids : Yield(u) \/ MutexLockBusy(u)
        \/ \E u \in Tids : QuietCall(u)
      BY <1>7 DEF TimingOther, OtherStep, QuietCall
  <2> QED BY <1>4, <1>7, <2>1, <2>2, <2>3, <2>4, <2>5 DEF TimingOther
<1> QED BY <1>2, <1>3, <1>6, <1>7

(* A switch that gives another task the core takes a turn off t. *)
LEMMA FewerTurns ==
    ASSUME NEW reg \in Nat, NEW t \in 1..reg, NEW cur \in 1..reg, NEW next \in 1..reg,
           next # t, cur # t,
           IF cur < t THEN cur < next /\ next <= t ELSE next > cur \/ next <= t
    PROVE  (IF next > t THEN next - t ELSE next - t + reg)
             >= (IF cur > t THEN cur - t ELSE cur - t + reg) + 1
OBVIOUS

LEMMA TurnsGrow ==
    ASSUME Inv, Inv', NEW t \in Registered, Follows(t), current_tid # 0,
           t # current_tid, t # current_tid', UNCHANGED registered_tasks
    PROVE  current_tid' # 0 /\ Turns(t)' >= Turns(t) + 1 /\ Turns(t) \in Nat
<1>1. /\ registered_tasks \in Nat /\ t \in 1..registered_tasks
      /\ current_tid \in 1..registered_tasks /\ current_tid' \in 1..registered_tasks
    BY DEF Follows, Registered, Inv, TypeInv, VisibleTaskComplete
<1>2. current_tid' # 0 /\ Turns(t) \in Nat
    BY <1>1 DEF Turns
<1>3. Turns(t)' >= Turns(t) + 1
    BY <1>1, FewerTurns DEF Follows, Turns
<1> QED BY <1>2, <1>3

(* Every other task has at most one turn while t waits. *)
LEMMA SomeTurns ==
    ASSUME NEW reg \in Nat, NEW t \in 1..reg, NEW cur \in 1..reg, cur # t
    PROVE  (IF cur > t THEN cur - t ELSE cur - t + reg) \in 1..(reg - 1)
OBVIOUS

LEMMA TurnsBound ==
    ASSUME Inv, NEW t \in Registered, current_tid # 0, current_tid # t
    PROVE  Turns(t) \in 1..(registered_tasks - 1)
<1>1. /\ registered_tasks \in Nat
      /\ t \in 1..registered_tasks /\ current_tid \in 1..registered_tasks
    BY DEF Registered, Inv, TypeInv, VisibleTaskComplete
<1> QED BY <1>1, SomeTurns DEF Turns

(* Without a tick, a sleeper other than the caller stays as it is, a woken one
   closer to its turn. *)
LEMMA OtherSleepers ==
    ASSUME TimeInv, Inv', NEW t \in exact, t # current_tid',
           \/ TimingElapse \/ TimingOther
           \/ \E u \in Tids, ms \in SleepTimes : TimingSleep(u, ms) /\ u # t
    PROVE  SleeperInv(t)'
<1>1. /\ t \in Tids /\ t # current_tid /\ SleeperInv(t)
      /\ t \in Registered /\ asked[t] # Awake /\ age[t] <= Units(t)
    BY DEF TimeInv, HistoryType, AwakeInv, SleeperInv, AsleepInv
<1>2. /\ asked[t] \in Nat /\ Units(t) \in Nat /\ age[t] \in Nat /\ ticks[t] \in Nat
      /\ jiffy \in Int /\ sleep_until[t] \in Int /\ LOAD \in Nat /\ Rest \in Int
    BY <1>1, UnitsNat, TimeAssumption DEF TimeInv, HistoryType, Inv, TypeInv, Long, Rest
<1>3. /\ asked'[t] = asked[t] /\ ticks'[t] = ticks[t] /\ age'[t] \in age[t]..Units(t)
      /\ age'[t] = Units(t) \/ age'[t] + Rest' >= age[t] + Rest
    BY <1>1, AgeStep DEF TimeInv
<1>4. (Quiet \/ SwitchStep) /\ jiffy' = jiffy
  <2>1. CASE TimingElapse \/ (TimingOther /\ (IdleStep \/ \E u \in Tids : QuietCall(u)))
    <3>1. Quiet
        BY <2>1, QuietStep DEF TimeInv, TimingElapse
    <3> QED BY <3>1 DEF Quiet
  <2>2. ASSUME NEW u \in Tids, NEW ms \in SleepTimes, TimingSleep(u, ms)
        PROVE  (Quiet \/ SwitchStep) /\ jiffy' = jiffy
      BY <2>2, SleepStep DEF TimeInv, TimingSleep
  <2>3. CASE \E u \in Tids : Yield(u) \/ MutexLockBusy(u)
      BY <2>3, SwitchingCallStep DEF TimeInv
  <2>4. TimingOther => \/ IdleStep \/ \E u \in Tids : QuietCall(u)
                       \/ \E u \in Tids : Yield(u) \/ MutexLockBusy(u)
      BY DEF TimingOther, OtherStep, QuietCall
  <2> QED BY <2>1, <2>2, <2>3, <2>4
<1>5. t \in Registered' /\ sleep_until'[t] = sleep_until[t]
    BY <1>1, <1>4, SwitchOthers DEF TimeInv, Quiet, SwitchStep, SwitchTo, Registered
<1>6. CASE state[t] = "blocked"
  <2>1. sleep_until[t] < LONG_MAX /\ jiffy <= sleep_until[t] /\ Since(t) \in Nat
        /\ OldEnough(t) /\ ticks[t] = Since(t)
      BY <1>1, <1>6 DEF SleeperInv, BlockedInv
  <2>2. state'[t] = "blocked"
      BY <1>1, <1>4, <1>6, <2>1, SwitchOthers DEF TimeInv, Quiet
  <2>3. Since(t)' = Since(t) /\ Units(t)' = Units(t)
      BY <1>3, <1>4, <1>5 DEF Since, Units
  <2>4. OldEnough(t)'
    <3>1. Rest' \in Int
        BY TimeAssumption DEF Rest, Inv, TypeInv
    <3> HIDE DEF Since, Units, Rest
    <3>2. Since(t) * LOAD \in Int
        BY <1>2, <2>1
    <3> QED BY <1>2, <1>3, <2>1, <2>3, <3>1, <3>2 DEF OldEnough
  <2> QED BY <1>2, <1>3, <1>4, <1>5, <2>1, <2>2, <2>3, <2>4, <1>1
          DEF SleeperInv, AsleepInv, BlockedInv, ReadyInv
<1>7. CASE state[t] = "ready"
  <2>1. age[t] = Units(t) /\ current_tid # 0 /\ ticks[t] <= asked[t] + Turns(t)
      BY <1>1, <1>7 DEF SleeperInv, ReadyInv
  <2>2. age'[t] = Units(t)' /\ Units(t)' = Units(t)
      BY <1>2, <1>3, <2>1 DEF Units
  <2>3. CASE Quiet
      BY <1>1, <1>3, <1>5, <1>7, <2>1, <2>2, <2>3, <1>2
      DEF Quiet, SleeperInv, AsleepInv, BlockedInv, ReadyInv, Turns
  <2>4. CASE SwitchStep
    <3>1. Follows(t) /\ state'[t] = "ready" /\ UNCHANGED registered_tasks
        BY <1>1, <1>7, <2>4, SwitchOthers DEF TimeInv, SwitchStep, SwitchTo
    <3>2. current_tid' # 0 /\ Turns(t)' >= Turns(t) + 1 /\ Turns(t) \in Nat
        BY <1>1, <2>1, <3>1, TurnsGrow DEF TimeInv
    <3>3. Turns(t)' \in Int
        BY <1>1, <3>1, <3>2, <1>5, TurnsBound DEF Turns, Inv, TypeInv, Tids, Registered, TimeInv
    <3>4. ticks'[t] <= asked'[t] + Turns(t)'
        BY <1>2, <1>3, <2>1, <3>2, <3>3
    <3> QED BY <1>1, <1>3, <1>5, <2>2, <3>1, <3>2, <3>4, <1>2
            DEF SleeperInv, AsleepInv, BlockedInv, ReadyInv
  <2> QED BY <1>4, <2>3, <2>4
<1> QED BY <1>1, <1>6, <1>7 DEF SleeperInv, AsleepInv

(* A tick moves every other sleeper one period on, and wakes it one tick after
   its units have passed. *)
LEMMA TickSleepers ==
    ASSUME TimeInv, Inv', TimingSysTick, NEW t \in exact, t # current_tid'
    PROVE  SleeperInv(t)'
<1>1. /\ t \in Tids /\ t # current_tid /\ t \in Registered /\ asked[t] # Awake
      /\ SleeperInv(t) /\ age[t] <= Units(t)
    BY DEF TimeInv, HistoryType, AwakeInv, SleeperInv, AsleepInv
<1>2. /\ asked[t] \in Nat /\ Units(t) \in Nat /\ age[t] \in Nat /\ ticks[t] \in Nat
      /\ jiffy \in Long /\ sleep_until[t] \in Long /\ LOAD \in Nat /\ MAX_TASKS \in Nat
      /\ registered_tasks \in Nat /\ registered_tasks < MAX_TASKS /\ LONG_MAX \in Nat
    BY <1>1, UnitsNat, TimeAssumption, SizesAssumption DEF TimeInv, HistoryType, Inv, TypeInv
<1>3. SwitchStep /\ UNCHANGED registered_tasks
    BY SysTickStep DEF TimingSysTick, SysTick, TimeInv
<1>4. sleep_until'[t] = sleep_until[t] /\ t \in Registered'
    BY <1>1, <1>3, SwitchOthers DEF TimeInv, Registered
<1>5. /\ asked'[t] = asked[t] /\ age'[t] = age[t] /\ Units(t)' = Units(t)
      /\ ticks'[t] = IF ticks[t] < TickCap(t) THEN ticks[t] + 1 ELSE ticks[t]
    BY <1>1 DEF TimingSysTick, Resumed, Asleep, TimeInv, HistoryType, Units
<1>6. Rest = 0 /\ Rest' = LOAD /\ jiffy' = Wrap(jiffy + 1)
  <2>1. pending /\ ~ pending'
      BY Zenon DEF TimingSysTick, SysTick
  <2>2. val' = LOAD /\ jiffy' = Wrap(jiffy + 1)
      BY <2>1 DEF TimingSysTick, SysTick, RestartTimer, TimeInv, PendingInv
  <2> QED BY <2>1, <2>2, Zenon DEF Rest
<1>7. CASE state[t] = "blocked"
  <2>1. /\ sleep_until[t] < LONG_MAX /\ jiffy <= sleep_until[t] /\ Since(t) \in Nat
        /\ OldEnough(t) /\ ticks[t] = Since(t)
      BY <1>1, <1>7 DEF SleeperInv, BlockedInv
  <2>2. jiffy' = jiffy + 1
      BY <1>2, <1>6, <2>1 DEF Wrap, Long
  <2>3. CASE jiffy < sleep_until[t]
    <3>1. jiffy' <= sleep_until[t]
        BY <1>2, <2>2, <2>3 DEF Long
    <3>2. state'[t] = "blocked"
        BY <1>1, <1>3, <1>7, <3>1, SwitchOthers DEF TimeInv
    <3>3. Since(t)' = Since(t) + 1 /\ Since(t) < asked[t]
        BY <1>2, <1>4, <1>5, <2>2, <2>3 DEF Since, Long
    <3>4. ticks'[t] = ticks[t] + 1
        BY <1>2, <1>5, <2>1, <3>3 DEF TickCap
    <3>5. OldEnough(t)'
      <4> DEFINE n == Since(t)
      <4>1. (n + 1) * LOAD = n * LOAD + LOAD /\ n * LOAD \in Nat /\ (n = 0 => n * LOAD = 0)
          BY <1>2, <2>1
      <4>2. n = 0 \/ age[t] = Units(t) \/ age[t] >= n * LOAD
          BY <1>2, <1>6, <2>1 DEF OldEnough
      <4>3. age[t] = Units(t) \/ age[t] + LOAD >= (n + 1) * LOAD
        <5> HIDE DEF n
        <5> QED BY <1>2, <4>1, <4>2
      <4> HIDE DEF n
      <4>4. age'[t] = Units(t)' \/ age'[t] + Rest' >= (n + 1) * LOAD
          BY <1>5, <1>6, <4>3
      <4>5. Since(t)' = n + 1
          BY <3>3 DEF n
      <4> QED BY <4>4, <4>5 DEF OldEnough
    <3> QED BY <1>1, <1>2, <1>4, <1>5, <2>1, <3>1, <3>2, <3>3, <3>4, <3>5
            DEF SleeperInv, AsleepInv, BlockedInv, ReadyInv
  <2>4. CASE jiffy = sleep_until[t]
    <3>1. Since(t) = asked[t]
        BY <1>2, <2>4 DEF Since, Long
    <3>2. age[t] = Units(t)
      <4>1. asked[t] = 0 => Units(t) = 0
          BY <1>2 DEF Units
      <4>2. asked[t] = 0 \/ age[t] = Units(t) \/ age[t] >= Units(t)
          BY <1>2, <1>6, <2>1, <3>1 DEF OldEnough, Units
      <4> QED BY <1>1, <1>2, <4>1, <4>2
    <3>3. jiffy' > sleep_until[t]
        BY <1>2, <2>2, <2>4 DEF Long
    <3>4. state'[t] = "ready" /\ Follows(t)
        BY <1>1, <1>3, <1>7, <3>3, SwitchOthers DEF TimeInv
    <3>5. current_tid' # 0 /\ Turns(t)' \in 1..(registered_tasks' - 1)
      <4>1. current_tid' # 0
          BY <1>2, <3>4 DEF Follows, Registered
      <4>2. Turns(t)' \in 1..(registered_tasks' - 1)
        <5>1. /\ registered_tasks' \in Nat
              /\ t \in 1..registered_tasks' /\ current_tid' \in 1..registered_tasks'
            BY <1>1, <1>2, <1>3, <3>4 DEF Follows, Registered
        <5> QED BY <5>1, SomeTurns DEF Turns
      <4> QED BY <4>1, <4>2
    <3>6. ticks'[t] <= asked'[t] + Turns(t)'
        BY <1>2, <1>3, <1>5, <2>1, <3>1, <3>5
    <3> QED BY <1>1, <1>4, <1>5, <3>2, <3>4, <3>5, <3>6
            DEF SleeperInv, AsleepInv, BlockedInv, ReadyInv
  <2> QED BY <1>2, <2>1, <2>3, <2>4 DEF Long
<1>8. CASE state[t] = "ready"
  <2>1. age[t] = Units(t) /\ current_tid # 0 /\ ticks[t] <= asked[t] + Turns(t)
      BY <1>1, <1>8 DEF SleeperInv, ReadyInv
  <2>2. Follows(t) /\ state'[t] = "ready"
      BY <1>1, <1>3, <1>8, SwitchOthers DEF TimeInv
  <2>3. current_tid' # 0 /\ Turns(t)' >= Turns(t) + 1 /\ Turns(t) \in Nat
      BY <1>1, <1>3, <2>1, <2>2, TurnsGrow DEF TimeInv
  <2>4. Turns(t)' \in Int
      BY <1>1, <1>2, <1>3, <2>2 DEF Turns, Follows, Registered
  <2>5. ticks'[t] <= asked'[t] + Turns(t)'
      BY <1>2, <1>5, <2>1, <2>3, <2>4
  <2> QED BY <1>1, <1>4, <1>5, <2>1, <2>2, <2>3, <2>5
          DEF SleeperInv, AsleepInv, BlockedInv, ReadyInv
<1> QED BY <1>1, <1>7, <1>8 DEF SleeperInv, AsleepInv

(* The caller of sys_sleep is blocked until its deadline. *)
LEMMA CallerSleeps ==
    ASSUME TimeInv, NEW t \in Tids, NEW ms \in SleepTimes, TimingSleep(t, ms), t \in exact'
    PROVE  SleeperInv(t)'
<1>1. /\ t = current_tid /\ t # 0 /\ t \in Registered
      /\ asked[t] = Awake /\ age[t] = 0 /\ ticks[t] = 0 /\ t \notin exact
    BY DEF TimingSleep, Sleep, CanCall, Runs, TimeInv, AwakeInv, Inv, VisibleTaskComplete
<1>2. jiffy + ms < LONG_MAX /\ t # current_tid'
    BY <1>1 DEF TimingSleep
<1>3. ms \in Nat /\ jiffy \in Long /\ LONG_MAX \in Nat /\ ms # Awake
  <2>1. ms \in 0..LONG_MAX
      BY CallsAssumption
  <2> QED BY <2>1, TimeAssumption DEF TimeInv, Inv, TypeInv, Awake
<1>4. asked'[t] = ms /\ age'[t] = 0 /\ ticks'[t] = 0
  <2>1. Aged[t] = 0
      BY <1>1 DEF Aged, Asleep
  <2>2. Aged \in [Tids -> Nat]
      BY DEF Aged, TimeInv, HistoryType
  <2> QED BY <1>1, <1>2, <2>1, <2>2 DEF TimingSleep, Resumed, TimeInv, HistoryType
<1> DEFINE st == [state EXCEPT ![t] = "blocked"]
           until == [sleep_until EXCEPT ![t] = Wrap(jiffy + ms)]
           updated == Updated(st, until, jiffy)
<1>5. /\ sleep_until' = until /\ UNCHANGED <<jiffy, registered_tasks>>
      /\ current_tid' = PeekNext(updated, current_tid)
      /\ state' = [updated EXCEPT ![current_tid'] = "running"]
    BY DEF TimingSleep, Sleep, SwitchFrom, Reschedule
<1>6. sleep_until'[t] = jiffy + ms
  <2>1. Wrap(jiffy + ms) = jiffy + ms
      BY <1>2, <1>3 DEF Wrap, Long
  <2> QED BY <1>5, <2>1 DEF TimeInv, Inv, TypeInv
<1>7. updated[t] = "blocked"
  <2>1. st[t] = "blocked" /\ until[t] = jiffy + ms
      BY <1>5, <1>6 DEF TimeInv, Inv, TypeInv
  <2>2. ~ (jiffy > until[t])
      BY <1>3, <2>1 DEF Long
  <2> HIDE DEF st, until
  <2> QED BY <2>1, <2>2 DEF Updated, Woken, Granted, Waiters
<1>8. state'[t] = "blocked"
  <2>1. updated = [u \in Tids |-> updated[u]]
      BY DEF Updated
  <2> HIDE DEF updated
  <2> QED BY <1>2, <1>5, <1>7, <2>1
<1>9. Units(t)' \in Nat
    BY <1>3, <1>4, TimeAssumption DEF Units
<1>10. Since(t)' = 0
    BY <1>3, <1>4, <1>5, <1>6 DEF Since, Long
<1>11. t \in Registered'
    BY <1>1, <1>5 DEF Registered
<1>12. AsleepInv(t)'
    BY <1>3, <1>4, <1>8, <1>9, <1>11 DEF AsleepInv
<1>13. BlockedInv(t)'
  <2>1. sleep_until'[t] < LONG_MAX /\ jiffy' <= sleep_until'[t]
      BY <1>2, <1>3, <1>5, <1>6 DEF Long
  <2> QED BY <1>4, <1>10, <2>1 DEF BlockedInv, OldEnough
<1> QED BY <1>8, <1>12, <1>13 DEF SleeperInv, ReadyInv

LEMMA SleepersStep ==
    ASSUME TimeInv, Inv', TimingNext, NEW t \in exact'
    PROVE  SleeperInv(t)'
<1>2. CASE TimingElapse
  <2>1. t \in exact /\ t # current_tid'
      BY <1>2 DEF TimingElapse, Elapse, TimeInv, AwakeInv
  <2> QED BY <1>2, <2>1, OtherSleepers
<1>3. CASE TimingSysTick
    BY <1>3, TickSleepers DEF TimingSysTick
<1>4. ASSUME NEW u \in Tids, NEW ms \in SleepTimes, TimingSleep(u, ms)
      PROVE  SleeperInv(t)'
  <2>1. t # current_tid'
      BY <1>4 DEF TimingSleep
  <2>2. t = u \/ t \in exact
      BY <1>4 DEF TimingSleep
  <2> QED BY <1>4, <2>1, <2>2, CallerSleeps, OtherSleepers
<1>5. CASE TimingOther
  <2>1. t \in exact /\ t # current_tid'
      BY <1>5 DEF TimingOther
  <2> QED BY <1>5, <2>1, OtherSleepers
<1> QED BY <1>2, <1>3, <1>4, <1>5 DEF TimingNext

-----------------------------------------------------------------------------
LEMMA TimeInvInit == TimingInit => TimeInv
<1> SUFFICES ASSUME TimingInit PROVE TimeInv
    OBVIOUS
<1>1. Inv
    BY InitInv DEF TimingInit
<1>2. HistoryType /\ BypassInv
    BY DEF TimingInit, HistoryType, BypassInv
<1>3. PendingInv /\ CallInv
    BY DEF TimingInit, Init, TimerStarted, PendingInv, CallInv
<1>4. AwakeInv /\ \A t \in exact : SleeperInv(t)
    BY <1>1 DEF TimingInit, AwakeInv, Inv, TypeInv
<1> QED BY <1>1, <1>2, <1>3, <1>4 DEF TimeInv

LEMMA TimeInvStep == TimeInv /\ [TimingNext]_tvars => TimeInv'
<1> SUFFICES ASSUME TimeInv, [TimingNext]_tvars PROVE TimeInv'
    OBVIOUS
<1>1. CASE TimingNext
  <2>1. Inv'
      BY <1>1, TimingInvStep DEF TimeInv
  <2>2. HistoryType' /\ PendingInv' /\ CallInv' /\ BypassInv' /\ AwakeInv'
      BY <1>1, HistoryTypeStep, PendingStep, CallStep, BypassStep, AwakeStep DEF TimeInv
  <2>3. \A t \in exact' : SleeperInv(t)'
      BY <1>1, <2>1, SleepersStep
  <2> QED BY <2>1, <2>2, <2>3 DEF TimeInv
<1>2. CASE UNCHANGED tvars
  <2>1. Inv'
      BY <1>2, StutterInv DEF TimeInv, tvars
  <2>2. HistoryType' /\ PendingInv' /\ CallInv' /\ BypassInv' /\ AwakeInv'
      BY <1>2 DEF TimeInv, tvars, vars, history, HistoryType, PendingInv, CallInv, BypassInv,
                  InOrder, Registered, AwakeInv
  <2>3. \A t \in exact' : SleeperInv(t)'
      BY <1>2 DEF TimeInv, tvars, vars, history, SleeperInv, AsleepInv, BlockedInv, ReadyInv,
                  Registered, Units, Since, OldEnough, Rest, Turns
  <2> QED BY <2>1, <2>2, <2>3 DEF TimeInv
<1> QED BY <1>1, <1>2

(* The history of the sleepers, the round robin and the calls stays in its
   inductive invariant. *)
THEOREM TimingSpecInv == TimingSpec => []TimeInv
BY TimeInvInit, TimeInvStep, PTL DEF TimingSpec

(* sys_sleep never returns before its time, for any number of tasks, any timer
   period and any restarts of the timer. *)
THEOREM SleepAtLeastAlways == TimingSpec => []SleepAtLeast
<1>1. TimeInv => SleepAtLeast
    BY DEF TimeInv, SleeperInv, ReadyInv, SleepAtLeast
<1> QED BY <1>1, TimingSpecInv, PTL

(* A sleeping task resumes within its ticks and one turn of every other task. *)
THEOREM WakeBoundAlways == TimingSpec => []WakeBound
<1>1. TimeInv => WakeBound
  <2> SUFFICES ASSUME TimeInv, NEW t \in exact
               PROVE  ticks[t] < asked[t] + registered_tasks
      BY DEF WakeBound
  <2>1. /\ t \in Tids /\ t # current_tid /\ t \in Registered /\ asked[t] # Awake
        /\ state[t] \in {"blocked", "ready"} /\ BlockedInv(t) /\ ReadyInv(t)
      BY DEF TimeInv, HistoryType, AwakeInv, SleeperInv, AsleepInv
  <2>2. /\ asked[t] \in Nat /\ ticks[t] \in Nat /\ jiffy \in Int /\ sleep_until[t] \in Int
        /\ registered_tasks \in Nat \ {0}
      BY <2>1, UnitsNat DEF TimeInv, HistoryType, Inv, TypeInv, Long, Registered
  <2>3. CASE state[t] = "blocked"
      BY <2>1, <2>2, <2>3 DEF BlockedInv, Since
  <2>4. CASE state[t] = "ready"
    <3>1. Turns(t) \in 1..(registered_tasks - 1)
        BY <2>1, <2>4, TurnsBound DEF TimeInv, ReadyInv
    <3> QED BY <2>1, <2>2, <2>4, <3>1 DEF ReadyInv
  <2> QED BY <2>1, <2>3, <2>4
<1> QED BY <1>1, TimingSpecInv, PTL

(* The scan of k_task_peek_next is a round robin: nobody is served twice while
   another task waits, however the timer and the calls interleave. *)
THEOREM NoDoubleBypassAlways == TimingSpec => NoDoubleBypass
<1>1. ASSUME TimeInv, TimeInv', TimingNext, NEW t \in Registered, state[t] = "ready",
             state'[t] = "ready", current_tid' # current_tid
      PROVE  current_tid' \notin passed[t]
  <2>1. SwitchStep
      BY <1>1, StepKind DEF TimeInv, Quiet
  <2> QED BY <1>1, <2>1, SwitchPasses DEF TimeInv
<1>2. UNCHANGED tvars => current_tid' = current_tid
    BY DEF tvars, vars
<1>3. TimeInv /\ TimeInv' /\ [TimingNext]_tvars
        => [\A t \in Registered :
              (state[t] = "ready" /\ state'[t] = "ready" /\ current_tid' # current_tid)
                => current_tid' \notin passed[t]]_tvars
    BY <1>1, <1>2
<1> QED BY <1>3, TimingSpecInv, PTL DEF TimingSpec, NoDoubleBypass

(* No signal_wait returns before the scheduler has run in it, even when the
   scheduler runs between the flag and the restart of the timer. *)
THEOREM SchedulerCalledAlways == TimingSpec => SchedulerCalled
<1>1. ASSUME TimeInv, [TimingNext]_tvars, NEW t \in Tids, pc[t] = "spin", pc'[t] = "user"
      PROVE  t \in called
  <2>1. signal_flag = 0
    <3>1. CASE TimingElapse
        BY <1>1, <3>1 DEF TimingElapse, Elapse
    <3>2. CASE TimingSysTick
        BY <1>1, <3>2 DEF TimingSysTick, SysTick
    <3>3. ASSUME NEW u \in Tids, NEW ms \in SleepTimes, TimingSleep(u, ms) PROVE FALSE
        BY <1>1, <3>3 DEF TimingSleep, Sleep, SwitchFrom
    <3>4. CASE IdleStep
        BY <1>1, <3>4 DEF IdleStep, RegisterFrame, RegisterReady, RegisterCount,
                          RegisterDone, RegisterFail, UnchangedByIdle
    <3>5. ASSUME NEW u \in Tids, OtherStep(u) PROVE signal_flag = 0
        BY <1>1, <3>5 DEF OtherStep, Yield, SwitchFrom, MutexLockFree, MutexLockBusy,
                          MutexUnlock, SignalWait, SignalReset, SignalReturn, CanCall,
                          TimeInv, Inv, TypeInv
    <3>6. ~ UNCHANGED tvars
        BY <1>1 DEF tvars, vars
    <3> QED BY <1>1, <3>1, <3>2, <3>3, <3>4, <3>5, <3>6 DEF TimingNext, TimingOther
  <2> QED BY <1>1, <2>1 DEF TimeInv, CallInv
<1>2. TimeInv /\ [TimingNext]_tvars
        => [\A t \in Tids : pc[t] = "spin" /\ pc'[t] = "user" => t \in called]_tvars
    BY <1>1
<1> QED BY <1>2, TimingSpecInv, PTL DEF TimingSpec, SchedulerCalled

=============================================================================
