-------------------------------- MODULE App --------------------------------
(***************************************************************************)
(* The two tasks of main.c on the kernel of Scheduler.  The clock and the  *)
(* serial port they use keep no scheduler state, so between two system     *)
(* calls a task only takes time.                                           *)
(***************************************************************************)
EXTENDS Scheduler

CONSTANTS Startup, Hold   \* the delays of uart_task and of mutex_task

ASSUME AppAssumption == OS_Tasks = 2 /\ MAX_TASKS > 2 /\ {Startup, Hold} \subseteq SleepTimes

VARIABLE at   \* at[t]: the next system call of task t

avars == <<vars, at>>

uart_task == 1
mutex_task == 2
Apps == {uart_task, mutex_task}

AppInit ==
    /\ Init
    /\ at = [t \in Apps |-> IF t = uart_task THEN "sleep" ELSE "lock"]

(* A task at call c makes it and goes on to call d. *)
Goes(t, c, d) == at[t] = c /\ at' = [at EXCEPT ![t] = d]

Lock(t) == MutexLockFree(t) \/ MutexLockBusy(t)

UartTask ==
    \/ Sleep(uart_task, Startup) /\ Goes(uart_task, "sleep", "lock")
    \/ Lock(uart_task) /\ Goes(uart_task, "lock", "unlock")
    \/ MutexUnlock(uart_task) /\ Goes(uart_task, "unlock", "yield")
    \/ Yield(uart_task) /\ Goes(uart_task, "yield", "lock")

MutexTask ==
    \/ Lock(mutex_task) /\ Goes(mutex_task, "lock", "sleep")
    \/ Sleep(mutex_task, Hold) /\ Goes(mutex_task, "sleep", "unlock")
    \/ MutexUnlock(mutex_task) /\ Goes(mutex_task, "unlock", "yield")
    \/ Yield(mutex_task) /\ Goes(mutex_task, "yield", "lock")

Kernel == (Elapse \/ SysTick \/ IdleStep) /\ UNCHANGED at

AppNext == Kernel \/ UartTask \/ MutexTask

(* Beside the timer: a thread that is scheduled again and again advances again
   and again, the idle task while it registers. *)
AppSpec ==
    /\ AppInit /\ [][AppNext]_avars
    /\ WF_avars(Elapse /\ UNCHANGED at) /\ WF_avars(SysTick /\ UNCHANGED at)
    /\ []<>(current_tid = 0 /\ boot # "idle") => []<><<IdleStep>>_avars
    /\ []<>(current_tid = uart_task) => []<><<UartTask>>_avars
    /\ []<>(current_tid = mutex_task) => []<><<MutexTask>>_avars

-----------------------------------------------------------------------------
(* No task sleeps to the last jiffy, which no later jiffy exceeds. *)
NoLastJiffy == \A t \in Apps : state[t] = "blocked" => sleep_until[t] # LONG_MAX

(* The clock is printed and the mutex held again and again: neither task of
   main.c shuts the other one out. *)
BothServed ==
    []NoLastJiffy => []<>(at[uart_task] = "unlock" /\ Holds(uart_task))
                     /\ []<>(at[mutex_task] = "unlock" /\ Holds(mutex_task))
=============================================================================
