------------------------------ MODULE Signals ------------------------------
(***************************************************************************)
(* signals.c on the kernel of Scheduler: signal_raise, a load and a store  *)
(* of the shared word signals_flags that any preemption may separate, and  *)
(* the history of signal_wait's calls.  The word is modelled as the set of *)
(* its bits; one signal is one bit.                                        *)
(***************************************************************************)
EXTENDS Scheduler

VARIABLES
    signals_flags,  \* the bits of signals_flags
    loaded,         \* loaded[t]: the value signal_raise of t will store, or Idle
    raised,         \* history: signals of the calls of signal_raise that returned
    waited          \* history: the argument of t's signal_wait

svars == <<vars, signals_flags, loaded, raised, waited>>

Idle == {0}

SignalsInit ==
    /\ Init
    /\ signals_flags = {} /\ raised = {}
    /\ loaded = [t \in Tids |-> Idle]
    /\ waited = [t \in Tids |-> 0]

(* signal_raise: signals_flags |= signal *)
RaiseLoad(t, s) ==
    /\ CanCall(t) /\ loaded[t] = Idle
    /\ loaded' = [loaded EXCEPT ![t] = signals_flags \cup {s}]
    /\ UNCHANGED <<vars, signals_flags, raised, waited>>

RaiseStore(t) ==
    /\ CanCall(t) /\ loaded[t] # Idle
    /\ signals_flags' = loaded[t]
    /\ raised' = raised \cup loaded[t]
    /\ loaded' = [loaded EXCEPT ![t] = Idle]
    /\ UNCHANGED <<vars, waited>>

Wait(t, s) ==
    /\ SignalWait(t, s) /\ loaded[t] = Idle
    /\ waited' = [waited EXCEPT ![t] = s]
    /\ UNCHANGED <<signals_flags, loaded, raised>>

OtherSteps ==
    /\ \/ Elapse
       \/ SysTick
       \/ IdleStep
       \/ \E t \in Tids : SignalReset(t) \/ SignalReturn(t)
       \/ \E t \in Tids : loaded[t] = Idle /\ (Yield(t) \/ \E ms \in SleepTimes : Sleep(t, ms))
    /\ UNCHANGED <<signals_flags, loaded, raised, waited>>

SignalsNext ==
    \/ \E t \in Tids, s \in Signals : RaiseLoad(t, s) \/ Wait(t, s)
    \/ \E t \in Tids : RaiseStore(t)
    \/ OtherSteps

SignalsSpec == SignalsInit /\ [][SignalsNext]_svars

-----------------------------------------------------------------------------
(* signal_wait: "Wait for a signal."  It returns after its signal was raised. *)
WaitsForSignal ==
    [][\A t \in Tids : pc[t] = "spin" /\ pc'[t] = "user" => waited[t] \in raised]_svars
=============================================================================
