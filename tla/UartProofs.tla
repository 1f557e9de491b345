----------------------------- MODULE UartProofs -----------------------------
(***************************************************************************)
(* Proofs about Uart: under the mutex of the kernel, what a task has       *)
(* tested of a FIFO still holds when it accesses it, so that no element is *)
(* lost and no message torn, for any number of tasks, any sizes of the     *)
(* FIFOs and of the transfers, and any preemption.                         *)
(***************************************************************************)
EXTENDS Uart, SchedulerProofs, SequenceTheorems

(***************************************************************************)
(* The inductive invariant, beside Inv of the kernel.                      *)
(***************************************************************************)
Places == {"start", "txtest", "put", "rxtest", "get", "return", "yield"}
TxElement == [from : Users, pos : 1..Count]
WireElement == [from : Users \cup {0}, pos : 1..Count]

UartType ==
    /\ at \in [Users -> Places]
    /\ resid \in [Users -> 0..Count] /\ moved \in [Users -> Int]
    /\ txfifo \in Seq(TxElement) /\ rxfifo \in Seq(Int)
    /\ Len(txfifo) <= FIFO_SIZE
    /\ wire \in WireElement /\ got \in Int /\ arrived \in Int

(* A task is in its transfer only inside the critical section ... *)
InTransfer(t) == at[t] \in {"txtest", "put", "rxtest", "get"}

(* ... and past its mutex_lock once it has tested a FIFO or moved an element. *)
Advanced(t) == at[t] \in {"put", "get"} \/ (InTransfer(t) /\ resid[t] # Count)

TransferInv ==
    \A t \in Users :
        /\ InTransfer(t) => t \in critical /\ resid[t] # 0
        /\ Advanced(t) => Holds(t)
        /\ at[t] = "put" => Len(txfifo) < FIFO_SIZE
        /\ at[t] = "get" => rxfifo # <<>>

(* Element b comes after element a on the wire. *)
Continues(a, b) ==
    IF b.pos = 1 THEN a.pos = Count ELSE b = [a EXCEPT !.pos = @ + 1]

(* The last element put into the transmit FIFO, or sent from it. *)
LastPut == IF txfifo = <<>> THEN wire ELSE txfifo[Len(txfifo)]

Sends(t) == at[t] \in {"txtest", "put"} /\ resid[t] < Count

MessageInv ==
    /\ txfifo # <<>> => Continues(wire, txfifo[1])
    /\ \A i \in 1..(Len(txfifo) - 1) : Continues(txfifo[i], txfifo[i + 1])
    /\ \A t \in Users : Sends(t) => LastPut = [from |-> t, pos |-> Count - resid[t]]
    /\ (\A t \in Users : ~ Sends(t)) => LastPut.pos = Count

(* The received elements are numbered one after the other. *)
After(label) == (label + 1) % Labels
LastReceived == IF rxfifo = <<>> THEN got ELSE rxfifo[Len(rxfifo)]

LabelInv ==
    /\ rxfifo # <<>> => rxfifo[1] = After(got)
    /\ \A i \in 1..(Len(rxfifo) - 1) : rxfifo[i + 1] = After(rxfifo[i])
    /\ arrived = LastReceived

PortInv ==
    /\ Inv /\ UartType /\ TransferInv
    /\ CountIsMoved /\ MessageInv /\ LabelInv

-----------------------------------------------------------------------------
(* A task that is past mutex_lock stays past it until it unlocks, whatever the
   kernel does. *)
LEMMA HoldersKept ==
    ASSUME Inv, [Next]_vars, NEW t \in Tids, Holds(t), t \in critical'
    PROVE  Holds(t)'
<1>1. ASSUME NEW st \in [Tids -> States], Switch(st)
      PROVE  Holds(t)'
    BY <1>1, SwitchHolds
<1>2. CASE SysTick
    BY <1>1, <1>2, SysTickSwitches
<1>3. ASSUME NEW u \in Tids, NEW ms \in SleepTimes, Sleep(u, ms)
      PROVE  Holds(t)'
    BY <1>1, <1>3, SvcSwitches DEF Sleep
<1>4. ASSUME NEW u \in Tids, Yield(u) \/ MutexLockBusy(u)
      PROVE  Holds(t)'
    BY <1>1, <1>4, SvcSwitches DEF Yield, MutexLockBusy
<1>5. CASE UNCHANGED state
    BY <1>5 DEF Holds
<1>6. ASSUME NEW u \in Tids,
             \/ MutexLockFree(u) \/ MutexUnlock(u) \/ SignalReset(u) \/ SignalReturn(u)
             \/ \E s \in Signals : SignalWait(u, s)
      PROVE  UNCHANGED state
    BY <1>6 DEF MutexLockFree, MutexUnlock, SignalReset, SignalReturn, SignalWait
<1>7. CASE IdleStep
  <2>1. state' = state \/ state' = [state EXCEPT ![NewTid] = "ready"]
      BY <1>7 DEF IdleStep, RegisterFrame, RegisterReady, RegisterCount, RegisterDone,
                  RegisterFail
  <2> QED BY <2>1 DEF Holds, Inv, TypeInv
<1>8. CASE Elapse \/ UNCHANGED vars
    BY <1>5, <1>8 DEF Elapse, vars
<1> QED BY <1>2, <1>3, <1>4, <1>5, <1>6, <1>7, <1>8 DEF Next, TaskStep

(* What the steps of the port make of the kernel. *)
LEMMA KernelIsNext ==
    ASSUME Inv, UartNext
    PROVE  /\ [Next]_vars /\ Inv'
           /\ \/ Kernel /\ UNCHANGED critical
              \/ Transmit /\ UNCHANGED vars
              \/ Receive /\ UNCHANGED vars
              \/ \E t \in Users, test \in {"txtest", "rxtest"} :
                    Begin(t, test) /\ critical' = critical \cup {t}
              \/ \E t \in Users :
                    /\ t = current_tid /\ t \in Tids /\ state[t] = "running"
                    /\ UNCHANGED vars
                    /\ SendTest(t) \/ SendPut(t) \/ ReadTest(t) \/ ReadGet(t)
              \/ \E t \in Users : Return(t) /\ critical' = critical \ {t}
              \/ \E t \in Users : YieldTurn(t) /\ UNCHANGED critical
<1>1. CASE Kernel
  <2>1. UNCHANGED critical
      BY <1>1 DEF Kernel, Elapse, SysTick, IdleStep, RegisterFrame, RegisterReady,
                  RegisterCount, RegisterDone, RegisterFail, UnchangedByIdle
  <2>2. Next
      BY <1>1 DEF Kernel, Next
  <2> QED BY <1>1, <2>1, <2>2, NextInv
<1>2. CASE Transmit \/ Receive
  <2>1. UNCHANGED vars
      BY <1>2 DEF Transmit, Receive
  <2> QED BY <1>2, <2>1, NextInv
<1>3. ASSUME NEW t \in Users, NEW test \in {"txtest", "rxtest"}, Begin(t, test)
      PROVE  Next /\ critical' = critical \cup {t}
  <2>1. t \in Tids
      BY <1>3 DEF Begin, MutexLockFree, MutexLockBusy, CanCall, Runs, Inv, TypeInv
  <2> QED BY <1>3, <2>1 DEF Begin, MutexLockFree, MutexLockBusy, Next, TaskStep
<1>4. ASSUME NEW t \in Users, SendTest(t) \/ SendPut(t) \/ ReadTest(t) \/ ReadGet(t)
      PROVE  t = current_tid /\ t \in Tids /\ state[t] = "running" /\ UNCHANGED vars
    BY <1>4 DEF SendTest, SendPut, ReadTest, ReadGet, Computes, CanCall, Runs, Inv, TypeInv,
                RunningIsCurrent
<1>5. ASSUME NEW t \in Users, Return(t)
      PROVE  Next /\ critical' = critical \ {t}
  <2>1. t \in Tids
      BY <1>5 DEF Return, MutexUnlock, CanCall, Runs, Inv, TypeInv
  <2> QED BY <1>5, <2>1 DEF Return, MutexUnlock, Next, TaskStep
<1>6. ASSUME NEW t \in Users, YieldTurn(t)
      PROVE  Next /\ UNCHANGED critical
  <2>1. t \in Tids
      BY <1>6 DEF YieldTurn, Yield, CanCall, Runs, Inv, TypeInv
  <2> QED BY <1>6, <2>1 DEF YieldTurn, Yield, Next, TaskStep
<1>7. /\ Writers \subseteq Users /\ Readers \subseteq Users
      /\ \/ Kernel \/ Transmit \/ Receive
         \/ \E t \in Users, test \in {"txtest", "rxtest"} : Begin(t, test)
         \/ \E t \in Users : SendTest(t) \/ SendPut(t) \/ ReadTest(t) \/ ReadGet(t)
         \/ \E t \in Users : Return(t)
         \/ \E t \in Users : YieldTurn(t)
    BY DEF UartNext, Users
<1> QED BY <1>1, <1>2, <1>3, <1>4, <1>5, <1>6, <1>7, NextInv

(* A task that accesses a FIFO has the mutex, and no other task has tested one
   or is in the middle of its elements. *)
LEMMA OnlyUser ==
    ASSUME PortInv, NEW u \in Users \cap Tids, InTransfer(u), state[u] = "running"
    PROVE  Holds(u) /\ \A t \in Users : Advanced(t) => t = u
<1>1. Holds(u)
    BY DEF PortInv, TransferInv, Holds
<1>2. ASSUME NEW t \in Users, Advanced(t) PROVE t = u
  <2>1. Holds(t)
      BY <1>2 DEF PortInv, TransferInv
  <2>2. t \in Tids
      BY <2>1 DEF Holds, PortInv, Inv, TypeInv
  <2> QED BY <1>1, <2>1, <2>2 DEF PortInv, Inv, MutualExclusion
<1> QED BY <1>1, <1>2

(* The four accesses of a transfer: their place, and what they know. *)
Accesses(u) ==
    /\ u \in Tids /\ InTransfer(u) /\ Holds(u) /\ resid[u] \in 1..Count
    /\ \A t \in Users \ {u} : ~ Advanced(t) /\ at'[t] = at[t] /\ resid'[t] = resid[t]
                              /\ moved'[t] = moved[t]
    /\ UNCHANGED vars

LEMMA AccessFacts ==
    ASSUME PortInv, UartNext, NEW u \in Users,
           SendTest(u) \/ SendPut(u) \/ ReadTest(u) \/ ReadGet(u)
    PROVE  Accesses(u)
<1>1. u \in Tids /\ state[u] = "running" /\ UNCHANGED vars
    BY DEF SendTest, SendPut, ReadTest, ReadGet, Computes, CanCall, Runs, PortInv, Inv,
           TypeInv, RunningIsCurrent
<1>2. InTransfer(u)
    BY DEF SendTest, SendPut, ReadTest, ReadGet, Goes, InTransfer
<1>3. resid[u] \in 1..Count
    BY <1>2 DEF PortInv, TransferInv, UartType
<1>4. \A t \in Users \ {u} : at'[t] = at[t] /\ resid'[t] = resid[t] /\ moved'[t] = moved[t]
    BY DEF SendTest, SendPut, ReadTest, ReadGet, Goes, Transferred, PortInv, UartType
<1> QED BY <1>1, <1>2, <1>3, <1>4, OnlyUser DEF Accesses

LEMMA TypeStep ==
    ASSUME PortInv, UartNext
    PROVE  UartType'
<1> USE UartAssumption DEF PortInv, UartType, Places
<1>1. CASE Kernel
    BY <1>1 DEF Kernel, UnchangedPort
<1>2. CASE Transmit
  <2>1. txfifo # <<>> /\ wire' = Head(txfifo) /\ txfifo' = Tail(txfifo)
        /\ UNCHANGED <<at, resid, rxfifo, arrived, got, moved>>
      BY <1>2 DEF Transmit
  <2>2. Head(txfifo) \in TxElement /\ Tail(txfifo) \in Seq(TxElement)
        /\ Len(Tail(txfifo)) <= FIFO_SIZE
      BY <2>1
  <2>3. Head(txfifo) \in WireElement
      BY <2>2 DEF TxElement, WireElement
  <2> QED BY <2>1, <2>2, <2>3
<1>3. CASE Receive
    BY <1>3 DEF Receive
<1>4. ASSUME NEW t \in Users, NEW test \in {"txtest", "rxtest"}, Begin(t, test)
      PROVE  UartType'
    BY <1>4 DEF Begin, Goes, UnchangedPort
<1>5. ASSUME NEW t \in Users, SendTest(t) \/ SendPut(t) \/ ReadTest(t) \/ ReadGet(t)
      PROVE  UartType'
  <2>1. resid[t] \in 1..Count
      BY <1>5, AccessFacts DEF Accesses
  <2>2. CASE SendTest(t) \/ ReadTest(t)
      BY <2>2 DEF SendTest, ReadTest, Goes, UnchangedPort
  <2>3. CASE SendPut(t)
    <3> DEFINE element == [from |-> t, pos |-> Count - resid[t] + 1]
    <3>1. element \in TxElement
        BY <2>1 DEF TxElement
    <3>2. txfifo' = (IF Len(txfifo) = FIFO_SIZE THEN txfifo ELSE Append(txfifo, element))
          /\ Transferred(t, "txtest", ~ (Len(txfifo) = FIFO_SIZE))
          /\ UNCHANGED <<rxfifo, arrived, wire, got>>
        BY <2>3 DEF SendPut
    <3> HIDE DEF element
    <3>3. txfifo' \in Seq(TxElement) /\ Len(txfifo') <= FIFO_SIZE
        BY <3>1, <3>2
    <3> QED BY <2>1, <3>2, <3>3 DEF Transferred
  <2>4. CASE ReadGet(t)
    <3>1. got' \in Int /\ rxfifo' \in Seq(Int)
        BY <2>4 DEF ReadGet, Junk
    <3> QED BY <2>1, <2>4, <3>1 DEF ReadGet, Transferred
  <2> QED BY <1>5, <2>2, <2>3, <2>4
<1>6. ASSUME NEW t \in Users, Return(t) \/ YieldTurn(t)
      PROVE  UartType'
    BY <1>6 DEF Return, YieldTurn, Goes, UnchangedPort
<1> QED BY <1>1, <1>2, <1>3, <1>4, <1>5, <1>6, KernelIsNext

(* Nobody past mutex_lock is pushed back behind it. *)
LEMMA OthersKept ==
    ASSUME PortInv, UartNext, NEW t \in Users, t \in critical => t \in critical'
    PROVE  Holds(t) => Holds(t)'
<1>1. Holds(t) => t \in Tids /\ t \in critical
    BY DEF Holds, PortInv, Inv, TypeInv
<1> QED BY <1>1, HoldersKept, KernelIsNext DEF PortInv

(* What was tested still holds at the access, since only the holder of the
   mutex accesses the FIFOs. *)
LEMMA TransferStep ==
    ASSUME PortInv, UartNext
    PROVE  TransferInv'
<1> SUFFICES ASSUME NEW t \in Users
             PROVE  /\ InTransfer(t)' => t \in critical' /\ resid'[t] # 0
                    /\ Advanced(t)' => Holds(t)'
                    /\ at'[t] = "put" => Len(txfifo') < FIFO_SIZE
                    /\ at'[t] = "get" => rxfifo' # <<>>
    BY DEF TransferInv
<1>1. /\ InTransfer(t) => t \in critical /\ resid[t] # 0
      /\ Advanced(t) => Holds(t)
      /\ at[t] = "put" => Len(txfifo) < FIFO_SIZE
      /\ at[t] = "get" => rxfifo # <<>>
      /\ txfifo \in Seq(TxElement) /\ rxfifo \in Seq(Int)
      /\ FIFO_SIZE \in Nat \ {0} /\ Count \in Nat \ {0}
    BY UartAssumption DEF PortInv, TransferInv, UartType
<1>2. (t \in critical => t \in critical') => (Holds(t) => Holds(t)')
    BY OthersKept
(* A step that leaves t and the FIFOs alone. *)
<1>3. ASSUME UNCHANGED <<txfifo, rxfifo>>, at'[t] = at[t], resid'[t] = resid[t],
             t \in critical => t \in critical'
      PROVE  /\ InTransfer(t)' => t \in critical' /\ resid'[t] # 0
             /\ Advanced(t)' => Holds(t)'
             /\ at'[t] = "put" => Len(txfifo') < FIFO_SIZE
             /\ at'[t] = "get" => rxfifo' # <<>>
    BY <1>1, <1>2, <1>3 DEF InTransfer, Advanced
<1>4. CASE Kernel /\ UNCHANGED critical
    BY <1>3, <1>4 DEF Kernel, UnchangedPort
<1>5. CASE (Transmit \/ Receive) /\ UNCHANGED vars
  <2>1. UNCHANGED <<at, resid, critical>>
      BY <1>5 DEF Transmit, Receive, vars
  <2>2. Len(txfifo') <= Len(txfifo) /\ Len(txfifo) \in Nat /\ Len(txfifo') \in Nat
      BY <1>1, <1>5 DEF Transmit, Receive
  <2>3. rxfifo # <<>> => rxfifo' # <<>>
      BY <1>1, <1>5 DEF Transmit, Receive
  <2> QED BY <1>1, <1>2, <2>1, <2>2, <2>3 DEF InTransfer, Advanced
<1>6. ASSUME NEW u \in Users, NEW test \in {"txtest", "rxtest"},
             Begin(u, test), critical' = critical \cup {u}
      PROVE  /\ InTransfer(t)' => t \in critical' /\ resid'[t] # 0
             /\ Advanced(t)' => Holds(t)'
             /\ at'[t] = "put" => Len(txfifo') < FIFO_SIZE
             /\ at'[t] = "get" => rxfifo' # <<>>
  <2>1. CASE t = u
    <3>1. at'[t] = test /\ resid'[t] = Count
        BY <1>6, <2>1 DEF Begin, Goes, PortInv, UartType
    <3> QED BY <1>1, <1>6, <2>1, <3>1 DEF InTransfer, Advanced
  <2>2. CASE t # u
      BY <1>3, <1>6, <2>2 DEF Begin, Goes, UnchangedPort, PortInv, UartType
  <2> QED BY <2>1, <2>2
<1>7. ASSUME NEW u \in Users, SendTest(u) \/ SendPut(u) \/ ReadTest(u) \/ ReadGet(u)
      PROVE  /\ InTransfer(t)' => t \in critical' /\ resid'[t] # 0
             /\ Advanced(t)' => Holds(t)'
             /\ at'[t] = "put" => Len(txfifo') < FIFO_SIZE
             /\ at'[t] = "get" => rxfifo' # <<>>
  <2>1. Accesses(u) /\ Holds(u)' /\ u \in critical'
      BY <1>7, AccessFacts DEF Accesses, Holds, vars
  <2>2. CASE t # u
    <3>1. ~ Advanced(t) /\ at'[t] = at[t] /\ resid'[t] = resid[t] /\ UNCHANGED critical
        BY <2>1, <2>2 DEF Accesses, vars
    <3> QED BY <1>1, <3>1 DEF Advanced, InTransfer
  <2>3. CASE t = u /\ SendTest(u)
    <3>1. resid'[t] = resid[t] /\ UNCHANGED txfifo /\ at'[t] = "put" /\ Len(txfifo) < FIFO_SIZE
        BY <2>3 DEF SendTest, Goes, UnchangedPort, PortInv, UartType
    <3> QED BY <1>1, <2>1, <2>3, <3>1 DEF Accesses
  <2>4. CASE t = u /\ ReadTest(u)
    <3>1. resid'[t] = resid[t] /\ UNCHANGED rxfifo /\ at'[t] = "get" /\ rxfifo # <<>>
        BY <2>4 DEF ReadTest, Goes, UnchangedPort, PortInv, UartType
    <3> QED BY <1>1, <2>1, <2>4, <3>1 DEF Accesses
  <2>5. CASE t = u /\ (SendPut(u) \/ ReadGet(u))
    <3>1. /\ resid'[t] = resid[t] - 1
          /\ at'[t] \in {"txtest", "rxtest", "return"}
          /\ resid[t] = 1 => at'[t] = "return"
        BY <2>5 DEF SendPut, ReadGet, Transferred, PortInv, UartType
    <3> QED BY <2>1, <2>5, <3>1 DEF Accesses, InTransfer, Advanced
  <2> QED BY <1>7, <2>2, <2>3, <2>4, <2>5
<1>8. ASSUME NEW u \in Users, \/ Return(u) /\ critical' = critical \ {u}
                              \/ YieldTurn(u) /\ UNCHANGED critical
      PROVE  /\ InTransfer(t)' => t \in critical' /\ resid'[t] # 0
             /\ Advanced(t)' => Holds(t)'
             /\ at'[t] = "put" => Len(txfifo') < FIFO_SIZE
             /\ at'[t] = "get" => rxfifo' # <<>>
  <2>1. CASE t = u
    <3>1. at'[t] \in {"yield", "start"}
        BY <1>8, <2>1 DEF Return, YieldTurn, Goes, PortInv, UartType
    <3> QED BY <3>1 DEF InTransfer, Advanced
  <2>2. CASE t # u
      BY <1>3, <1>8, <2>2 DEF Return, YieldTurn, Goes, UnchangedPort, PortInv, UartType
  <2> QED BY <2>1, <2>2
<1> QED BY <1>4, <1>5, <1>6, <1>7, <1>8, KernelIsNext DEF PortInv

LEMMA CountStep ==
    ASSUME PortInv, UartNext
    PROVE  CountIsMoved'
<1> SUFFICES ASSUME NEW t \in Users PROVE Count - resid'[t] = moved'[t]
    BY DEF CountIsMoved
<1>1. Count - resid[t] = moved[t] /\ resid[t] \in Int /\ Count \in Int
    BY UartAssumption DEF PortInv, CountIsMoved, UartType
<1>2. CASE Kernel \/ Transmit \/ Receive
    BY <1>1, <1>2 DEF Kernel, Transmit, Receive
<1>3. ASSUME NEW u \in Users, NEW test \in {"txtest", "rxtest"}, Begin(u, test)
      PROVE  Count - resid'[t] = moved'[t]
    BY <1>1, <1>3 DEF Begin, PortInv, UartType
<1>4. ASSUME NEW u \in Users, SendTest(u) \/ ReadTest(u) \/ Return(u) \/ YieldTurn(u)
      PROVE  Count - resid'[t] = moved'[t]
    BY <1>1, <1>4 DEF SendTest, ReadTest, Return, YieldTurn
<1>5. ASSUME NEW u \in Users, SendPut(u) \/ ReadGet(u)
      PROVE  Count - resid'[t] = moved'[t]
  <2>1. CASE t # u
      BY <1>1, <1>5, <2>1, AccessFacts DEF Accesses
  <2>2. CASE t = u
    <3>1. CASE SendPut(u)
      <4>1. Len(txfifo) < FIFO_SIZE /\ Len(txfifo) \in Nat /\ FIFO_SIZE \in Nat
          BY <3>1, UartAssumption DEF SendPut, PortInv, TransferInv, UartType
      <4>2. Transferred(u, "txtest", TRUE)
        <5>1. ~ (Len(txfifo) = FIFO_SIZE)
            BY <4>1
        <5> QED BY <3>1, <5>1 DEF SendPut, Transferred
      <4> QED BY <1>1, <2>2, <4>2 DEF Transferred, PortInv, UartType
    <3>2. CASE ReadGet(u)
      <4>1. rxfifo # <<>>
          BY <3>2 DEF ReadGet, PortInv, TransferInv
      <4> QED BY <1>1, <2>2, <3>2, <4>1 DEF ReadGet, Transferred, PortInv, UartType
    <3> QED BY <1>5, <3>1, <3>2
  <2> QED BY <2>1, <2>2
<1> QED BY <1>2, <1>3, <1>4, <1>5, KernelIsNext DEF PortInv

(* A step that neither moves an element of the transmit FIFO nor begins or ends
   the elements of a transfer. *)
LEMMA MessageKept ==
    ASSUME PortInv, UNCHANGED <<txfifo, wire>>,
           \A t \in Users : (Sends(t)' <=> Sends(t)) /\ (Sends(t) => resid'[t] = resid[t])
    PROVE  MessageInv'
<1>1. LastPut' = LastPut
    BY DEF LastPut
<1>2. MessageInv
    BY DEF PortInv
<1>3. /\ (txfifo # <<>> => Continues(wire, txfifo[1]))'
      /\ (\A i \in 1..(Len(txfifo) - 1) : Continues(txfifo[i], txfifo[i + 1]))'
    BY <1>2 DEF MessageInv, Continues
<1>4. ASSUME NEW t \in Users, Sends(t)'
      PROVE  LastPut' = [from |-> t, pos |-> Count - resid'[t]]
    BY <1>1, <1>2, <1>4 DEF MessageInv
<1>5. ASSUME \A t \in Users : ~ Sends(t)'
      PROVE  (LastPut.pos)' = Count
    BY <1>1, <1>2, <1>5 DEF MessageInv
<1> QED BY <1>3, <1>4, <1>5 DEF MessageInv

(* The channel takes the oldest element of the chain ... *)
LEMMA MessageSent ==
    ASSUME PortInv, Transmit
    PROVE  MessageInv'
<1> DEFINE s == txfifo
<1>1. /\ s \in Seq(TxElement) /\ s # <<>> /\ MessageInv
      /\ wire' = s[1] /\ txfifo' = Tail(s) /\ UNCHANGED <<at, resid>>
    BY DEF PortInv, UartType, Transmit
<1>2. /\ Len(s) \in Nat /\ Len(s) >= 1 /\ Len(Tail(s)) = Len(s) - 1
      /\ \A i \in 1..(Len(s) - 1) : Tail(s)[i] = s[i + 1]
      /\ Tail(s) = <<>> <=> Len(s) = 1
  <2>1. Len(s) \in Nat /\ Len(s) >= 1
      BY <1>1
  <2>2. Tail(s) \in Seq(TxElement) /\ Len(Tail(s)) = Len(s) - 1
      BY <1>1
  <2>3. \A i \in 1..(Len(s) - 1) : Tail(s)[i] = s[i + 1]
      BY <1>1, <2>1
  <2>4. Tail(s) = <<>> <=> Len(Tail(s)) = 0
      BY <2>2, EmptySeq
  <2> QED BY <2>1, <2>2, <2>3, <2>4
<1>3. LastPut' = LastPut
  <2>1. CASE Len(s) = 1
      BY <1>1, <1>2, <2>1 DEF LastPut
  <2>2. CASE Len(s) # 1
    <3>1. Tail(s) # <<>> /\ Tail(s)[Len(s) - 1] = s[Len(s)]
        BY <1>2, <2>2
    <3> QED BY <1>1, <1>2, <3>1 DEF LastPut
  <2> QED BY <2>1, <2>2
<1>4. /\ txfifo' # <<>> => Continues(wire', txfifo'[1])
      /\ \A i \in 1..(Len(txfifo') - 1) : Continues(txfifo'[i], txfifo'[i + 1])
    BY <1>1, <1>2 DEF MessageInv
<1>5. \A t \in Users : (Sends(t)' <=> Sends(t)) /\ resid'[t] = resid[t]
    BY <1>1 DEF Sends
<1>6. ASSUME NEW t \in Users, Sends(t)'
      PROVE  LastPut' = [from |-> t, pos |-> Count - resid'[t]]
    BY <1>1, <1>3, <1>5, <1>6 DEF MessageInv
<1>7. ASSUME \A t \in Users : ~ Sends(t)'
      PROVE  (LastPut.pos)' = Count
    BY <1>1, <1>3, <1>5, <1>7 DEF MessageInv
<1> QED BY <1>4, <1>6, <1>7 DEF MessageInv, Continues

(* ... and the task whose turn it is continues it. *)
LEMMA MessagePut ==
    ASSUME PortInv, UartNext, NEW u \in Users, SendPut(u)
    PROVE  MessageInv'
<1> DEFINE s == txfifo
           e == [from |-> u, pos |-> Count - resid[u] + 1]
<1>1. /\ s \in Seq(TxElement) /\ Len(s) < FIFO_SIZE /\ MessageInv /\ wire \in WireElement
      /\ FIFO_SIZE \in Nat /\ Count \in Nat \ {0} /\ at[u] = "put"
      /\ at \in [Users -> Places] /\ resid \in [Users -> 0..Count]
    BY UartAssumption DEF PortInv, UartType, TransferInv, SendPut
<1>2. Accesses(u)
    BY AccessFacts
<1>3. txfifo' = Append(s, e) /\ wire' = wire /\ Transferred(u, "txtest", TRUE)
  <2>1. ~ (Len(s) = FIFO_SIZE)
      BY <1>1
  <2> QED BY <2>1 DEF SendPut, Transferred
<1>4. resid[u] \in 1..Count
    BY <1>2 DEF Accesses
<1>5. \A t \in Users \ {u} : ~ Sends(t) /\ ~ Sends(t)'
    BY <1>1, <1>2 DEF Accesses, Advanced, InTransfer, Sends
<1>6. Continues(LastPut, e)
  <2>1. CASE resid[u] < Count
    <3>1. LastPut = [from |-> u, pos |-> Count - resid[u]]
        BY <1>1, <2>1 DEF MessageInv, Sends
    <3>2. e = [LastPut EXCEPT !.pos = @ + 1] /\ e.pos # 1
        BY <1>1, <1>4, <2>1, <3>1
    <3> QED BY <3>2 DEF Continues
  <2>2. CASE resid[u] = Count
    <3>1. ~ Sends(u)
        BY <1>1, <2>2 DEF Sends
    <3>2. LastPut.pos = Count
        BY <1>1, <1>5, <3>1 DEF MessageInv
    <3>3. e.pos = 1
        BY <1>1, <2>2
    <3> QED BY <3>2, <3>3 DEF Continues
  <2> QED BY <1>1, <1>4, <2>1, <2>2
<1> HIDE DEF e
<1>7. /\ Len(Append(s, e)) = Len(s) + 1 /\ Append(s, e) # <<>> /\ Len(s) \in Nat
      /\ Append(s, e)[Len(s) + 1] = e
      /\ \A i \in 1..Len(s) : Append(s, e)[i] = s[i]
    BY <1>1
<1>8. LastPut' = e
    BY <1>3, <1>7 DEF LastPut
<1>9. txfifo' # <<>> => Continues(wire', txfifo'[1])
  <2>1. CASE s = <<>>
    <3>1. LastPut = wire /\ Append(s, e)[1] = e
        BY <1>1, <1>7, <2>1 DEF LastPut
    <3> QED BY <1>3, <1>6, <3>1
  <2>2. CASE s # <<>>
    <3>1. Append(s, e)[1] = s[1]
        BY <1>1, <1>7, <2>2
    <3> QED BY <1>1, <1>3, <2>2, <3>1 DEF MessageInv
  <2> QED BY <2>1, <2>2
<1>10. ASSUME NEW i \in 1..(Len(txfifo') - 1)
       PROVE  Continues(txfifo'[i], txfifo'[i + 1])
  <2>1. i \in 1..Len(s) /\ txfifo'[i] = s[i]
      BY <1>3, <1>7
  <2>2. CASE i = Len(s)
    <3>1. LastPut = s[i] /\ txfifo'[i + 1] = e
        BY <1>3, <1>7, <2>1, <2>2 DEF LastPut
    <3> QED BY <1>6, <2>1, <3>1
  <2>3. CASE i # Len(s)
    <3>1. txfifo'[i + 1] = s[i + 1] /\ i \in 1..(Len(s) - 1)
        BY <1>3, <1>7, <2>1, <2>3
    <3> QED BY <1>1, <2>1, <3>1 DEF MessageInv
  <2> QED BY <2>2, <2>3
<1>11. resid'[u] = resid[u] - 1 /\ at'[u] = IF resid[u] = 1 THEN "return" ELSE "txtest"
    BY <1>1, <1>3 DEF Transferred
<1>12. e.pos = Count - resid'[u] /\ e = [from |-> u, pos |-> Count - resid'[u]]
    BY <1>1, <1>4, <1>11 DEF e
<1>13. ASSUME NEW t \in Users, Sends(t)'
       PROVE  LastPut' = [from |-> t, pos |-> Count - resid'[t]]
  <2>1. t = u
      BY <1>5, <1>13
  <2> QED BY <1>8, <1>12, <2>1
<1>14. ASSUME \A t \in Users : ~ Sends(t)'
       PROVE  (LastPut.pos)' = Count
  <2>1. ~ (at'[u] \in {"txtest", "put"} /\ resid'[u] < Count)
      BY <1>14 DEF Sends
  <2>2. resid'[u] = 0
      BY <1>1, <1>4, <1>11, <2>1
  <2> QED BY <1>1, <1>8, <1>12, <2>2
<1> QED BY <1>9, <1>10, <1>13, <1>14 DEF MessageInv, Continues

LEMMA MessageStep ==
    ASSUME PortInv, UartNext
    PROVE  MessageInv'
<1>1. /\ at \in [Users -> Places] /\ resid \in [Users -> 0..Count] /\ Count \in Nat
    BY UartAssumption DEF PortInv, UartType
<1>2. CASE Kernel \/ Receive
  <2>1. UNCHANGED <<at, resid, txfifo, wire>>
      BY <1>2 DEF Kernel, Receive, UnchangedPort
  <2> QED BY <2>1, MessageKept DEF Sends
<1>3. ASSUME NEW u \in Users, NEW test \in {"txtest", "rxtest"}, Begin(u, test)
      PROVE  MessageInv'
  <2>1. /\ UNCHANGED <<txfifo, wire>> /\ ~ Sends(u) /\ ~ Sends(u)'
        /\ \A t \in Users \ {u} : at'[t] = at[t] /\ resid'[t] = resid[t]
      BY <1>1, <1>3 DEF Begin, Goes, UnchangedPort, Sends
  <2> QED BY <2>1, MessageKept DEF Sends
<1>4. ASSUME NEW u \in Users, SendTest(u) \/ ReadTest(u) \/ Return(u) \/ YieldTurn(u)
      PROVE  MessageInv'
  <2>1. UNCHANGED <<txfifo, wire, resid>>
      BY <1>4 DEF SendTest, ReadTest, Return, YieldTurn, UnchangedPort
  <2>2. \A t \in Users \ {u} : at'[t] = at[t]
      BY <1>1, <1>4 DEF SendTest, ReadTest, Return, YieldTurn, Goes
  <2>3. at'[u] \in {"txtest", "put"} <=> at[u] \in {"txtest", "put"}
      BY <1>1, <1>4 DEF SendTest, ReadTest, Return, YieldTurn, Goes
  <2> QED BY <2>1, <2>2, <2>3, MessageKept DEF Sends
<1>5. ASSUME NEW u \in Users, ReadGet(u)
      PROVE  MessageInv'
  <2>1. /\ UNCHANGED <<txfifo, wire>> /\ ~ Sends(u) /\ ~ Sends(u)'
        /\ \A t \in Users \ {u} : at'[t] = at[t] /\ resid'[t] = resid[t]
      BY <1>1, <1>5 DEF ReadGet, Transferred, Sends
  <2> QED BY <2>1, MessageKept DEF Sends
<1> QED BY <1>2, <1>3, <1>4, <1>5, MessageSent, MessagePut, KernelIsNext DEF PortInv

(* The channel numbers what it receives, and the holder of the mutex takes the
   numbers in turn. *)
LEMMA LabelStep ==
    ASSUME PortInv, UartNext
    PROVE  LabelInv'
<1> DEFINE r == rxfifo
<1>1. /\ r \in Seq(Int) /\ Len(r) \in Nat /\ (r = <<>> <=> Len(r) = 0)
      /\ got \in Int /\ arrived \in Int /\ LabelInv
    BY EmptySeq DEF PortInv, UartType
<1>2. CASE UNCHANGED <<rxfifo, arrived, got>>
    BY <1>1, <1>2 DEF LabelInv, LastReceived
<1>3. CASE Receive
  <2> DEFINE e == After(arrived)
  <2>1. rxfifo' = Append(r, e) /\ arrived' = e /\ got' = got /\ e = After(LastReceived)
      BY <1>1, <1>3 DEF Receive, After, LabelInv
  <2>2. e \in Int
      BY <1>1, UartAssumption DEF After
  <2> HIDE DEF e
  <2>3. /\ Len(Append(r, e)) = Len(r) + 1 /\ Append(r, e) # <<>>
        /\ Append(r, e)[Len(r) + 1] = e
        /\ \A i \in 1..Len(r) : Append(r, e)[i] = r[i]
      BY <1>1, <2>2
  <2>4. rxfifo'[1] = After(got')
    <3>1. CASE r = <<>>
        BY <1>1, <2>1, <2>3, <3>1 DEF LastReceived
    <3>2. CASE r # <<>>
        BY <1>1, <2>1, <2>3, <3>2 DEF LabelInv
    <3> QED BY <3>1, <3>2
  <2>5. ASSUME NEW i \in 1..(Len(rxfifo') - 1)
        PROVE  rxfifo'[i + 1] = After(rxfifo'[i])
    <3>1. i \in 1..Len(r) /\ rxfifo'[i] = r[i] /\ r # <<>>
        BY <1>1, <2>1, <2>3
    <3>2. CASE i = Len(r)
        BY <2>1, <2>3, <3>1, <3>2 DEF LastReceived
    <3>3. CASE i # Len(r)
      <4>1. rxfifo'[i + 1] = r[i + 1] /\ i \in 1..(Len(r) - 1)
          BY <1>1, <2>1, <2>3, <3>1, <3>3
      <4> QED BY <1>1, <3>1, <4>1 DEF LabelInv
    <3> QED BY <3>2, <3>3
  <2>6. LastReceived' = e
      BY <2>1, <2>3 DEF LastReceived
  <2> QED BY <2>1, <2>4, <2>5, <2>6 DEF LabelInv, After
<1>4. ASSUME NEW u \in Users, ReadGet(u)
      PROVE  LabelInv'
  <2>1. r # <<>>
      BY <1>4 DEF ReadGet, PortInv, TransferInv
  <2>2. got' = r[1] /\ rxfifo' = Tail(r) /\ arrived' = arrived
      BY <1>1, <1>4, <2>1 DEF ReadGet
  <2>3. Tail(r) \in Seq(Int) /\ Len(Tail(r)) = Len(r) - 1 /\ Len(r) >= 1
      BY <1>1, <2>1
  <2>4. \A i \in 1..(Len(r) - 1) : Tail(r)[i] = r[i + 1]
      BY <1>1, <2>1, <2>3
  <2>5. Tail(r) = <<>> <=> Len(r) = 1
    <3>1. Tail(r) = <<>> <=> Len(Tail(r)) = 0
        BY <2>3, EmptySeq
    <3> QED BY <1>1, <2>3, <3>1
  <2>6. rxfifo' # <<>> => rxfifo'[1] = After(got')
      BY <1>1, <2>2, <2>3, <2>4, <2>5 DEF LabelInv
  <2>7. \A i \in 1..(Len(rxfifo') - 1) : rxfifo'[i + 1] = After(rxfifo'[i])
      BY <1>1, <2>2, <2>3, <2>4 DEF LabelInv
  <2>8. LastReceived' = LastReceived
    <3>1. CASE Len(r) = 1
        BY <2>1, <2>2, <2>5, <3>1 DEF LastReceived
    <3>2. CASE Len(r) # 1
      <4>1. Tail(r) # <<>> /\ Tail(r)[Len(r) - 1] = r[Len(r)]
          BY <1>1, <2>3, <2>4, <2>5, <3>2
      <4> QED BY <2>1, <2>2, <2>3, <4>1 DEF LastReceived
    <3> QED BY <3>1, <3>2
  <2>9. arrived' = LastReceived'
      BY <1>1, <2>2, <2>8 DEF LabelInv
  <2> QED BY <2>6, <2>7, <2>9 DEF LabelInv, After
<1>5. CASE Kernel \/ Transmit
    BY <1>2, <1>5 DEF Kernel, Transmit, UnchangedPort
<1>6. ASSUME NEW u \in Users, NEW test \in {"txtest", "rxtest"}, Begin(u, test)
      PROVE  LabelInv'
    BY <1>2, <1>6 DEF Begin, UnchangedPort
<1>7. ASSUME NEW u \in Users,
             SendTest(u) \/ SendPut(u) \/ ReadTest(u) \/ Return(u) \/ YieldTurn(u)
      PROVE  LabelInv'
    BY <1>2, <1>7 DEF SendTest, SendPut, ReadTest, Return, YieldTurn, UnchangedPort
<1> QED BY <1>3, <1>4, <1>5, <1>6, <1>7, KernelIsNext DEF PortInv

-----------------------------------------------------------------------------
(* The state of the port, of its users and of the FIFOs is never anything but
   what PortInv says: a user in the middle of a transfer holds the mutex, what
   it tested still holds, and both FIFOs continue what left them. *)
THEOREM PortSpecInv == UartSpec => []PortInv
<1>1. UartInit => PortInv
  <2> SUFFICES ASSUME UartInit PROVE PortInv
      OBVIOUS
  <2>1. Inv
      BY InitInv DEF UartInit
  <2>2. /\ at = [t \in Users |-> "start"] /\ resid = [t \in Users |-> 0]
        /\ moved = [t \in Users |-> Count]
        /\ txfifo = <<>> /\ rxfifo = <<>> /\ arrived = 0 /\ got = 0
        /\ wire = [from |-> 0, pos |-> Count]
        /\ Count \in Nat \ {0} /\ FIFO_SIZE \in Nat \ {0}
      BY UartAssumption DEF UartInit
  <2>3. UartType
    <3>1. <<>> \in Seq(TxElement) /\ <<>> \in Seq(Int) /\ Len(<<>>) = 0
        BY EmptySeq
    <3>2. wire \in WireElement
        BY <2>2 DEF WireElement
    <3> QED BY <2>2, <3>1, <3>2 DEF UartType, Places
  <2>4. \A t \in Users : at[t] = "start"
      BY <2>2
  <2>5. TransferInv
      BY <2>4 DEF TransferInv, InTransfer, Advanced
  <2>6. CountIsMoved
      BY <2>2 DEF CountIsMoved
  <2>7. MessageInv
    <3>1. Len(txfifo) = 0 /\ LastPut = wire /\ \A t \in Users : ~ Sends(t)
        BY <2>2, <2>4, EmptySeq DEF LastPut, Sends
    <3> QED BY <2>2, <3>1 DEF MessageInv
  <2>8. LabelInv
    <3>1. Len(rxfifo) = 0 /\ LastReceived = got
        BY <2>2, EmptySeq DEF LastReceived
    <3> QED BY <2>2, <3>1 DEF LabelInv
  <2> QED BY <2>1, <2>3, <2>5, <2>6, <2>7, <2>8 DEF PortInv
<1>2. PortInv /\ [UartNext]_uvars => PortInv'
  <2>1. CASE UNCHANGED uvars
    <3>1. UNCHANGED <<at, resid, txfifo, rxfifo, arrived, wire, got, moved>> /\ UNCHANGED vars
        BY <2>1 DEF uvars
    <3>2. UNCHANGED <<state, critical>>
        BY <3>1 DEF vars
    <3>3. PortInv => Inv'
        BY <3>1, NextInv DEF PortInv
    <3>4. PortInv => UartType' /\ CountIsMoved'
        BY <3>1 DEF PortInv, UartType, CountIsMoved
    <3>5. PortInv => TransferInv'
        BY <3>1, <3>2 DEF PortInv, TransferInv, InTransfer, Advanced, Holds
    <3>6. PortInv => MessageInv' /\ LabelInv'
        BY <3>1 DEF PortInv, MessageInv, LabelInv, Sends, LastPut, Continues, LastReceived,
                    After
    <3> QED BY <3>3, <3>4, <3>5, <3>6 DEF PortInv
  <2>2. PortInv /\ UartNext => Inv'
      BY KernelIsNext DEF PortInv
  <2> QED BY <2>1, <2>2, TypeStep, TransferStep, CountStep, MessageStep, LabelStep DEF PortInv
<1> QED BY <1>1, <1>2, PTL DEF UartSpec

(* What dev_write and dev_read return is what the channel took or gave: no
   element is dropped by a FIFO that filled up, or read from one that emptied,
   between the test and the access. *)
THEOREM CountIsMovedAlways == UartSpec => []CountIsMoved
<1>1. PortInv => CountIsMoved
    BY DEF PortInv
<1> QED BY <1>1, PortSpecInv, PTL

(* Only Transmit takes elements from the transmit FIFO, and the one it takes
   continues the message on the wire. *)
THEOREM WholeMessagesAlways == UartSpec => WholeMessages
<1>1. ASSUME PortInv, UartNext, Len(txfifo') < Len(txfifo)
      PROVE  Continues(wire, wire')
  <2>1. txfifo \in Seq(TxElement) /\ Len(txfifo) \in Nat
      BY <1>1 DEF PortInv, UartType
  <2>2. UNCHANGED txfifo => FALSE
      BY <1>1, <2>1
  <2>3. ASSUME NEW u \in Users, SendPut(u) PROVE FALSE
    <3> DEFINE e == [from |-> u, pos |-> Count - resid[u] + 1]
    <3>1. txfifo' = txfifo \/ txfifo' = Append(txfifo, e)
        BY <2>3 DEF SendPut
    <3> HIDE DEF e
    <3>2. Len(Append(txfifo, e)) = Len(txfifo) + 1
        BY <2>1
    <3> QED BY <1>1, <2>1, <3>1, <3>2
  <2>4. ASSUME NEW u \in Users,
               SendTest(u) \/ ReadTest(u) \/ ReadGet(u) \/ Return(u) \/ YieldTurn(u)
        PROVE  UNCHANGED txfifo
      BY <2>4 DEF SendTest, ReadTest, ReadGet, Return, YieldTurn, UnchangedPort
  <2>5. ASSUME NEW u \in Users, NEW test \in {"txtest", "rxtest"}, Begin(u, test)
        PROVE  UNCHANGED txfifo
      BY <2>5 DEF Begin, UnchangedPort
  <2>6. Kernel \/ Receive => UNCHANGED txfifo
      BY DEF Kernel, Receive, UnchangedPort
  <2>7. Transmit
      BY <1>1, <2>2, <2>3, <2>4, <2>5, <2>6, KernelIsNext DEF PortInv
  <2>8. txfifo # <<>> /\ wire' = txfifo[1]
      BY <2>1, <2>7 DEF Transmit
  <2> QED BY <1>1, <2>8 DEF PortInv, MessageInv
<1>2. ASSUME PortInv, [UartNext]_uvars
      PROVE  [Len(txfifo') < Len(txfifo)
                => IF wire'.pos = 1 THEN wire.pos = Count
                   ELSE wire' = [wire EXCEPT !.pos = @ + 1]]_uvars
    BY <1>1, <1>2 DEF Continues
<1> QED BY <1>2, PortSpecInv, PTL DEF UartSpec, WholeMessages

(* A reader that leaves its access has taken the element that follows the last
   one read, by itself or by another reader. *)
THEOREM ReadsInOrderAlways == UartSpec => ReadsInOrder
<1>1. ASSUME PortInv, UartNext, NEW t \in Readers, at[t] = "get", at'[t] # "get"
      PROVE  got' = After(got)
  <2>1. /\ t \in Users /\ at \in [Users -> Places] /\ rxfifo \in Seq(Int) /\ rxfifo # <<>>
        /\ LabelInv
      BY <1>1 DEF PortInv, UartType, TransferInv, Users
  <2>2. ASSUME NEW u \in Users,
               \/ SendTest(u) \/ SendPut(u) \/ ReadTest(u) \/ Return(u) \/ YieldTurn(u)
               \/ \E test \in {"txtest", "rxtest"} : Begin(u, test)
        PROVE  at'[t] = at[t]
    <3>1. at[u] # "get"
        BY <2>2 DEF SendTest, SendPut, ReadTest, Return, YieldTurn, Begin, Goes
    <3>2. t # u
        BY <1>1, <3>1
    <3> QED BY <2>1, <2>2, <3>2 DEF SendTest, SendPut, ReadTest, Return, YieldTurn, Begin,
                                    Goes, Transferred
  <2>3. Kernel \/ Transmit \/ Receive => at'[t] = at[t]
      BY DEF Kernel, Transmit, Receive
  <2>4. PICK u \in Users : ReadGet(u)
      BY <1>1, <2>2, <2>3, KernelIsNext DEF PortInv
  <2>5. got' = rxfifo[1]
      BY <2>1, <2>4 DEF ReadGet
  <2> QED BY <2>1, <2>5 DEF LabelInv
<1>2. ASSUME PortInv, [UartNext]_uvars
      PROVE  [\A t \in Readers : at[t] = "get" /\ at'[t] # "get"
                                    => got' = (got + 1) % Labels]_uvars
    BY <1>1, <1>2 DEF After, uvars
<1> QED BY <1>2, PortSpecInv, PTL DEF UartSpec, ReadsInOrder
=============================================================================
