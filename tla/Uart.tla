-------------------------------- MODULE Uart --------------------------------
(***************************************************************************)
(* Tasks of Scheduler that use the serial port through sys_write and       *)
(* sys_read: dev_write and dev_read, the loops of usic_uart_write and      *)
(* usic_uart_read, and the two FIFOs of the USIC channel.  A driver tests  *)
(* a FIFO and accesses it in two steps, and any preemption may separate    *)
(* them.  A printf of Count characters is Count calls of sys_write(1): its *)
(* steps are those of one call with Count elements.                        *)
(***************************************************************************)
EXTENDS Scheduler, Sequences

CONSTANTS
    FIFO_SIZE,         \* words of each FIFO (XMC_USIC_CH_FIFO_SIZE_16WORDS)
    Count,             \* elements of every transfer
    Writers, Readers,  \* tasks that write, tasks that read
    Labels             \* received elements are numbered modulo Labels

ASSUME UartAssumption ==
    /\ FIFO_SIZE \in Nat \ {0} /\ Count \in Nat \ {0}
    /\ Labels \in Nat /\ Labels > FIFO_SIZE
    /\ Writers \cup Readers \subseteq 1..OS_Tasks

VARIABLES
    at,        \* at[t]: where t is in its transfer
    resid,     \* resid[t]: uio.uio_resid
    txfifo, rxfifo,
    arrived,   \* label of the last element that entered rxfifo
    wire,      \* history: the last element that left txfifo
    got,       \* history: the last element a task has read
    moved      \* history: elements of t's transfer that the channel took or gave

uvars == <<vars, at, resid, txfifo, rxfifo, arrived, wire, got, moved>>

Users == Writers \cup Readers
Junk == -1   \* what the channel returns for an empty rxfifo

UartInit ==
    /\ Init
    /\ at = [t \in Users |-> "start"] /\ resid = [t \in Users |-> 0]
    /\ txfifo = <<>> /\ rxfifo = <<>>
    /\ arrived = 0 /\ got = 0
    /\ wire = [from |-> 0, pos |-> Count]
    /\ moved = [t \in Users |-> Count]

Goes(t, c, d) == at[t] = c /\ at' = [at EXCEPT ![t] = d]

(* A step of t in thread mode that makes no system call. *)
Computes(t) == CanCall(t) /\ UNCHANGED vars

UnchangedPort == UNCHANGED <<txfifo, rxfifo, arrived, wire, got>>

(* mutex_lock, and the call of sys_write or sys_read once the task has the mutex. *)
Begin(t, test) ==
    /\ MutexLockFree(t) \/ MutexLockBusy(t)
    /\ Goes(t, "start", test)
    /\ resid' = [resid EXCEPT ![t] = Count]
    /\ moved' = [moved EXCEPT ![t] = 0]
    /\ UnchangedPort

(* One element less to transfer, moved or not; the call returns after the last. *)
Transferred(t, test, done) ==
    /\ moved' = [moved EXCEPT ![t] = IF done THEN @ + 1 ELSE @]
    /\ resid' = [resid EXCEPT ![t] = @ - 1]
    /\ at' = [at EXCEPT ![t] = IF resid[t] = 1 THEN "return" ELSE test]

(* Faulty variant: a full FIFO is not waited for. *)
SendTestNot(t) ==
    /\ Computes(t) /\ Goes(t, "txtest", "put")
    /\ UnchangedPort /\ UNCHANGED <<resid, moved>>

(* _usic_uart_send: wait while the FIFO is full ... *)
SendTest(t) ==
    /\ Computes(t) /\ Goes(t, "txtest", "put")
    /\ Len(txfifo) < FIFO_SIZE
    /\ UnchangedPort /\ UNCHANGED <<resid, moved>>

(* ... then put the element, which a FIFO that is full again drops. *)
SendPut(t) ==
    LET element == [from |-> t, pos |-> Count - resid[t] + 1]
        full == Len(txfifo) = FIFO_SIZE
    IN  /\ Computes(t) /\ at[t] = "put"
        /\ txfifo' = IF full THEN txfifo ELSE Append(txfifo, element)
        /\ Transferred(t, "txtest", ~full)
        /\ UNCHANGED <<rxfifo, arrived, wire, got>>

(* _usic_uart_read: wait while the FIFO is empty ... *)
ReadTest(t) ==
    /\ Computes(t) /\ Goes(t, "rxtest", "get")
    /\ rxfifo # <<>>
    /\ UnchangedPort /\ UNCHANGED <<resid, moved>>

(* Faulty variant: the element stays in the FIFO. *)
ReadGetKeeps(t) ==
    /\ Computes(t) /\ at[t] = "get"
    /\ got' = IF rxfifo = <<>> THEN Junk ELSE Head(rxfifo)
    /\ Transferred(t, "rxtest", rxfifo # <<>>)
    /\ UNCHANGED <<txfifo, rxfifo, arrived, wire>>

(* ... then take its oldest element, if there still is one. *)
ReadGet(t) ==
    /\ Computes(t) /\ at[t] = "get"
    /\ got' = IF rxfifo = <<>> THEN Junk ELSE Head(rxfifo)
    /\ rxfifo' = IF rxfifo = <<>> THEN rxfifo ELSE Tail(rxfifo)
    /\ Transferred(t, "rxtest", rxfifo # <<>>)
    /\ UNCHANGED <<txfifo, arrived, wire>>

(* The call returns, and mutex_unlock. *)
Return(t) ==
    /\ MutexUnlock(t)
    /\ Goes(t, "return", "yield")
    /\ UnchangedPort /\ UNCHANGED <<resid, moved>>

YieldTurn(t) ==
    /\ Yield(t) /\ Goes(t, "yield", "start")
    /\ UnchangedPort /\ UNCHANGED <<resid, moved>>

(* The channel sends the oldest element, and receives one, which a full FIFO
   drops. *)
Transmit ==
    /\ txfifo # <<>>
    /\ wire' = Head(txfifo) /\ txfifo' = Tail(txfifo)
    /\ UNCHANGED <<vars, at, resid, rxfifo, arrived, got, moved>>

Receive ==
    /\ Len(rxfifo) < FIFO_SIZE
    /\ arrived' = (arrived + 1) % Labels
    /\ rxfifo' = Append(rxfifo, arrived')
    /\ UNCHANGED <<vars, at, resid, txfifo, wire, got, moved>>

Kernel == (Elapse \/ SysTick \/ IdleStep) /\ UnchangedPort /\ UNCHANGED <<at, resid, moved>>

UartNext ==
    \/ Kernel \/ Transmit \/ Receive
    \/ \E t \in Writers : Begin(t, "txtest")
    \/ \E t \in Readers : Begin(t, "rxtest")
    \/ \E t \in Users : SendTest(t) \/ SendPut(t) \/ ReadTest(t) \/ ReadGet(t)
                        \/ Return(t) \/ YieldTurn(t)

UartSpec == UartInit /\ [][UartNext]_uvars

-----------------------------------------------------------------------------
(* dev_write and dev_read return count - uio_resid, "Number of elements
   successfully written" or read: every element the drivers count was moved,
   so no other task has used up the FIFO between a test and its access. *)
CountIsMoved == \A t \in Users : Count - resid[t] = moved[t]

(* A message leaves the port whole: the elements of one transfer in order,
   before those of another. *)
WholeMessages ==
    [][Len(txfifo') < Len(txfifo)
         => IF wire'.pos = 1 THEN wire.pos = Count
            ELSE wire' = [wire EXCEPT !.pos = @ + 1]]_uvars

(* The received elements reach the readers once each and in order, and never
   one that was not received. *)
ReadsInOrder ==
    [][\A t \in Readers : at[t] = "get" /\ at'[t] # "get"
                           => got' = (got + 1) % Labels]_uvars
=============================================================================
