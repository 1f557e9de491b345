------------------------------- MODULE Clock -------------------------------
(***************************************************************************)
(* The real-time clock: the two ioctls of ds1307.c over the I2C driver     *)
(* dev/i2c/ifx_usic.c, in the order of uart_task: the time is set once,    *)
(* then read again and again.  The driver puts words into the transmit     *)
(* FIFO of the USIC channel, which carries them out at the pace of the     *)
(* bus, long after the call that put them may have returned.               *)
(***************************************************************************)
EXTENDS Integers, Sequences

CONSTANTS
    Times,      \* values of struct tm
    DayBytes,   \* what the byte of the stack may hold that is never written
    FIFO_SIZE   \* words of the transmit FIFO (XMC_USIC_CH_FIFO_SIZE_16WORDS)

Fields == {"tm_sec", "tm_min", "tm_hour", "tm_mday", "tm_mon", "tm_year"}
Registers == 0..6

ASSUME ClockAssumption ==
    /\ Times \subseteq [Fields -> 0..79] /\ Times # {}
    /\ DayBytes \subseteq 0..255 /\ DayBytes # {} /\ FIFO_SIZE \in Nat \ {0}

VARIABLES
    at,        \* where the driver is, or "none" between two calls
    call,      \* "set" or "get": the ioctl in progress, or the last one
    bytes,     \* buf: the bytes still to write, or the bytes read so far
    resid,     \* uio.uio_resid
    time_data, \* the struct tm of the last call
    txfifo, rxfifo,
    rx,        \* RECEIVE_INDICATION of the channel
    regs,      \* the registers of the clock
    pointer,   \* its register pointer, or NoPointer after its address
    selected,  \* it is addressed: it shows a snapshot of the time
    started,   \* history: the time at the start of the last read
    lost       \* history: a word was put into a full FIFO

driver == <<at, call, bytes, resid, time_data>>
clock == <<regs, pointer, selected, started>>
cvars == <<driver, txfifo, rxfifo, rx, clock, lost>>

NoPointer == -1

(* The clock keeps two decimal digits in a register, and the day of the week
   in register 3. *)
Digits(b) == (b \div 16) * 10 + (b % 16)

Time(r) == [tm_sec |-> Digits(r[0]), tm_min |-> Digits(r[1]), tm_hour |-> Digits(r[2]),
            tm_mday |-> Digits(r[4]), tm_mon |-> Digits(r[5]), tm_year |-> Digits(r[6])]

-----------------------------------------------------------------------------
_decimal_BCD(v) == (v % 10) + ((v \div 10) % 16) * 16

(* Faulty variant: the mask of the hours, for every field. *)
_BCD_decimalHours(v) == (v % 16) + 10 * ((v \div 16) % 4)

_BCD_decimal(v) == (v % 16) + 10 * ((v \div 16) % 8)

(* Faulty variant: the registers of the date follow those of the time. *)
TimeBytesDense(t, day) ==
    <<0, _decimal_BCD(t.tm_sec), _decimal_BCD(t.tm_min), _decimal_BCD(t.tm_hour),
      _decimal_BCD(t.tm_mday), _decimal_BCD(t.tm_mon), _decimal_BCD(t.tm_year), day>>

(* RTC_IOCTL_SET_TIME: the register address, then the registers from there; the
   byte of the day of the week is never written. *)
TimeBytes(t, day) ==
    <<0, _decimal_BCD(t.tm_sec), _decimal_BCD(t.tm_min), _decimal_BCD(t.tm_hour), day,
      _decimal_BCD(t.tm_mday), _decimal_BCD(t.tm_mon), _decimal_BCD(t.tm_year)>>

(* RTC_IOCTL_GET_TIME: struct tm from the registers from 0 on. *)
TimeOf(b) ==
    [tm_sec |-> _BCD_decimal(b[1]), tm_min |-> _BCD_decimal(b[2]), tm_hour |-> _BCD_decimal(b[3]),
     tm_mday |-> _BCD_decimal(b[5]), tm_mon |-> _BCD_decimal(b[6]), tm_year |-> _BCD_decimal(b[7])]

Init ==
    /\ at = "none" /\ call = "none" /\ bytes = <<>> /\ resid = 0
    /\ time_data \in Times
    /\ txfifo = <<>> /\ rxfifo = <<>> /\ rx = FALSE
    /\ regs = [a \in Registers |-> 1]
    /\ pointer = 0 /\ selected = FALSE
    /\ started = Time(regs) /\ lost = FALSE

Goes(from, to) == at = from /\ at' = to

(* XMC_I2C_CH_Master...: a word, which a full FIFO drops. *)
Put(word) ==
    /\ txfifo' = IF Len(txfifo) < FIFO_SIZE THEN Append(txfifo, word) ELSE txfifo
    /\ lost' = (lost \/ Len(txfifo) = FIFO_SIZE)

UnchangedBus == UNCHANGED <<rxfifo, rx, clock>>
UnchangedChannel == UNCHANGED <<txfifo, lost>> /\ UnchangedBus

(* ds1307_rtc_ioctl, up to dev_write. *)
SetTime(day) ==
    /\ Goes("none", "wstart") /\ call = "none" /\ call' = "set"
    /\ bytes' = TimeBytes(time_data, day) /\ resid' = 8
    /\ UNCHANGED time_data /\ UnchangedChannel

GetTime ==
    /\ Goes("none", "wstart") /\ call # "none" /\ call' = "get"
    /\ bytes' = <<0>> /\ resid' = 1
    /\ UNCHANGED time_data /\ UnchangedChannel

(* usic_i2c_write: start, and poll for an acknowledge, which may be one of an
   earlier byte, at most 200 times.  The driver goes on in any case. *)
WriteStart ==
    /\ Goes("wstart", "ack") /\ Put([kind |-> "write"])
    /\ UNCHANGED <<call, bytes, resid, time_data>> /\ UnchangedBus

AckOrTimeout ==
    /\ Goes("ack", "send")
    /\ UNCHANGED <<call, bytes, resid, time_data>> /\ UnchangedChannel

(* _usic_i2c_send *)
Send ==
    /\ at = "send" /\ resid > 0 /\ Len(txfifo) < FIFO_SIZE
    /\ Put([kind |-> "data", byte |-> Head(bytes)])
    /\ bytes' = Tail(bytes) /\ resid' = resid - 1
    /\ UNCHANGED <<at, call, time_data>> /\ UnchangedBus

WriteStop ==
    /\ resid = 0 /\ Goes("send", IF call = "set" THEN "none" ELSE "rstart")
    /\ Put([kind |-> "stop"])
    /\ UNCHANGED <<call, bytes, resid, time_data>> /\ UnchangedBus

(* usic_i2c_read of the seven registers, a byte at a time. *)
ReadStart ==
    /\ Goes("rstart", "receive") /\ Put([kind |-> "read"])
    /\ resid' = 7
    /\ UNCHANGED <<call, bytes, time_data>> /\ UnchangedBus

(* Faulty variants: every byte is asked for before the first is awaited; the
   last byte is not asked for. *)
ReceiveAhead ==
    /\ at = "receive" /\ resid > 0 /\ Put([kind |-> "receive"])
    /\ resid' = resid - 1
    /\ UNCHANGED <<at, call, bytes, time_data>> /\ UnchangedBus

ReceiveButLast ==
    /\ resid > 0 /\ Goes("receive", "wait")
    /\ IF resid > 1 THEN Put([kind |-> "receive"]) ELSE UNCHANGED <<txfifo, lost>>
    /\ UNCHANGED <<call, bytes, resid, time_data>> /\ UnchangedBus

Receive ==
    /\ resid > 0 /\ Goes("receive", "wait") /\ Put([kind |-> "receive"])
    /\ UNCHANGED <<call, bytes, resid, time_data>> /\ UnchangedBus

Received ==
    /\ rx /\ Goes("wait", "receive")
    /\ rx' = FALSE /\ rxfifo' = Tail(rxfifo)
    /\ bytes' = Append(bytes, Head(rxfifo)) /\ resid' = resid - 1
    /\ UNCHANGED <<call, time_data, txfifo, clock, lost>>

ReadStop ==
    /\ resid = 0 /\ Goes("receive", "none") /\ Put([kind |-> "stop"])
    /\ time_data' = TimeOf(bytes)
    /\ bytes' = <<>>
    /\ UNCHANGED <<call, resid>> /\ UnchangedBus

-----------------------------------------------------------------------------
(* The channel carries out the oldest word.  The first byte that the clock gets
   after its address is the register pointer. *)
Shift ==
    LET word == Head(txfifo)
        next == (pointer + 1) % 7
    IN  /\ txfifo # <<>> /\ txfifo' = Tail(txfifo)
        /\ rx' = (rx \/ word.kind = "receive")
        /\ rxfifo' = IF word.kind = "receive" THEN Append(rxfifo, regs[pointer]) ELSE rxfifo
        /\ regs' = IF word.kind = "data" /\ pointer # NoPointer
                   THEN [regs EXCEPT ![pointer] = word.byte] ELSE regs
        /\ pointer' = CASE word.kind = "write" -> NoPointer
                        [] word.kind = "data" /\ pointer = NoPointer -> word.byte
                        [] word.kind \in {"data", "receive"} /\ pointer # NoPointer -> next
                        [] OTHER -> pointer
        /\ selected' = (word.kind # "stop")
        /\ started' = IF word.kind = "read" THEN Time(regs) ELSE started
        /\ UNCHANGED <<driver, lost>>

(* The registers of a time, for any day of the week. *)
Registered(t, day) ==
    LET digits(v) == (v \div 10) * 16 + (v % 10)
    IN  [a \in Registers |-> CASE a = 0 -> digits(t.tm_sec) [] a = 1 -> digits(t.tm_min)
                               [] a = 2 -> digits(t.tm_hour) [] a = 3 -> day
                               [] a = 4 -> digits(t.tm_mday) [] a = 5 -> digits(t.tm_mon)
                               [] OTHER -> digits(t.tm_year)]

(* Time passes, but for the snapshot of a clock that is addressed. *)
Tick ==
    /\ ~selected
    /\ \E t \in Times : regs' = Registered(t, regs[3])
    /\ UNCHANGED <<driver, txfifo, rxfifo, rx, pointer, selected, started, lost>>

Ioctl ==
    \/ WriteStart \/ AckOrTimeout \/ Send \/ WriteStop
    \/ ReadStart \/ Receive \/ Received \/ ReadStop

Next == (\E day \in DayBytes : SetTime(day)) \/ GetTime \/ Ioctl \/ Shift \/ Tick

Spec == Init /\ [][Next]_cvars

(* The calling task is scheduled, and the bus moves. *)
FairSpec == Spec /\ WF_cvars(Ioctl) /\ WF_cvars(Shift)

-----------------------------------------------------------------------------
(* RTC_IOCTL_GET_TIME returns the time of the clock at the start of its read,
   field by field, whatever was still in the FIFO when the call began. *)
ReadsClock ==
    [][at = "receive" /\ at' = "none" => time_data' = started]_cvars

(* RTC_IOCTL_SET_TIME: once the bus has carried its last byte, the clock shows
   the time of the call, every field in its register. *)
SetsClock ==
    [][pointer = 6 /\ txfifo # <<>> /\ Head(txfifo).kind = "data" /\ txfifo' = Tail(txfifo)
        => Time(regs') = time_data]_cvars

(* The words that are put without a test of the FIFO always find room, although
   the clock may be read while the bus still sets it. *)
NoWordLost == ~lost

(* RTC_IOCTL_GET_TIME returns, whether or not the acknowledge came in time. *)
GetReturns == at = "rstart" ~> at = "none"
=============================================================================
