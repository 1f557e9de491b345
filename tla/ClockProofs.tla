---------------------------- MODULE ClockProofs ----------------------------
(***************************************************************************)
(* Proofs about Clock: the words that the I2C driver puts without a test   *)
(* of the transmit FIFO are never lost, whatever the pace of the bus, in a *)
(* FIFO of fifteen words or more; the one of the channel has sixteen.      *)
(* With no word lost the clock is where the words carried so far have      *)
(* brought it, so that it is set to the right time and read at one moment. *)
(***************************************************************************)
EXTENDS Clock, SequenceTheorems, TLAPS

Word == [kind : {"write", "read", "receive", "stop"}] \cup [kind : {"data"}, byte : Int]
Places == {"none", "wstart", "ack", "send", "rstart", "receive", "wait"}

(* Words left in the FIFO by the setting of the time, which a reading of the
   time may follow before the bus has carried any of them. *)
Left == IF call = "get" THEN 10 ELSE 0

(* The most words the FIFO holds at each place of the driver. *)
Most ==
    CASE at = "none"    -> IF call = "set" THEN 10 ELSE IF call = "get" THEN 1 ELSE 0
      [] at = "wstart"  -> Left
      [] at = "ack"     -> Left + 1
      [] at = "send"    -> Left + 1 + (IF call = "set" THEN 8 ELSE 1) - resid
      [] at = "rstart"  -> Left + 3
      [] at = "receive" -> IF resid = 7 THEN Left + 4 ELSE 0
      [] at = "wait"    -> IF resid = 7 THEN Left + 5 ELSE 1

ClockType ==
    /\ at \in Places /\ call \in {"none", "set", "get"} /\ resid \in 0..8 /\ rx \in BOOLEAN
    /\ txfifo \in Seq(Word)

(* What is left to write. *)
BytesInv ==
    /\ call = "none" => at = "none" /\ time_data \in Times
    /\ at \in {"rstart", "receive", "wait"} => call = "get"
    /\ at \in {"wstart", "ack", "send"} =>
         /\ bytes \in Seq(Int) /\ Len(bytes) = resid
         /\ resid <= IF call = "set" THEN 8 ELSE 1
    /\ at \in {"wstart", "ack"} => resid = IF call = "set" THEN 8 ELSE 1
    /\ at \in {"receive", "wait"} => resid <= 7
    /\ at = "wait" => resid > 0

(* A byte is asked for by the last word, and only while the driver waits for it:
   when it has arrived the FIFO is empty. *)
AskedInv ==
    /\ \A i \in 1..Len(txfifo) : txfifo[i].kind = "receive" => at = "wait" /\ i = Len(txfifo)
    /\ rx => at = "wait" /\ txfifo = <<>>

ClockInv ==
    /\ ClockType /\ BytesInv /\ AskedInv
    /\ Len(txfifo) <= Most
    /\ ~lost

-----------------------------------------------------------------------------
(* A word put into a FIFO that has room. *)
LEMMA PutFits ==
    ASSUME NEW word \in Word, Put(word), txfifo \in Seq(Word), Len(txfifo) < FIFO_SIZE, ~lost
    PROVE  /\ txfifo' \in Seq(Word) /\ Len(txfifo') = Len(txfifo) + 1 /\ ~lost'
           /\ \A i \in 1..Len(txfifo) : txfifo'[i] = txfifo[i]
           /\ txfifo'[Len(txfifo) + 1] = word
<1>1. txfifo' = Append(txfifo, word)
    BY DEF Put
<1>2. Len(txfifo) # FIFO_SIZE
  <2>1. Len(txfifo) \in Nat /\ FIFO_SIZE \in Nat
      BY ClockAssumption
  <2> QED BY <2>1
<1>3. ~lost'
    BY <1>2 DEF Put
<1> QED BY <1>1, <1>3

LEMMA MostBelow ==
    ASSUME ClockInv
    PROVE  /\ Len(txfifo) \in Nat /\ Len(txfifo) <= 15
           /\ at # "wait" => Len(txfifo) < 15
<1>1. Len(txfifo) \in Nat /\ Len(txfifo) <= Most /\ at \in Places /\ Left \in {0, 10}
      /\ resid \in 0..8
    BY DEF ClockInv, ClockType, Left
<1>2. CASE at \in {"none", "wstart", "ack", "rstart", "receive", "wait"}
    BY <1>1, <1>2 DEF Most
<1>3. CASE at = "send"
    BY <1>1, <1>3 DEF Most, Left
<1> QED BY <1>1, <1>2, <1>3 DEF Places

(* A step that puts a word. *)
LEMMA PutStep ==
    ASSUME ClockInv, FIFO_SIZE >= 15, NEW word \in Word, Put(word), at # "wait", UNCHANGED rx,
           word.kind = "receive" => at' = "wait"
    PROVE  /\ txfifo' \in Seq(Word) /\ Len(txfifo') = Len(txfifo) + 1 /\ ~lost' /\ ~rx'
           /\ Len(txfifo) \in Nat /\ AskedInv'
<1>1. txfifo \in Seq(Word) /\ ~lost /\ AskedInv
    BY DEF ClockInv, ClockType
<1>2. Len(txfifo) \in Nat /\ Len(txfifo) < FIFO_SIZE
    BY MostBelow, ClockAssumption
<1>3. /\ txfifo' \in Seq(Word) /\ Len(txfifo') = Len(txfifo) + 1 /\ ~lost'
      /\ \A i \in 1..Len(txfifo) : txfifo'[i] = txfifo[i]
      /\ txfifo'[Len(txfifo) + 1] = word
    BY <1>1, <1>2, PutFits
<1>4. ~rx'
    BY <1>1 DEF AskedInv
<1>5. ASSUME NEW i \in 1..Len(txfifo'), txfifo'[i].kind = "receive"
      PROVE  at' = "wait" /\ i = Len(txfifo')
  <2>1. CASE i \in 1..Len(txfifo)
      BY <1>1, <1>3, <1>5, <2>1 DEF AskedInv
  <2>2. CASE i \notin 1..Len(txfifo)
    <3>1. i = Len(txfifo) + 1
        BY <1>2, <1>3, <2>2
    <3> QED BY <1>3, <1>5, <3>1
  <2> QED BY <2>1, <2>2
<1> QED BY <1>2, <1>3, <1>4, <1>5 DEF AskedInv

(* The two ioctls: they put nothing before the start. *)
LEMMA CallStep ==
    ASSUME ClockInv, (\E day \in DayBytes : SetTime(day)) \/ GetTime
    PROVE  ClockInv'
<1>1. /\ at = "none" /\ at' = "wstart" /\ UNCHANGED <<time_data, txfifo, lost, rx>>
    BY DEF SetTime, GetTime, Goes, UnchangedChannel, UnchangedBus
<1>2. ClockType /\ BytesInv /\ AskedInv /\ Len(txfifo) <= Most /\ ~lost /\ Len(txfifo) \in Nat
    BY MostBelow DEF ClockInv
<1>3. AskedInv'
    BY <1>1, <1>2 DEF AskedInv
<1>4. CASE GetTime
  <2>1. call # "none" /\ call' = "get" /\ resid' = 1 /\ bytes' = <<0>>
      BY <1>4 DEF GetTime
  <2>2. bytes' \in Seq(Int) /\ Len(bytes') = 1
      BY <2>1
  <2>3. ClockType' /\ BytesInv'
      BY <1>1, <1>2, <2>1, <2>2 DEF ClockType, BytesInv, Places
  <2>4. Most' = 10
      BY <1>1, <2>1 DEF Most, Left
  <2>5. Len(txfifo) <= 10
      BY <1>1, <1>2 DEF Most
  <2> QED BY <1>1, <1>2, <1>3, <2>3, <2>4, <2>5 DEF ClockInv
<1>5. ASSUME NEW day \in DayBytes, SetTime(day)
      PROVE  ClockInv'
  <2>1. call = "none" /\ call' = "set" /\ resid' = 8 /\ bytes' = TimeBytes(time_data, day)
      BY <1>5 DEF SetTime
  <2>2. time_data \in [Fields -> 0..79] /\ day \in Int
      BY <1>2, <2>1, ClockAssumption DEF BytesInv
  <2>3. \A v \in 0..79 : _decimal_BCD(v) \in Int
      BY DEF _decimal_BCD
  <2>4. /\ _decimal_BCD(time_data.tm_sec) \in Int /\ _decimal_BCD(time_data.tm_min) \in Int
        /\ _decimal_BCD(time_data.tm_hour) \in Int /\ _decimal_BCD(time_data.tm_mday) \in Int
        /\ _decimal_BCD(time_data.tm_mon) \in Int /\ _decimal_BCD(time_data.tm_year) \in Int
    <3>1. \A f \in Fields : time_data[f] \in 0..79
        BY <2>2
    <3>2. /\ time_data.tm_sec \in 0..79 /\ time_data.tm_min \in 0..79
          /\ time_data.tm_hour \in 0..79 /\ time_data.tm_mday \in 0..79
          /\ time_data.tm_mon \in 0..79 /\ time_data.tm_year \in 0..79
        BY <3>1 DEF Fields
    <3> QED BY <2>3, <3>2
  <2>5. bytes' \in Seq(Int) /\ Len(bytes') = 8
      BY <2>1, <2>2, <2>4 DEF TimeBytes
  <2>6. ClockType' /\ BytesInv'
      BY <1>1, <1>2, <2>1, <2>5 DEF ClockType, BytesInv, Places
  <2>7. Most' = 0
      BY <1>1, <2>1 DEF Most, Left
  <2>8. Len(txfifo) <= 0
      BY <1>1, <1>2, <2>1 DEF Most
  <2> QED BY <1>1, <1>2, <1>3, <2>6, <2>7, <2>8 DEF ClockInv
<1> QED BY <1>4, <1>5

(* usic_i2c_write *)
LEMMA WriteStep ==
    ASSUME ClockInv, FIFO_SIZE >= 15, WriteStart \/ AckOrTimeout \/ Send \/ WriteStop
    PROVE  ClockInv'
<1>1. ClockType /\ BytesInv /\ AskedInv /\ Len(txfifo) <= Most /\ ~lost /\ Len(txfifo) \in Nat
      /\ resid \in 0..8 /\ call \in {"none", "set", "get"}
    BY MostBelow DEF ClockInv, ClockType
<1>2. CASE WriteStart
  <2>1. /\ at = "wstart" /\ at' = "ack" /\ Put([kind |-> "write"])
        /\ UNCHANGED <<call, bytes, resid, time_data, rx>>
      BY <1>2 DEF WriteStart, Goes, UnchangedBus
  <2>2. [kind |-> "write"] \in Word /\ [kind |-> "write"].kind # "receive"
      BY DEF Word
  <2>3. /\ txfifo' \in Seq(Word) /\ Len(txfifo') = Len(txfifo) + 1 /\ ~lost' /\ ~rx' /\ AskedInv'
      BY <2>1, <2>2, PutStep
  <2>4. Len(txfifo) <= Left /\ Most' = Left + 1 /\ Left \in {0, 10}
      BY <1>1, <2>1 DEF Most, Left
  <2>5. Len(txfifo') <= Most'
      BY <1>1, <2>3, <2>4
  <2>6. ClockType' /\ BytesInv'
      BY <1>1, <2>1, <2>3 DEF ClockType, BytesInv, Places
  <2> QED BY <2>3, <2>5, <2>6 DEF ClockInv
<1>3. CASE AckOrTimeout
  <2>1. /\ at = "ack" /\ at' = "send"
        /\ UNCHANGED <<call, bytes, resid, time_data, rx, txfifo, lost>>
      BY <1>3 DEF AckOrTimeout, Goes, UnchangedChannel, UnchangedBus
  <2>2. resid = IF call = "set" THEN 8 ELSE 1
      BY <1>1, <2>1 DEF BytesInv
  <2>3. Len(txfifo) <= Left + 1 /\ Most' = Left + 1 /\ Left \in {0, 10}
      BY <1>1, <2>1, <2>2 DEF Most, Left
  <2>4. ClockType' /\ BytesInv' /\ AskedInv'
      BY <1>1, <2>1 DEF ClockType, BytesInv, AskedInv, Places
  <2> QED BY <1>1, <2>1, <2>3, <2>4 DEF ClockInv
<1>4. CASE Send
  <2> DEFINE word == [kind |-> "data", byte |-> Head(bytes)]
  <2>1. /\ at = "send" /\ at' = "send" /\ Put(word) /\ resid > 0
        /\ bytes' = Tail(bytes) /\ resid' = resid - 1
        /\ UNCHANGED <<call, time_data, rx>>
      BY <1>4 DEF Send, UnchangedBus
  <2>2. bytes \in Seq(Int) /\ Len(bytes) = resid /\ bytes # <<>> /\ call # "none"
        /\ resid <= IF call = "set" THEN 8 ELSE 1
    <3>1. bytes \in Seq(Int) /\ Len(bytes) = resid /\ call # "none"
          /\ resid <= IF call = "set" THEN 8 ELSE 1
        BY <1>1, <2>1 DEF BytesInv
    <3>2. bytes # <<>>
        BY <2>1, <3>1, EmptySeq
    <3> QED BY <3>1, <3>2
  <2>3. Head(bytes) \in Int /\ Tail(bytes) \in Seq(Int) /\ Len(Tail(bytes)) = resid - 1
      BY <2>2, HeadTailProperties
  <2>4. word \in Word /\ word.kind # "receive"
      BY <2>3 DEF Word
  <2> HIDE DEF word
  <2>5. /\ txfifo' \in Seq(Word) /\ Len(txfifo') = Len(txfifo) + 1 /\ ~lost' /\ ~rx' /\ AskedInv'
      BY <2>1, <2>4, PutStep
  <2>6. /\ Len(txfifo) <= Left + 1 + (IF call = "set" THEN 8 ELSE 1) - resid
        /\ Most' = Left + 1 + (IF call = "set" THEN 8 ELSE 1) - (resid - 1)
        /\ Left \in {0, 10}
      BY <1>1, <2>1 DEF Most, Left
  <2>7. Len(txfifo') <= Most'
    <3>1. Len(txfifo) + 1 <= Left + 1 + (IF call = "set" THEN 8 ELSE 1) - (resid - 1)
        BY <1>1, <2>6
    <3> QED BY <2>5, <2>6, <3>1
  <2>8. resid - 1 \in 0..8 /\ resid - 1 <= IF call = "set" THEN 8 ELSE 1
      BY <1>1, <2>1, <2>2
  <2>9. ClockType'
      BY <1>1, <2>1, <2>5, <2>8 DEF ClockType
  <2>10. BytesInv'
      BY <1>1, <2>1, <2>2, <2>3, <2>8 DEF BytesInv
  <2> QED BY <2>5, <2>7, <2>9, <2>10 DEF ClockInv
<1>5. CASE WriteStop
  <2>1. /\ at = "send" /\ Put([kind |-> "stop"]) /\ resid = 0
        /\ at' = IF call = "set" THEN "none" ELSE "rstart"
        /\ UNCHANGED <<call, bytes, resid, time_data, rx>>
      BY <1>5 DEF WriteStop, Goes, UnchangedBus
  <2>2. [kind |-> "stop"] \in Word /\ [kind |-> "stop"].kind # "receive"
      BY DEF Word
  <2>3. /\ txfifo' \in Seq(Word) /\ Len(txfifo') = Len(txfifo) + 1 /\ ~lost' /\ ~rx' /\ AskedInv'
      BY <2>1, <2>2, PutStep
  <2>4. call \in {"set", "get"}
      BY <1>1, <2>1 DEF BytesInv
  <2>5. CASE call = "set"
    <3>1. Len(txfifo) <= 9 /\ Most' = 10
        BY <1>1, <2>1, <2>5 DEF Most, Left
    <3>2. Len(txfifo') <= Most'
        BY <1>1, <2>3, <3>1
    <3>3. ClockType' /\ BytesInv'
        BY <1>1, <2>1, <2>3, <2>5 DEF ClockType, BytesInv, Places
    <3> QED BY <2>3, <3>2, <3>3 DEF ClockInv
  <2>6. CASE call = "get"
    <3>1. Len(txfifo) <= 12 /\ Most' = 13
        BY <1>1, <2>1, <2>6 DEF Most, Left
    <3>2. Len(txfifo') <= Most'
        BY <1>1, <2>3, <3>1
    <3>3. ClockType' /\ BytesInv'
        BY <1>1, <2>1, <2>3, <2>6 DEF ClockType, BytesInv, Places
    <3> QED BY <2>3, <3>2, <3>3 DEF ClockInv
  <2> QED BY <2>4, <2>5, <2>6
<1> QED BY <1>2, <1>3, <1>4, <1>5

(* usic_i2c_read *)
LEMMA ReadStep ==
    ASSUME ClockInv, FIFO_SIZE >= 15, ReadStart \/ Receive \/ Received \/ ReadStop
    PROVE  ClockInv'
<1>1. ClockType /\ BytesInv /\ AskedInv /\ Len(txfifo) <= Most /\ ~lost /\ Len(txfifo) \in Nat
      /\ resid \in 0..8 /\ call \in {"none", "set", "get"}
    BY MostBelow DEF ClockInv, ClockType
<1>2. CASE ReadStart
  <2>1. /\ at = "rstart" /\ at' = "receive" /\ Put([kind |-> "read"]) /\ resid' = 7
        /\ UNCHANGED <<call, bytes, time_data, rx>>
      BY <1>2 DEF ReadStart, Goes, UnchangedBus
  <2>2. [kind |-> "read"] \in Word /\ [kind |-> "read"].kind # "receive"
      BY DEF Word
  <2>3. /\ txfifo' \in Seq(Word) /\ Len(txfifo') = Len(txfifo) + 1 /\ ~lost' /\ ~rx' /\ AskedInv'
      BY <2>1, <2>2, PutStep
  <2>4. call = "get"
      BY <1>1, <2>1 DEF BytesInv
  <2>5. Len(txfifo) <= 13 /\ Most' = 14
      BY <1>1, <2>1, <2>4 DEF Most, Left
  <2>6. Len(txfifo') <= Most'
      BY <1>1, <2>3, <2>5
  <2>7. ClockType' /\ BytesInv'
      BY <1>1, <2>1, <2>3, <2>4 DEF ClockType, BytesInv, Places
  <2> QED BY <2>3, <2>6, <2>7 DEF ClockInv
<1>3. CASE Receive
  <2>1. /\ at = "receive" /\ at' = "wait" /\ Put([kind |-> "receive"]) /\ resid > 0
        /\ UNCHANGED <<call, bytes, resid, time_data, rx>>
      BY <1>3 DEF Receive, Goes, UnchangedBus
  <2>2. [kind |-> "receive"] \in Word
      BY DEF Word
  <2>3. /\ txfifo' \in Seq(Word) /\ Len(txfifo') = Len(txfifo) + 1 /\ ~lost' /\ ~rx' /\ AskedInv'
      BY <2>1, <2>2, PutStep
  <2>4. call = "get"
      BY <1>1, <2>1 DEF BytesInv
  <2>5. Len(txfifo) + 1 <= Most'
    <3>1. Most = IF resid = 7 THEN 14 ELSE 0
        BY <2>1, <2>4 DEF Most, Left
    <3>2. Most' = IF resid = 7 THEN 15 ELSE 1
        BY <2>1, <2>4 DEF Most, Left
    <3> QED BY <1>1, <3>1, <3>2
  <2>6. Len(txfifo') <= Most'
      BY <1>1, <2>3, <2>5
  <2>7. ClockType' /\ BytesInv'
      BY <1>1, <2>1, <2>3, <2>4 DEF ClockType, BytesInv, Places
  <2> QED BY <2>3, <2>6, <2>7 DEF ClockInv
<1>4. CASE Received
  <2>1. /\ at = "wait" /\ at' = "receive" /\ rx /\ rx' = FALSE /\ resid' = resid - 1
        /\ UNCHANGED <<call, time_data, txfifo, lost>>
      BY <1>4 DEF Received, Goes
  <2>2. txfifo = <<>> /\ call = "get" /\ resid \in 1..7
      BY <1>1, <2>1 DEF AskedInv, BytesInv
  <2>3. resid - 1 \in 0..6 /\ resid - 1 \in 0..8 /\ resid - 1 <= 7 /\ resid - 1 # 7
      BY <2>2
  <2>4. Most' = 0
      BY <2>1, <2>3 DEF Most
  <2>5. Len(txfifo) = 0
      BY <2>2, EmptySeq
  <2>6. Len(txfifo') <= Most'
      BY <2>1, <2>4, <2>5
  <2>7. ClockType' /\ BytesInv'
      BY <1>1, <2>1, <2>2, <2>3 DEF ClockType, BytesInv, Places
  <2>8. AskedInv'
      BY <2>1, <2>5 DEF AskedInv
  <2> QED BY <1>1, <2>1, <2>6, <2>7, <2>8 DEF ClockInv
<1>5. CASE ReadStop
  <2>1. /\ at = "receive" /\ at' = "none" /\ Put([kind |-> "stop"]) /\ resid = 0
        /\ UNCHANGED <<call, resid, rx>>
      BY <1>5 DEF ReadStop, Goes, UnchangedBus
  <2>2. [kind |-> "stop"] \in Word /\ [kind |-> "stop"].kind # "receive"
      BY DEF Word
  <2>3. /\ txfifo' \in Seq(Word) /\ Len(txfifo') = Len(txfifo) + 1 /\ ~lost' /\ ~rx' /\ AskedInv'
      BY <2>1, <2>2, PutStep
  <2>4. call = "get"
      BY <1>1, <2>1 DEF BytesInv
  <2>5. Len(txfifo) <= 0 /\ Most' = 1
      BY <1>1, <2>1, <2>4 DEF Most, Left
  <2>6. Len(txfifo') <= Most'
      BY <1>1, <2>3, <2>5
  <2>7. ClockType' /\ BytesInv'
      BY <1>1, <2>1, <2>3, <2>4 DEF ClockType, BytesInv, Places
  <2> QED BY <2>3, <2>6, <2>7 DEF ClockInv
<1> QED BY <1>2, <1>3, <1>4, <1>5

(* The bus only makes room; the byte asked for arrives when nothing is left. *)
LEMMA ShiftStep ==
    ASSUME ClockInv, Shift
    PROVE  ClockInv'
<1>1. ClockType /\ BytesInv /\ AskedInv /\ Len(txfifo) <= Most /\ ~lost /\ Len(txfifo) \in Nat
      /\ txfifo \in Seq(Word)
    BY MostBelow DEF ClockInv, ClockType
<1>2. /\ txfifo # <<>> /\ txfifo' = Tail(txfifo)
      /\ rx' = (rx \/ txfifo[1].kind = "receive")
      /\ UNCHANGED <<at, call, bytes, resid, time_data, lost>>
    BY <1>1 DEF Shift, driver
<1>3. /\ Tail(txfifo) \in Seq(Word) /\ Len(Tail(txfifo)) = Len(txfifo) - 1
      /\ \A i \in 1..Len(Tail(txfifo)) : Tail(txfifo)[i] = txfifo[i + 1]
    BY <1>1, <1>2, HeadTailProperties
<1>4. Len(txfifo) > 0
    BY <1>1, <1>2, EmptySeq
<1>5. ASSUME NEW i \in 1..Len(txfifo'), txfifo'[i].kind = "receive"
      PROVE  at' = "wait" /\ i = Len(txfifo')
  <2>1. i \in 1..(Len(txfifo) - 1) /\ txfifo[i + 1].kind = "receive"
      BY <1>2, <1>3, <1>5
  <2>2. i + 1 \in 1..Len(txfifo)
      BY <1>1, <2>1
  <2>3. at = "wait" /\ i + 1 = Len(txfifo)
      BY <1>1, <2>1, <2>2 DEF AskedInv
  <2>4. i = Len(txfifo) - 1
      BY <1>1, <2>1, <2>3
  <2> QED BY <1>2, <1>3, <2>3, <2>4
<1>6. ASSUME rx'
      PROVE  at' = "wait" /\ txfifo' = <<>>
  <2>1. txfifo[1].kind = "receive"
      BY <1>1, <1>2, <1>6 DEF AskedInv
  <2>2. 1 \in 1..Len(txfifo)
      BY <1>1, <1>4
  <2>3. at = "wait" /\ Len(txfifo) = 1
      BY <1>1, <2>1, <2>2 DEF AskedInv
  <2>4. Len(Tail(txfifo)) = 0
      BY <1>3, <2>3
  <2>5. Tail(txfifo) = <<>>
      BY <1>3, <2>4, EmptySeq
  <2> QED BY <1>2, <2>3, <2>5
<1>7. AskedInv'
    BY <1>5, <1>6 DEF AskedInv
<1>8. Most' = Most /\ Most \in Int
  <2>1. resid \in 0..8 /\ at \in Places
      BY <1>1 DEF ClockType
  <2>2. Most \in Int
    <3>1. Left \in {0, 10} /\ (IF call = "set" THEN 8 ELSE 1) \in {1, 8}
        BY DEF Left
    <3>2. CASE at = "send"
        BY <2>1, <3>1, <3>2 DEF Most
    <3>3. CASE at # "send"
        BY <2>1, <3>1, <3>3 DEF Most, Places
    <3> QED BY <3>2, <3>3
  <2>3. Most' = Most
    <3>1. at' = at /\ call' = call /\ resid' = resid
        BY <1>2
    <3>2. Left' = Left
        BY <3>1 DEF Left
    <3>3. CASE at \in {"none", "wstart", "ack"}
        BY <3>1, <3>2, <3>3 DEF Most
    <3>4. CASE at \in {"send", "rstart"}
        BY <3>1, <3>2, <3>4 DEF Most
    <3>5. CASE at \in {"receive", "wait"}
        BY <3>1, <3>2, <3>5 DEF Most
    <3> QED BY <2>1, <3>3, <3>4, <3>5 DEF Places
  <2> QED BY <2>2, <2>3
<1>9. Len(txfifo') <= Most'
    BY <1>1, <1>2, <1>3, <1>8
<1>10. rx' \in BOOLEAN
    BY <1>2
<1>11. ClockType' /\ BytesInv'
    BY <1>1, <1>2, <1>3, <1>10 DEF ClockType, BytesInv
<1> QED BY <1>1, <1>2, <1>7, <1>9, <1>11 DEF ClockInv

LEMMA InitClock ==
    ASSUME Init
    PROVE  ClockInv
<1>1. <<>> \in Seq(Word) /\ Len(<<>>) = 0
    BY EmptySeq
<1>2. ClockType /\ BytesInv
  <2>1. /\ at = "none" /\ call = "none" /\ resid = 0 /\ rx = FALSE /\ txfifo = <<>>
        /\ time_data \in Times
      BY DEF Init
  <2>2. ClockType
    <3>1. rx \in BOOLEAN
        BY <2>1
    <3>2. resid \in 0..8
        BY <2>1
    <3>3. txfifo \in Seq(Word)
        BY <1>1, <2>1
    <3>4. at \in Places /\ call \in {"none", "set", "get"}
        BY <2>1 DEF Places
    <3> QED BY <3>1, <3>2, <3>3, <3>4 DEF ClockType
  <2>3. BytesInv
      BY <2>1 DEF BytesInv
  <2> QED BY <2>2, <2>3
<1>3. AskedInv
    BY <1>1 DEF Init, AskedInv
<1>4. Len(txfifo) = 0 /\ Most = 0 /\ ~lost
    BY <1>1 DEF Init, Most
<1> QED BY <1>2, <1>3, <1>4 DEF ClockInv

(* The state of the driver and its FIFO is never anything but what ClockInv says:
   at every place of the driver a bound on what the bus may have left behind. *)
THEOREM ClockSpecInv ==
    ASSUME FIFO_SIZE >= 15
    PROVE  Spec => []ClockInv
<1>1. Init => ClockInv
    BY InitClock
<1>2. ClockInv /\ [Next]_cvars => ClockInv'
  <2> SUFFICES ASSUME ClockInv, [Next]_cvars PROVE ClockInv'
      OBVIOUS
  <2>1. CASE Tick \/ UNCHANGED cvars
    <3>1. UNCHANGED <<at, call, bytes, resid, time_data, txfifo, rx, lost>>
        BY <2>1 DEF Tick, cvars, driver
    <3> QED BY <3>1 DEF ClockInv, ClockType, BytesInv, AskedInv, Most, Left
  <2> QED BY <2>1, CallStep, WriteStep, ReadStep, ShiftStep DEF Next, Ioctl
<1> QED BY <1>1, <1>2, PTL DEF Spec

(* In a FIFO of fifteen words or more, every word that the two ioctls put finds
   room, although a start, a stop and the request of a byte are put without a
   test and the clock may be read while the bus still carries the last setting. *)
THEOREM NoWordLostAlways ==
    ASSUME FIFO_SIZE >= 15
    PROVE  Spec => []NoWordLost
<1>1. ClockInv => NoWordLost
    BY DEF ClockInv, NoWordLost
<1> QED BY <1>1, ClockSpecInv, PTL
-----------------------------------------------------------------------------
(***************************************************************************)
(* The words that the driver puts are a stream: the ten of the setting of  *)
(* the time, then the twelve of a reading, and again the twelve of the     *)
(* next one.  A word is known by its number in the stream; a reading that  *)
(* is complete counts like the setting, whose stop is the last word too.   *)
(***************************************************************************)
Words ==
    CASE at = "none"    -> IF call = "none" THEN 0 ELSE 10
      [] at = "wstart"  -> Left
      [] at = "ack"     -> Left + 1
      [] at = "send"    -> Left + 1 + (IF call = "set" THEN 8 ELSE 1) - resid
      [] at = "rstart"  -> 13
      [] at = "receive" -> 21 - resid
      [] at = "wait"    -> 22 - resid

(* The words that the bus has carried: they determine the state of the clock. *)
Carried == Words - Len(txfifo)

Kind(n) ==
    CASE n \in {1, 11}         -> "write"
      [] n \in 2..9 \cup {12}  -> "data"
      [] n \in {10, 13}        -> "stop"
      [] n = 14                -> "read"
      [] OTHER                 -> "receive"

(* The field of a time that the clock keeps in a register. *)
Field(t, a) ==
    CASE a = 0 -> t.tm_sec  [] a = 1 -> t.tm_min [] a = 2 -> t.tm_hour
      [] a = 4 -> t.tm_mday [] a = 5 -> t.tm_mon [] a = 6 -> t.tm_year

(* The byte of a data word: the address of register 0, or the register after
   the one of the word before. *)
ByteOf(t, n, b) ==
    /\ n \in {2, 12} => b = 0
    /\ n \in 3..9 => b \in 0..255 /\ (n # 6 => b = _decimal_BCD(Field(t, n - 3)))

IsWord(t, n, word) ==
    word.kind = Kind(n) /\ (word.kind = "data" => ByteOf(t, n, word.byte))

(* What waits in the FIFO, and what the driver has still to put there. *)
StreamInv == \A i \in 1..Len(txfifo) : IsWord(time_data, Carried + i, txfifo[i])

WriteInv ==
    at \in {"wstart", "ack", "send"} =>
        \A i \in 1..resid : ByteOf(time_data, (IF call = "set" THEN 9 ELSE 12) - resid + i, bytes[i])

Pointer(n) ==
    CASE n \in {1, 11} -> NoPointer
      [] n \in 2..8    -> n - 2
      [] n \in 15..20  -> n - 14
      [] OTHER         -> 0

(* The registers that the setting has reached hold its fields, as long as the
   clock is addressed; from the start of a reading on it shows one time. *)
RegistersInv ==
    /\ pointer = Pointer(Carried) /\ (selected <=> Carried \notin {0, 10, 13})
    /\ regs \in [Registers -> 0..255] /\ \A a \in Registers \ {3} : regs[a] < 128
    /\ Carried <= 8 => time_data \in Times
    /\ Carried \in 3..8 =>
         \A a \in 0..(Carried - 3) : a # 3 => regs[a] = _decimal_BCD(Field(time_data, a))
    /\ Carried >= 14 => started = Time(regs)

(* The bytes read so far are the registers from 0 on. *)
ReadInv ==
    /\ at = "rstart" => bytes = <<>>
    /\ at \in {"receive", "wait"} =>
         /\ bytes \in Seq(0..255) /\ Len(bytes) = 7 - resid
         /\ \A i \in 1..Len(bytes) : bytes[i] = regs[i - 1]
    /\ rxfifo = IF rx THEN <<regs[7 - resid]>> ELSE <<>>

TransferInv == ClockInv /\ StreamInv /\ WriteInv /\ RegistersInv /\ ReadInv

(* Two decimal digits in a register and back. *)
LEMMA TwoDigits ==
    /\ \A v \in 0..79 : _decimal_BCD(v) \in 0..127 /\ Digits(_decimal_BCD(v)) = v
    /\ \A b \in 0..127 : _BCD_decimal(b) = Digits(b)
<1>1. ASSUME NEW v \in 0..79
      PROVE  _decimal_BCD(v) \in 0..127 /\ Digits(_decimal_BCD(v)) = v
    BY DEF _decimal_BCD, Digits
<1>2. ASSUME NEW b \in 0..127
      PROVE  _BCD_decimal(b) = Digits(b)
    BY DEF _BCD_decimal, Digits
<1> QED BY <1>1, <1>2

(* The fields of a time, which has no others. *)
LEMMA FieldsOfTimes ==
    ASSUME NEW t \in Times
    PROVE  /\ t.tm_sec \in 0..79 /\ t.tm_min \in 0..79 /\ t.tm_hour \in 0..79
           /\ t.tm_mday \in 0..79 /\ t.tm_mon \in 0..79 /\ t.tm_year \in 0..79
           /\ t = [tm_sec |-> t.tm_sec, tm_min |-> t.tm_min, tm_hour |-> t.tm_hour,
                   tm_mday |-> t.tm_mday, tm_mon |-> t.tm_mon, tm_year |-> t.tm_year]
<1>1. t \in [Fields -> 0..79]
    BY ClockAssumption
<1>2. \A f \in Fields : t[f] \in 0..79
    BY <1>1
<1>3. t = [f \in Fields |-> t[f]]
    BY <1>1
<1> QED BY <1>2, <1>3 DEF Fields

(* Where the driver is says how many words it has put, and with the length of the
   FIFO how many the bus has carried. *)
LEMMA Numbers ==
    ASSUME ClockInv
    PROVE  /\ Len(txfifo) \in Nat /\ Words \in 0..21 /\ Carried \in 0..21
           /\ Carried + Len(txfifo) = Words
           /\ at = "wait" /\ resid < 7 => Carried >= 14
           /\ at = "receive" /\ resid < 7 => Carried >= 15 /\ txfifo = <<>>
           /\ at = "none" /\ call = "get" => Carried >= 9
<1>1. /\ Len(txfifo) \in Nat /\ Len(txfifo) <= Most /\ at \in Places /\ Left \in {0, 10}
      /\ resid \in 0..8 /\ call \in {"none", "set", "get"} /\ txfifo \in Seq(Word)
      /\ BytesInv /\ AskedInv
    BY MostBelow DEF ClockInv, ClockType, Left
<1> DEFINE len == Len(txfifo)
<1>2. len \in Nat /\ len <= Most /\ resid \in 0..8 /\ call \in {"none", "set", "get"}
    BY <1>1
<1> HIDE DEF len
<1>3. /\ Words \in 0..21 /\ len <= Words
      /\ at = "wait" /\ resid < 7 => Words - len >= 14
      /\ at = "receive" /\ resid < 7 => Words - len >= 15 /\ txfifo = <<>>
      /\ at = "none" /\ call = "get" => Words - len >= 9
  <2>1. CASE at = "none"
    <3>1. Words = (IF call = "none" THEN 0 ELSE 10)
        BY <2>1 DEF Words
    <3>2. Most = (IF call = "set" THEN 10 ELSE IF call = "get" THEN 1 ELSE 0)
        BY <2>1 DEF Most
    <3>3. Words \in {0, 10} /\ len <= Words /\ (call = "get" => Words - len >= 9)
      <4>1. CASE call = "none"
          BY <1>2, <3>1, <3>2, <4>1
      <4>2. CASE call = "set"
          BY <1>2, <3>1, <3>2, <4>2
      <4>3. CASE call = "get"
          BY <1>2, <3>1, <3>2, <4>3
      <4> QED BY <1>2, <4>1, <4>2, <4>3
    <3> QED BY <2>1, <3>3
  <2>2. CASE at \in {"wstart", "ack", "rstart"}
    <3>1. Words = Most /\ Most \in 0..21
        BY <1>1, <2>2 DEF Words, Most, BytesInv, Left
    <3> QED BY <1>2, <2>2, <3>1
  <2>3. CASE at = "send"
    <3>1. Words = Most /\ Most \in 0..21
      <4>1. /\ Words = Left + 1 + (IF call = "set" THEN 8 ELSE 1) - resid
            /\ Most = Left + 1 + (IF call = "set" THEN 8 ELSE 1) - resid
          BY <2>3 DEF Words, Most
      <4>2. resid <= (IF call = "set" THEN 8 ELSE 1) /\ (call = "set" => Left = 0)
          BY <1>1, <2>3 DEF BytesInv, Left
      <4> QED BY <1>1, <4>1, <4>2
    <3> QED BY <1>2, <2>3, <3>1
  <2>4. CASE at = "receive"
    <3>1. Words = 21 - resid /\ resid \in 0..7 /\ call = "get"
        BY <1>1, <2>4 DEF Words, BytesInv
    <3>2. CASE resid = 7
      <4>1. Most = 14
          BY <2>4, <3>1, <3>2 DEF Most, Left
      <4> QED BY <1>2, <2>4, <3>1, <3>2, <4>1
    <3>3. CASE resid # 7
      <4>1. Most = 0
          BY <2>4, <3>3 DEF Most
      <4>2. len = 0
          BY <1>2, <4>1
      <4>3. txfifo = <<>>
          BY <1>1, <4>2, EmptySeq DEF len
      <4> QED BY <2>4, <3>1, <3>3, <4>2, <4>3
    <3> QED BY <3>2, <3>3
  <2>5. CASE at = "wait"
    <3>1. Words = 22 - resid /\ resid \in 1..7 /\ call = "get"
        BY <1>1, <2>5 DEF Words, BytesInv
    <3>2. Most = IF resid = 7 THEN 15 ELSE 1
        BY <2>5, <3>1 DEF Most, Left
    <3> QED BY <1>2, <2>5, <3>1, <3>2
  <2> QED BY <1>1, <2>1, <2>2, <2>3, <2>4, <2>5 DEF Places
<1>4. Carried = Words - len
    BY DEF Carried, len
<1> QED BY <1>2, <1>3, <1>4 DEF len

(* A step that puts the next word of the stream. *)
LEMMA PutNext ==
    ASSUME TransferInv, FIFO_SIZE >= 15, NEW word \in Word, Put(word), at # "wait",
           UNCHANGED time_data, Words' = Words + 1, IsWord(time_data, Words + 1, word)
    PROVE  Carried' = Carried /\ StreamInv'
<1>1. /\ txfifo \in Seq(Word) /\ ~lost /\ ClockInv /\ StreamInv
    BY DEF TransferInv, ClockInv, ClockType
<1>2. /\ Len(txfifo) \in Nat /\ Words \in 0..21 /\ Carried \in 0..21 /\ Carried + Len(txfifo) = Words
      /\ Len(txfifo) < FIFO_SIZE
  <2>1. Len(txfifo) \in Nat /\ Len(txfifo) < FIFO_SIZE
      BY <1>1, MostBelow, ClockAssumption
  <2>2. ClockInv
      BY <1>1
  <2>3. Words \in 0..21 /\ Carried \in 0..21 /\ Carried + Len(txfifo) = Words
      BY <2>2, Numbers
  <2> QED BY <2>1, <2>3
<1>3. /\ Len(txfifo') = Len(txfifo) + 1
      /\ \A i \in 1..Len(txfifo) : txfifo'[i] = txfifo[i]
      /\ txfifo'[Len(txfifo) + 1] = word
    BY <1>1, <1>2, PutFits
<1>4. Carried' = Carried
    BY <1>2, <1>3 DEF Carried
<1>5. ASSUME NEW i \in 1..Len(txfifo')
      PROVE  IsWord(time_data', Carried' + i, txfifo'[i])
  <2>1. CASE i \in 1..Len(txfifo)
      BY <1>1, <1>3, <1>4, <2>1 DEF StreamInv
  <2>2. CASE i \notin 1..Len(txfifo)
    <3>1. i = Len(txfifo) + 1 /\ Carried' + i = Words + 1
        BY <1>2, <1>3, <1>4, <2>2
    <3> QED BY <1>3, <3>1
  <2> QED BY <2>1, <2>2
<1> QED BY <1>4, <1>5 DEF StreamInv

(* A step that leaves the FIFO as it is. *)
LEMMA PutNothing ==
    ASSUME TransferInv, UNCHANGED <<txfifo, time_data>>, Words' = Words
    PROVE  Carried' = Carried /\ StreamInv'
<1>1. Carried' = Carried
    BY DEF Carried
<1>2. StreamInv
    BY DEF TransferInv
<1> QED BY <1>1, <1>2 DEF StreamInv

(* A step in which the bus carries nothing. *)
LEMMA SameRegisters ==
    ASSUME RegistersInv, Carried' = Carried, UNCHANGED <<clock, time_data>>
    PROVE  RegistersInv'
<1>1. UNCHANGED <<regs, pointer, selected, started>>
    BY DEF clock
<1> QED BY <1>1 DEF RegistersInv

(* The two ioctls. *)
LEMMA CallTransfer ==
    ASSUME TransferInv, (\E day \in DayBytes : SetTime(day)) \/ GetTime
    PROVE  StreamInv' /\ WriteInv' /\ RegistersInv' /\ ReadInv'
<1>1. /\ at = "none" /\ at' = "wstart" /\ UNCHANGED <<time_data, txfifo, rxfifo, rx, clock>>
    BY DEF SetTime, GetTime, Goes, UnchangedChannel, UnchangedBus
<1>2. ClockInv /\ RegistersInv /\ ReadInv /\ AskedInv /\ BytesInv /\ call \in {"none", "set", "get"}
    BY DEF TransferInv, ClockInv, ClockType
<1>3. Words' = Words
    BY <1>1, <1>2 DEF Words, Left, SetTime, GetTime
<1>4. Carried' = Carried /\ StreamInv'
    BY <1>1, <1>3, PutNothing
<1>5. RegistersInv'
    BY <1>1, <1>2, <1>4, SameRegisters
<1>6. ReadInv'
  <2>1. ~rx /\ rxfifo = <<>>
      BY <1>1, <1>2 DEF AskedInv, ReadInv
  <2> QED BY <1>1, <2>1 DEF ReadInv
<1>7. CASE GetTime
  <2>1. call' = "get" /\ resid' = 1 /\ bytes' = <<0>>
      BY <1>7 DEF GetTime
  <2>2. \A i \in 1..resid' : ByteOf(time_data', 12 - resid' + i, bytes'[i])
      BY <2>1 DEF ByteOf
  <2>3. WriteInv'
      BY <2>1, <2>2 DEF WriteInv
  <2> QED BY <1>4, <1>5, <1>6, <2>3
<1>8. ASSUME NEW day \in DayBytes, SetTime(day)
      PROVE  WriteInv'
  <2>1. call = "none" /\ call' = "set" /\ resid' = 8 /\ bytes' = TimeBytes(time_data, day)
      BY <1>8 DEF SetTime
  <2>2. time_data \in Times /\ day \in 0..255
      BY <1>2, <2>1, ClockAssumption DEF BytesInv
  <2>3. \A v \in 0..79 : _decimal_BCD(v) \in 0..255
      BY TwoDigits
  <2>4. \A a \in {0, 1, 2, 4, 5, 6} : _decimal_BCD(Field(time_data, a)) \in 0..255
    <3>1. \A a \in {0, 1, 2, 4, 5, 6} : Field(time_data, a) \in 0..79
        BY <2>2, FieldsOfTimes DEF Field
    <3> QED BY <2>3, <3>1
  <2>5. /\ bytes'[1] = 0 /\ bytes'[5] = day
        /\ bytes'[2] = _decimal_BCD(Field(time_data, 0)) /\ bytes'[3] = _decimal_BCD(Field(time_data, 1))
        /\ bytes'[4] = _decimal_BCD(Field(time_data, 2)) /\ bytes'[6] = _decimal_BCD(Field(time_data, 4))
        /\ bytes'[7] = _decimal_BCD(Field(time_data, 5)) /\ bytes'[8] = _decimal_BCD(Field(time_data, 6))
      BY <2>1 DEF TimeBytes, Field
  <2>6. ASSUME NEW i \in 1..8
        PROVE  ByteOf(time_data, 1 + i, bytes'[i])
    <3>1. CASE i = 1
        BY <2>5, <3>1 DEF ByteOf
    <3>2. CASE i = 5
        BY <2>2, <2>5, <3>2 DEF ByteOf
    <3>3. CASE i \in {2, 3, 4, 6, 7, 8}
      <4>1. bytes'[i] = _decimal_BCD(Field(time_data, i - 2))
          BY <2>5, <3>3
      <4>2. _decimal_BCD(Field(time_data, i - 2)) \in 0..255
          BY <2>4, <3>3
      <4>3. (1 + i) - 3 = i - 2 /\ 1 + i \in 3..9
          BY <3>3
      <4> QED BY <4>1, <4>2, <4>3 DEF ByteOf
    <3> QED BY <3>1, <3>2, <3>3
  <2>7. \A i \in 1..resid' : ByteOf(time_data', 9 - resid' + i, bytes'[i])
    <3>1. \A i \in 1..8 : 9 - resid' + i = 1 + i
        BY <2>1
    <3> QED BY <1>1, <2>1, <2>6, <3>1
  <2> QED BY <2>1, <2>7 DEF WriteInv
<1> QED BY <1>4, <1>5, <1>6, <1>7, <1>8

(* usic_i2c_write *)
LEMMA WriteTransfer ==
    ASSUME TransferInv, FIFO_SIZE >= 15, WriteStart \/ AckOrTimeout \/ Send \/ WriteStop
    PROVE  StreamInv' /\ WriteInv' /\ RegistersInv' /\ ReadInv'
<1>1. /\ ClockInv /\ RegistersInv /\ ReadInv /\ WriteInv /\ AskedInv /\ BytesInv
      /\ call \in {"none", "set", "get"} /\ resid \in 0..8
    BY DEF TransferInv, ClockInv, ClockType
<1>2. UNCHANGED <<call, time_data, rxfifo, rx, clock>>
    BY DEF WriteStart, AckOrTimeout, Send, WriteStop, UnchangedChannel, UnchangedBus
<1>3. at \in {"wstart", "ack", "send"} /\ at' \in {"ack", "send", "none", "rstart"}
    BY DEF WriteStart, AckOrTimeout, Send, WriteStop, Goes
<1>4. call \in {"set", "get"} /\ bytes \in Seq(Int) /\ Len(bytes) = resid
      /\ resid <= IF call = "set" THEN 8 ELSE 1
    BY <1>1, <1>3 DEF BytesInv
<1>5. ASSUME at' = "rstart" => bytes' = <<>>
      PROVE  ReadInv'
  <2>1. ~rx /\ rxfifo = <<>>
      BY <1>1, <1>3 DEF AskedInv, ReadInv
  <2>2. at' \notin {"receive", "wait"} /\ ~rx' /\ rxfifo' = <<>>
      BY <1>2, <1>3, <2>1
  <2> QED BY <1>5, <2>2 DEF ReadInv
<1>6. CASE WriteStart
  <2>1. /\ at = "wstart" /\ at' = "ack" /\ Put([kind |-> "write"]) /\ UNCHANGED <<bytes, resid>>
      BY <1>6 DEF WriteStart, Goes
  <2>2. [kind |-> "write"] \in Word
      BY DEF Word
  <2>3. resid = IF call = "set" THEN 8 ELSE 1
      BY <1>1, <2>1 DEF BytesInv
  <2>4. Words \in {0, 10} /\ Words' = Words + 1
      BY <1>2, <1>4, <2>1 DEF Words, Left
  <2>5. IsWord(time_data, Words + 1, [kind |-> "write"])
      BY <2>4 DEF IsWord, Kind
  <2>6. Carried' = Carried /\ StreamInv'
      BY <1>2, <2>1, <2>2, <2>4, <2>5, PutNext
  <2>7. RegistersInv'
      BY <1>1, <1>2, <2>6, SameRegisters
  <2>8. WriteInv'
      BY <1>1, <1>2, <2>1 DEF WriteInv
  <2> QED BY <1>5, <2>1, <2>6, <2>7, <2>8
<1>7. CASE AckOrTimeout
  <2>1. /\ at = "ack" /\ at' = "send" /\ UNCHANGED <<bytes, resid, txfifo>>
      BY <1>7 DEF AckOrTimeout, Goes, UnchangedChannel
  <2>2. resid = IF call = "set" THEN 8 ELSE 1
      BY <1>1, <2>1 DEF BytesInv
  <2>3. Words' = Words
      BY <1>2, <1>4, <2>1, <2>2 DEF Words, Left
  <2>4. Carried' = Carried /\ StreamInv'
      BY <1>2, <2>1, <2>3, PutNothing
  <2>5. RegistersInv'
      BY <1>1, <1>2, <2>4, SameRegisters
  <2>6. WriteInv'
      BY <1>1, <1>2, <2>1 DEF WriteInv
  <2> QED BY <1>5, <2>1, <2>4, <2>5, <2>6
<1>8. CASE Send
  <2> DEFINE word == [kind |-> "data", byte |-> Head(bytes)]
             base == IF call = "set" THEN 9 ELSE 12
  <2>1. /\ at = "send" /\ at' = "send" /\ Put(word) /\ resid > 0
        /\ bytes' = Tail(bytes) /\ resid' = resid - 1
      BY <1>8 DEF Send
  <2>2. bytes # <<>>
      BY <1>4, <2>1, EmptySeq
  <2>3. /\ Head(bytes) = bytes[1] /\ Head(bytes) \in Int /\ Len(Tail(bytes)) = resid - 1
        /\ \A i \in 1..Len(Tail(bytes)) : Tail(bytes)[i] = bytes[i + 1]
      BY <1>4, <2>2, HeadTailProperties
  <2>4. word \in Word
      BY <2>3 DEF Word
  <2>5. Words + 1 = base - resid + 1 /\ Words' = Words + 1 /\ base - resid + 1 \in 2..9 \cup {12}
    <3>1. CASE call = "set"
      <4>1. Words = 9 - resid /\ Words' = 9 - (resid - 1) /\ base = 9 /\ resid \in 1..8
          BY <1>1, <1>2, <1>4, <2>1, <3>1 DEF Words, Left
      <4> QED BY <4>1
    <3>2. CASE call = "get"
      <4>1. resid = 1 /\ base = 12
          BY <1>1, <1>4, <2>1, <3>2
      <4>2. Words = 11 /\ Words' = 12
          BY <1>2, <2>1, <3>2, <4>1 DEF Words, Left
      <4> QED BY <4>1, <4>2
    <3> QED BY <1>4, <3>1, <3>2
  <2>6. \A i \in 1..resid : ByteOf(time_data, base - resid + i, bytes[i])
      BY <1>1, <2>1 DEF WriteInv
  <2>7. IsWord(time_data, Words + 1, word)
    <3>1. ByteOf(time_data, Words + 1, Head(bytes))
        BY <1>1, <2>1, <2>3, <2>5, <2>6
    <3>2. Kind(Words + 1) = "data"
        BY <2>5 DEF Kind
    <3> QED BY <3>1, <3>2 DEF IsWord
  <2> HIDE DEF word
  <2>8. Carried' = Carried /\ StreamInv'
      BY <1>2, <2>1, <2>4, <2>5, <2>7, PutNext
  <2>9. RegistersInv'
      BY <1>1, <1>2, <2>8, SameRegisters
  <2>10. WriteInv'
    <3>1. base' = base /\ base \in {9, 12}
        BY <1>2
    <3>2. ASSUME NEW i \in 1..resid'
          PROVE  ByteOf(time_data', base' - resid' + i, bytes'[i])
      <4>1. i + 1 \in 1..resid /\ i \in 1..Len(Tail(bytes))
          BY <1>1, <2>1, <2>3
      <4>2. bytes'[i] = bytes[i + 1] /\ base' - resid' + i = base - resid + (i + 1)
          BY <1>1, <2>1, <2>3, <3>1, <4>1
      <4> QED BY <1>2, <2>6, <4>1, <4>2
    <3> QED BY <3>2 DEF WriteInv
  <2> QED BY <1>5, <2>1, <2>8, <2>9, <2>10
<1>9. CASE WriteStop
  <2>1. /\ at = "send" /\ Put([kind |-> "stop"]) /\ resid = 0
        /\ at' = IF call = "set" THEN "none" ELSE "rstart"
        /\ UNCHANGED <<bytes, resid>>
      BY <1>9 DEF WriteStop, Goes
  <2>2. [kind |-> "stop"] \in Word
      BY DEF Word
  <2>3. Words \in {9, 12} /\ Words' = Words + 1
      BY <1>2, <1>4, <2>1 DEF Words, Left
  <2>4. IsWord(time_data, Words + 1, [kind |-> "stop"])
      BY <2>3 DEF IsWord, Kind
  <2>5. Carried' = Carried /\ StreamInv'
      BY <1>2, <2>1, <2>2, <2>3, <2>4, PutNext
  <2>6. RegistersInv'
      BY <1>1, <1>2, <2>5, SameRegisters
  <2>7. bytes' = <<>>
      BY <1>4, <2>1, EmptySeq
  <2>8. WriteInv'
      BY <1>4, <2>1 DEF WriteInv
  <2> QED BY <1>5, <2>5, <2>6, <2>7, <2>8
<1> QED BY <1>6, <1>7, <1>8, <1>9

(* usic_i2c_read, but for its end *)
LEMMA ReadTransfer ==
    ASSUME TransferInv, FIFO_SIZE >= 15, ReadStart \/ Receive \/ Received
    PROVE  StreamInv' /\ WriteInv' /\ RegistersInv' /\ ReadInv'
<1>1. /\ ClockInv /\ RegistersInv /\ ReadInv /\ AskedInv /\ BytesInv /\ resid \in 0..8
    BY DEF TransferInv, ClockInv, ClockType
<1>2. UNCHANGED <<call, time_data, clock>>
    BY DEF ReadStart, Receive, Received, UnchangedBus
<1>3. at \in {"rstart", "receive", "wait"} /\ at' \in {"receive", "wait"}
    BY DEF ReadStart, Receive, Received, Goes
<1>4. WriteInv'
    BY <1>3 DEF WriteInv
<1>5. UNCHANGED <<regs, pointer>>
    BY <1>2 DEF clock
<1>6. CASE ReadStart
  <2>1. /\ at = "rstart" /\ at' = "receive" /\ Put([kind |-> "read"]) /\ resid' = 7
        /\ UNCHANGED <<bytes, rx, rxfifo>>
      BY <1>6 DEF ReadStart, Goes, UnchangedBus
  <2>2. [kind |-> "read"] \in Word
      BY DEF Word
  <2>3. Words = 13 /\ Words' = Words + 1
      BY <2>1 DEF Words
  <2>4. IsWord(time_data, Words + 1, [kind |-> "read"])
      BY <2>3 DEF IsWord, Kind
  <2>5. Carried' = Carried /\ StreamInv'
      BY <1>2, <2>1, <2>2, <2>3, <2>4, PutNext
  <2>6. RegistersInv'
      BY <1>1, <1>2, <2>5, SameRegisters
  <2>7. bytes' = <<>> /\ ~rx' /\ rxfifo' = <<>>
      BY <1>1, <2>1 DEF ReadInv, AskedInv
  <2>8. bytes' \in Seq(0..255) /\ Len(bytes') = 0
      BY <2>7, EmptySeq
  <2>9. ReadInv'
      BY <2>1, <2>7, <2>8 DEF ReadInv
  <2> QED BY <1>4, <2>5, <2>6, <2>9
<1>7. CASE Receive
  <2>1. /\ at = "receive" /\ at' = "wait" /\ Put([kind |-> "receive"]) /\ resid > 0
        /\ UNCHANGED <<bytes, resid, rx, rxfifo>>
      BY <1>7 DEF Receive, Goes, UnchangedBus
  <2>2. [kind |-> "receive"] \in Word
      BY DEF Word
  <2>3. resid \in 1..7
      BY <1>1, <2>1 DEF BytesInv
  <2>4. Words = 21 - resid /\ Words' = 22 - resid
      BY <2>1 DEF Words
  <2>5. IsWord(time_data, Words + 1, [kind |-> "receive"])
    <3>1. Words + 1 \in 15..21
        BY <2>3, <2>4
    <3> QED BY <3>1 DEF IsWord, Kind
  <2>6. Words' = Words + 1
      BY <2>3, <2>4
  <2>7. Carried' = Carried /\ StreamInv'
      BY <1>2, <2>1, <2>2, <2>5, <2>6, PutNext
  <2>8. RegistersInv'
      BY <1>1, <1>2, <2>7, SameRegisters
  <2>9. ReadInv'
      BY <1>1, <1>5, <2>1 DEF ReadInv
  <2> QED BY <1>4, <2>7, <2>8, <2>9
<1>8. CASE Received
  <2>1. /\ at = "wait" /\ at' = "receive" /\ rx /\ rx' = FALSE /\ rxfifo' = Tail(rxfifo)
        /\ bytes' = Append(bytes, Head(rxfifo)) /\ resid' = resid - 1 /\ UNCHANGED txfifo
      BY <1>8 DEF Received, Goes
  <2>2. resid \in 1..7
      BY <1>1, <2>1 DEF BytesInv
  <2>3. Words' = Words
    <3>1. Words = 22 - resid /\ Words' = 21 - (resid - 1)
        BY <2>1 DEF Words
    <3> QED BY <2>2, <3>1
  <2>4. Carried' = Carried /\ StreamInv'
      BY <1>2, <2>1, <2>3, PutNothing
  <2>5. RegistersInv'
      BY <1>1, <1>2, <2>4, SameRegisters
  <2> DEFINE new == regs[7 - resid]
  <2>6. new \in 0..255
    <3>1. 7 - resid \in Registers
        BY <2>2 DEF Registers
    <3> QED BY <1>1, <3>1 DEF RegistersInv
  <2>7. rxfifo = <<new>> /\ rxfifo' = <<>> /\ bytes' = Append(bytes, new)
      BY <1>1, <2>1 DEF ReadInv
  <2> HIDE DEF new
  <2>8. /\ bytes \in Seq(0..255) /\ Len(bytes) = 7 - resid
        /\ \A i \in 1..Len(bytes) : bytes[i] = regs[i - 1]
      BY <1>1, <2>1 DEF ReadInv
  <2>9. bytes' \in Seq(0..255) /\ Len(bytes') = 7 - resid'
      BY <2>1, <2>2, <2>6, <2>7, <2>8
  <2>10. ASSUME NEW i \in 1..Len(bytes')
         PROVE  bytes'[i] = regs'[i - 1]
    <3>1. CASE i \in 1..Len(bytes)
        BY <1>5, <2>6, <2>7, <2>8, <3>1
    <3>2. CASE i \notin 1..Len(bytes)
      <4>1. i = Len(bytes) + 1 /\ i - 1 = 7 - resid
          BY <2>1, <2>2, <2>8, <2>9, <3>2
      <4>2. bytes'[i] = new
          BY <2>6, <2>7, <2>8, <4>1
      <4> QED BY <1>5, <4>1, <4>2 DEF new
    <3> QED BY <3>1, <3>2
  <2>11. ReadInv'
      BY <2>1, <2>7, <2>9, <2>10 DEF ReadInv
  <2> QED BY <1>4, <2>4, <2>5, <2>11
<1> QED BY <1>6, <1>7, <1>8

(* The seven bytes are the registers at the start of the reading. *)
LEMMA ReadingEnds ==
    ASSUME TransferInv, FIFO_SIZE >= 15, ReadStop
    PROVE  /\ StreamInv' /\ WriteInv' /\ RegistersInv' /\ ReadInv'
           /\ time_data' = started
<1>1. /\ ClockInv /\ RegistersInv /\ ReadInv /\ AskedInv /\ BytesInv /\ call \in {"none", "set", "get"}
    BY DEF TransferInv, ClockInv, ClockType
<1>2. /\ at = "receive" /\ at' = "none" /\ Put([kind |-> "stop"]) /\ resid = 0
      /\ time_data' = TimeOf(bytes) /\ bytes' = <<>>
      /\ UNCHANGED <<call, resid, rxfifo, rx, regs, pointer, selected, started>>
    BY DEF ReadStop, Goes, UnchangedBus, clock
<1>3. call = "get"
    BY <1>1, <1>2 DEF BytesInv
<1>4. txfifo = <<>> /\ Words = 21 /\ Carried = 21
  <2>1. txfifo = <<>> /\ Carried + Len(txfifo) = Words /\ Carried \in 0..21
    <3>1. ClockInv
        BY <1>1
    <3>2. /\ at = "receive" /\ resid < 7 => Carried >= 15 /\ txfifo = <<>>
          /\ Carried + Len(txfifo) = Words /\ Carried \in 0..21
        BY <3>1, Numbers
    <3> QED BY <1>2, <3>2
  <2>2. Words = 21
      BY <1>2 DEF Words
  <2>3. Len(txfifo) = 0
      BY <2>1, EmptySeq
  <2> QED BY <2>1, <2>2, <2>3
<1>5. txfifo' = <<[kind |-> "stop"]>>
    BY <1>2, <1>4, ClockAssumption DEF Put
<1>6. Words' = 10 /\ Carried' = 9
  <2>1. Words' = 10
      BY <1>2, <1>3 DEF Words
  <2>2. Len(txfifo') = 1
      BY <1>5
  <2> QED BY <2>1, <2>2 DEF Carried
<1>7. StreamInv'
  <2>1. IsWord(time_data', 10, [kind |-> "stop"])
      BY DEF IsWord, Kind
  <2> QED BY <1>5, <1>6, <2>1 DEF StreamInv
<1>8. RegistersInv'
  <2>1. pointer = 0 /\ selected
      BY <1>1, <1>4 DEF RegistersInv, Pointer
  <2>2. Pointer(9) = 0
      BY DEF Pointer
  <2> QED BY <1>1, <1>2, <1>6, <2>1, <2>2 DEF RegistersInv
<1>9. WriteInv' /\ ReadInv'
  <2>1. ~rx /\ rxfifo = <<>>
      BY <1>1, <1>2 DEF AskedInv, ReadInv
  <2> QED BY <1>2, <2>1 DEF WriteInv, ReadInv
<1>10. time_data' = started
  <2>1. \A i \in 1..7 : bytes[i] = regs[i - 1]
    <3>1. Len(bytes) = 7 - resid /\ \A i \in 1..Len(bytes) : bytes[i] = regs[i - 1]
        BY <1>1, <1>2 DEF ReadInv
    <3>2. Len(bytes) = 7
        BY <1>2, <3>1
    <3> QED BY <3>1, <3>2
  <2>2. /\ bytes[1] = regs[0] /\ bytes[2] = regs[1] /\ bytes[3] = regs[2]
        /\ bytes[5] = regs[4] /\ bytes[6] = regs[5] /\ bytes[7] = regs[6]
      BY <2>1
  <2>3. \A a \in Registers \ {3} : regs[a] \in 0..127
    <3>1. \A a \in Registers \ {3} : regs[a] \in 0..255 /\ regs[a] < 128
        BY <1>1 DEF RegistersInv
    <3> QED BY <3>1
  <2>4. \A a \in {0, 1, 2, 4, 5, 6} : _BCD_decimal(regs[a]) = Digits(regs[a])
      BY <2>3, TwoDigits DEF Registers
  <2>5. TimeOf(bytes) = Time(regs)
      BY <2>2, <2>4 DEF TimeOf, Time
  <2>6. started = Time(regs)
      BY <1>1, <1>4 DEF RegistersInv
  <2> QED BY <1>2, <2>5, <2>6
<1> QED BY <1>7, <1>8, <1>9, <1>10

(* The bus carries the next word of the stream. *)
LEMMA ShiftWord ==
    ASSUME TransferInv, Shift
    PROVE  /\ UNCHANGED driver /\ Words' = Words
           /\ Carried' = Carried + 1 /\ Carried' \in 1..21 /\ Len(txfifo) \in Nat
           /\ Carried' = Words - Len(txfifo) + 1
           /\ IsWord(time_data, Carried', Head(txfifo)) /\ Head(txfifo) = txfifo[1]
           /\ StreamInv' /\ WriteInv'
<1>1. /\ ClockInv /\ StreamInv /\ WriteInv /\ txfifo \in Seq(Word)
    BY DEF TransferInv, ClockInv, ClockType
<1>2. txfifo # <<>> /\ txfifo' = Tail(txfifo) /\ UNCHANGED driver
    BY DEF Shift
<1>3. UNCHANGED <<at, call, bytes, resid, time_data>>
    BY <1>2 DEF driver
<1>4. Words' = Words /\ WriteInv'
  <2>1. Left' = Left
      BY <1>3 DEF Left
  <2>2. Words' = Words
      BY <1>3, <2>1 DEF Words
  <2> QED BY <1>1, <1>3, <2>2 DEF WriteInv
<1>5. /\ Head(txfifo) = txfifo[1] /\ Len(Tail(txfifo)) = Len(txfifo) - 1
      /\ \A i \in 1..Len(Tail(txfifo)) : Tail(txfifo)[i] = txfifo[i + 1]
    BY <1>1, <1>2, HeadTailProperties
<1>6. /\ Len(txfifo) \in Nat /\ Words \in 0..21 /\ Carried \in 0..21
      /\ Carried + Len(txfifo) = Words
  <2>1. ClockInv
      BY <1>1
  <2> QED BY <2>1, Numbers
<1>7. Len(txfifo) >= 1
    BY <1>1, <1>2, <1>6, EmptySeq
<1>8. Len(txfifo') = Len(txfifo) - 1
    BY <1>2, <1>5
<1>9. Carried' = Carried + 1 /\ Carried' \in 1..21 /\ Carried' = Words - Len(txfifo) + 1
  <2>1. Carried' = Words - (Len(txfifo) - 1)
      BY <1>4, <1>8 DEF Carried
  <2>2. ASSUME NEW len \in Nat, NEW w \in 0..21, NEW c \in 0..21, c + len = w, len >= 1
        PROVE  w - (len - 1) = c + 1 /\ c + 1 \in 1..21 /\ w - (len - 1) = w - len + 1
      BY <2>2
  <2> QED BY <1>6, <1>7, <2>1, <2>2
<1>10. IsWord(time_data, Carried', Head(txfifo))
  <2>1. 1 \in 1..Len(txfifo)
      BY <1>6, <1>7
  <2> QED BY <1>1, <1>5, <1>9, <2>1 DEF StreamInv
<1>11. ASSUME NEW i \in 1..Len(txfifo')
       PROVE  IsWord(time_data', Carried' + i, txfifo'[i])
  <2>1. i + 1 \in 1..Len(txfifo) /\ i \in 1..Len(Tail(txfifo))
      BY <1>2, <1>6, <1>8
  <2>2. txfifo'[i] = txfifo[i + 1]
      BY <1>2, <1>5, <2>1
  <2>3. Carried' + i = Carried + (i + 1)
      BY <1>6, <1>9
  <2> QED BY <1>1, <1>3, <2>1, <2>2, <2>3 DEF StreamInv
<1>12. StreamInv'
    BY <1>11 DEF StreamInv
<1> QED BY <1>2, <1>4, <1>5, <1>6, <1>9, <1>10, <1>12

(* What each word of the stream does to the clock: an address makes the next byte
   the pointer, which then follows the bytes. *)
LEMMA ShiftRegisters ==
    ASSUME TransferInv, Shift
    PROVE  RegistersInv' /\ (regs' = regs \/ Carried' \in 3..9)
<1> DEFINE word == Head(txfifo)
           n == Carried'
<1>1. /\ n = Carried + 1 /\ n \in 1..21 /\ Carried \in 0..20 /\ UNCHANGED time_data
      /\ IsWord(time_data, n, word)
  <2>1. /\ n = Carried + 1 /\ n \in 1..21 /\ UNCHANGED driver /\ IsWord(time_data, n, word)
      BY ShiftWord
  <2>2. Carried \in 0..21
    <3>1. ClockInv
        BY DEF TransferInv
    <3> QED BY <3>1, Numbers
  <2> QED BY <2>1, <2>2 DEF driver
<1>2. RegistersInv
    BY DEF TransferInv
<1>3. /\ regs' = IF word.kind = "data" /\ pointer # NoPointer
                 THEN [regs EXCEPT ![pointer] = word.byte] ELSE regs
      /\ pointer' = CASE word.kind = "write" -> NoPointer
                      [] word.kind = "data" /\ pointer = NoPointer -> word.byte
                      [] word.kind \in {"data", "receive"} /\ pointer # NoPointer -> (pointer + 1) % 7
                      [] OTHER -> pointer
      /\ selected' = (word.kind # "stop")
      /\ started' = IF word.kind = "read" THEN Time(regs) ELSE started
    BY DEF Shift
<1>4. pointer = Pointer(Carried)
    BY <1>2 DEF RegistersInv
<1>5. word.kind = Kind(n) /\ (word.kind = "data" => ByteOf(time_data, n, word.byte))
    BY <1>1 DEF IsWord
<1> HIDE DEF word, n
<1>6. selected' <=> n \notin {0, 10, 13}
  <2>1. word.kind = "stop" <=> n \in {10, 13}
      BY <1>1, <1>5 DEF Kind
  <2>2. n # 0
      BY <1>1
  <2> QED BY <1>3, <2>1, <2>2, Zenon
<1>7. pointer' = Pointer(n)
  <2>1. CASE n \in {1, 11}
      BY <1>3, <1>5, <2>1 DEF Kind, Pointer
  <2>2. CASE n \in {2, 12}
    <3>1. pointer = NoPointer /\ word.kind = "data" /\ word.byte = 0
        BY <1>1, <1>4, <1>5, <2>2 DEF Kind, Pointer, ByteOf
    <3>2. pointer' = 0
        BY <1>3, <3>1
    <3> QED BY <2>2, <3>2 DEF Pointer
  <2>3. CASE n \in 3..9
    <3>1. pointer = n - 3 /\ word.kind = "data"
        BY <1>1, <1>4, <1>5, <2>3 DEF Kind, Pointer
    <3>2. pointer' = (n - 2) % 7
        BY <1>3, <2>3, <3>1 DEF NoPointer
    <3> QED BY <2>3, <3>2 DEF Pointer
  <2>4. CASE n \in {10, 13, 14}
    <3>1. pointer = 0 /\ word.kind \in {"stop", "read"}
        BY <1>1, <1>4, <1>5, <2>4 DEF Kind, Pointer
    <3>2. pointer' = 0
        BY <1>3, <3>1
    <3> QED BY <2>4, <3>2 DEF Pointer
  <2>5. CASE n \in 15..21
    <3>1. pointer = n - 15 /\ word.kind = "receive"
        BY <1>1, <1>4, <1>5, <2>5 DEF Kind, Pointer
    <3>2. pointer' = (n - 14) % 7
        BY <1>3, <2>5, <3>1 DEF NoPointer
    <3> QED BY <2>5, <3>2 DEF Pointer
  <2> QED BY <1>1, <2>1, <2>2, <2>3, <2>4, <2>5
<1>8. CASE n \in 3..9
  <2>1. pointer = n - 3 /\ word.kind = "data" /\ pointer # NoPointer
      BY <1>1, <1>4, <1>5, <1>8 DEF Kind, Pointer, NoPointer
  <2>2. regs' = [regs EXCEPT ![n - 3] = word.byte]
      BY <1>3, <2>1
  <2>3. time_data \in Times /\ regs \in [Registers -> 0..255]
      BY <1>1, <1>2, <1>8 DEF RegistersInv
  <2>4. word.byte \in 0..255 /\ (n # 6 => word.byte = _decimal_BCD(Field(time_data, n - 3)))
      BY <1>5, <1>8, <2>1 DEF ByteOf
  <2>5. n # 6 => word.byte < 128
    <3>1. n # 6 => Field(time_data, n - 3) \in 0..79
      <4>1. n # 6 => n - 3 \in {0, 1, 2, 4, 5, 6}
          BY <1>8
      <4>2. \A a \in {0, 1, 2, 4, 5, 6} : Field(time_data, a) \in 0..79
          BY <2>3, FieldsOfTimes DEF Field
      <4> QED BY <4>1, <4>2
    <3>2. n # 6 => word.byte \in 0..127
        BY <2>4, <3>1, TwoDigits
    <3> QED BY <3>2
  <2>6. n - 3 \in Registers
      BY <1>8 DEF Registers
  <2>7. /\ regs' \in [Registers -> 0..255]
        /\ \A a \in Registers : regs'[a] = IF a = n - 3 THEN word.byte ELSE regs[a]
      BY <2>2, <2>3, <2>4, <2>6
  <2>8. \A a \in Registers \ {3} : regs'[a] < 128
    <3>1. \A a \in Registers \ {3} : regs[a] < 128
        BY <1>2 DEF RegistersInv
    <3>2. n - 3 # 3 => n # 6
        BY <1>8
    <3> QED BY <2>5, <2>7, <3>1, <3>2
  <2>9. ASSUME n \in 3..8, NEW a \in 0..(n - 3), a # 3
        PROVE  regs'[a] = _decimal_BCD(Field(time_data', a))
    <3>1. a \in Registers
        BY <2>9 DEF Registers
    <3>2. CASE a = n - 3
        BY <1>1, <1>8, <2>4, <2>7, <2>9, <3>1, <3>2
    <3>3. CASE a # n - 3
      <4>1. Carried \in 3..8 /\ a \in 0..(Carried - 3)
          BY <1>1, <2>9, <3>3
      <4>2. regs[a] = _decimal_BCD(Field(time_data, a))
          BY <1>2, <2>9, <4>1 DEF RegistersInv
      <4> QED BY <1>1, <2>7, <3>1, <3>3, <4>2
    <3> QED BY <3>2, <3>3
  <2>10. ~(n >= 14)
      BY <1>8
  <2>11. Carried' = n
      BY DEF n
  <2>12. RegistersInv'
      BY <1>1, <1>6, <1>7, <2>3, <2>7, <2>8, <2>9, <2>10, <2>11 DEF RegistersInv
  <2> QED BY <1>8, <2>11, <2>12
<1>9. CASE n \notin 3..9
  <2>1. regs' = regs
    <3>1. CASE n \in {2, 12}
      <4>1. pointer = NoPointer
          BY <1>1, <1>4, <3>1 DEF Pointer
      <4> QED BY <1>3, <4>1
    <3>2. CASE n \notin {2, 12}
      <4>1. word.kind # "data"
          BY <1>1, <1>5, <1>9, <3>2 DEF Kind
      <4> QED BY <1>3, <4>1
    <3> QED BY <3>1, <3>2
  <2>2. n >= 14 => started' = Time(regs')
    <3>1. CASE n = 14
      <4>1. word.kind = "read"
          BY <1>5, <3>1 DEF Kind
      <4> QED BY <1>3, <2>1, <4>1
    <3>2. CASE n > 14
      <4>1. word.kind # "read" /\ Carried >= 14
          BY <1>1, <1>5, <3>2 DEF Kind
      <4> QED BY <1>2, <1>3, <2>1, <4>1 DEF RegistersInv
    <3> QED BY <1>1, <3>1, <3>2
  <2>3. /\ n <= 8 => time_data' \in Times
        /\ regs' \in [Registers -> 0..255] /\ \A a \in Registers \ {3} : regs'[a] < 128
    <3>1. n <= 8 => Carried <= 8
        BY <1>1
    <3> QED BY <1>1, <1>2, <2>1, <3>1 DEF RegistersInv
  <2>4. Carried' = n
      BY DEF n
  <2>5. n \notin 3..8
      BY <1>9
  <2>6. RegistersInv'
      BY <1>6, <1>7, <2>2, <2>3, <2>4, <2>5 DEF RegistersInv
  <2> QED BY <2>1, <2>6
<1> QED BY <1>8, <1>9

(* The byte asked for is the register after those already read. *)
LEMMA ShiftTransfer ==
    ASSUME TransferInv, Shift
    PROVE  StreamInv' /\ WriteInv' /\ RegistersInv' /\ ReadInv'
<1>1. /\ ClockInv /\ RegistersInv /\ ReadInv /\ AskedInv /\ BytesInv /\ txfifo \in Seq(Word)
      /\ resid \in 0..8
    BY DEF TransferInv, ClockInv, ClockType
<1>2. /\ UNCHANGED <<at, bytes, resid>> /\ Carried' = Carried + 1 /\ Carried' \in 1..21
      /\ Len(txfifo) \in Nat /\ Carried' = Words - Len(txfifo) + 1
      /\ Head(txfifo) = txfifo[1] /\ StreamInv' /\ WriteInv' /\ Carried \in 0..20
  <2>1. Carried \in 0..21
      BY <1>1, Numbers
  <2> QED BY <2>1, ShiftWord DEF driver
<1>3. RegistersInv' /\ (regs' = regs \/ Carried' \in 3..9)
    BY ShiftRegisters
<1>4. txfifo # <<>> /\ ~rx /\ rxfifo = <<>>
    BY <1>1 DEF Shift, AskedInv, ReadInv
<1>5. ASSUME at' \in {"receive", "wait"}
      PROVE  /\ bytes' \in Seq(0..255) /\ Len(bytes') = 7 - resid'
             /\ \A i \in 1..Len(bytes') : bytes'[i] = regs'[i - 1]
  <2>1. /\ at \in {"receive", "wait"} /\ bytes \in Seq(0..255) /\ Len(bytes) = 7 - resid
        /\ resid <= 7 /\ \A i \in 1..Len(bytes) : bytes[i] = regs[i - 1]
      BY <1>1, <1>2, <1>5 DEF ReadInv, BytesInv
  <2>2. CASE resid = 7
    <3>1. Len(bytes) = 0
        BY <2>1, <2>2
    <3> QED BY <1>2, <2>1, <3>1
  <2>3. CASE resid # 7
    <3>1. resid < 7
        BY <1>1, <2>1, <2>3
    <3>2. Carried >= 14
        BY <1>1, <1>2, <2>1, <3>1, Numbers
    <3>3. regs' = regs
        BY <1>2, <1>3, <3>2
    <3> QED BY <1>2, <2>1, <3>3
  <2> QED BY <2>2, <2>3
<1>6. rxfifo' = IF rx' THEN <<regs'[7 - resid']>> ELSE <<>>
  <2>1. CASE txfifo[1].kind = "receive"
    <3>1. 1 \in 1..Len(txfifo)
      <4>1. Len(txfifo) # 0
          BY <1>1, <1>4, EmptySeq
      <4> QED BY <1>2, <4>1
    <3>2. at = "wait" /\ Len(txfifo) = 1
        BY <1>1, <2>1, <3>1 DEF AskedInv
    <3>3. resid \in 1..7 /\ Words = 22 - resid
        BY <1>1, <3>2 DEF BytesInv, Words
    <3>4. Carried = 21 - resid
        BY <1>2, <3>2, <3>3
    <3>5. pointer = 7 - resid
      <4>1. pointer = Pointer(21 - resid)
          BY <1>1, <3>4 DEF RegistersInv
      <4> QED BY <3>3, <4>1 DEF Pointer
    <3>6. rx' /\ rxfifo' = Append(rxfifo, regs[pointer])
        BY <1>2, <2>1 DEF Shift
    <3>7. regs' = regs
        BY <1>2, <1>3, <3>3, <3>4
    <3> QED BY <1>2, <1>4, <3>5, <3>6, <3>7
  <2>2. CASE txfifo[1].kind # "receive"
    <3>1. ~rx' /\ rxfifo' = rxfifo
        BY <1>2, <1>4, <2>2 DEF Shift
    <3> QED BY <1>4, <3>1
  <2> QED BY <2>1, <2>2
<1>7. at' = "rstart" => bytes' = <<>>
    BY <1>1, <1>2 DEF ReadInv
<1>8. ReadInv'
    BY <1>5, <1>6, <1>7 DEF ReadInv
<1> QED BY <1>2, <1>3, <1>8

(* Time passes only between two transfers, when nothing is claimed of it. *)
LEMMA TickTransfer ==
    ASSUME TransferInv, Tick
    PROVE  StreamInv' /\ WriteInv' /\ RegistersInv' /\ ReadInv'
<1>1. /\ ClockInv /\ RegistersInv /\ ReadInv /\ WriteInv /\ AskedInv /\ BytesInv /\ resid \in 0..8
    BY DEF TransferInv, ClockInv, ClockType
<1>2. UNCHANGED <<at, call, bytes, resid, time_data, txfifo, rxfifo, rx, pointer, selected, started>>
    BY DEF Tick, driver
<1>3. Words' = Words
  <2>1. Left' = Left
      BY <1>2 DEF Left
  <2> QED BY <1>2, <2>1 DEF Words
<1>4. Carried' = Carried /\ StreamInv'
    BY <1>2, <1>3, PutNothing
<1>5. WriteInv'
    BY <1>1, <1>2 DEF WriteInv
<1>6. Carried \in {0, 10, 13}
    BY <1>1 DEF Tick, RegistersInv
<1>7. PICK t \in Times : regs' = Registered(t, regs[3])
    BY DEF Tick
<1>8. regs' \in [Registers -> 0..255] /\ \A a \in Registers \ {3} : regs'[a] < 128
  <2> DEFINE digits(v) == (v \div 10) * 16 + (v % 10)
  <2>1. \A v \in 0..79 : digits(v) \in 0..255 /\ digits(v) < 128
      OBVIOUS
  <2>2. /\ t.tm_sec \in 0..79 /\ t.tm_min \in 0..79 /\ t.tm_hour \in 0..79
        /\ t.tm_mday \in 0..79 /\ t.tm_mon \in 0..79 /\ t.tm_year \in 0..79
      BY FieldsOfTimes
  <2>3. regs[3] \in 0..255
      BY <1>1 DEF RegistersInv, Registers
  <2>4. regs' = [a \in Registers |->
                   CASE a = 0 -> digits(t.tm_sec) [] a = 1 -> digits(t.tm_min)
                     [] a = 2 -> digits(t.tm_hour) [] a = 3 -> regs[3]
                     [] a = 4 -> digits(t.tm_mday) [] a = 5 -> digits(t.tm_mon)
                     [] OTHER -> digits(t.tm_year)]
      BY <1>7 DEF Registered
  <2> HIDE DEF digits
  <2>5. /\ digits(t.tm_sec) \in 0..255 /\ digits(t.tm_sec) < 128
        /\ digits(t.tm_min) \in 0..255 /\ digits(t.tm_min) < 128
        /\ digits(t.tm_hour) \in 0..255 /\ digits(t.tm_hour) < 128
        /\ digits(t.tm_mday) \in 0..255 /\ digits(t.tm_mday) < 128
        /\ digits(t.tm_mon) \in 0..255 /\ digits(t.tm_mon) < 128
        /\ digits(t.tm_year) \in 0..255 /\ digits(t.tm_year) < 128
      BY <2>1, <2>2
  <2> QED BY <2>3, <2>4, <2>5
<1>9. RegistersInv'
    BY <1>1, <1>2, <1>4, <1>6, <1>8 DEF RegistersInv
<1>10. ReadInv'
  <2>1. ~(Carried >= 14)
      BY <1>6
  <2>2. at \in {"receive", "wait"} => Len(bytes) = 0
    <3>1. at = "wait" /\ resid < 7 => Carried >= 14
        BY <1>1, Numbers
    <3>2. at = "receive" /\ resid < 7 => Carried >= 15
        BY <1>1, Numbers
    <3>3. at \in {"receive", "wait"} => resid = 7
        BY <1>1, <1>6, <3>1, <3>2 DEF BytesInv
    <3> QED BY <1>1, <3>3 DEF ReadInv
  <2>3. ~rx /\ rxfifo = <<>>
    <3>1. ASSUME rx PROVE FALSE
      <4>1. at = "wait" /\ txfifo = <<>>
          BY <1>1, <3>1 DEF AskedInv
      <4>2. Len(txfifo) = 0 /\ Carried + Len(txfifo) = Words
          BY <1>1, <4>1, EmptySeq, Numbers
      <4>3. Words = 22 - resid /\ resid <= 7
          BY <1>1, <4>1 DEF Words, BytesInv
      <4> QED BY <1>1, <1>6, <4>2, <4>3
    <3> QED BY <1>1, <3>1 DEF ReadInv
  <2> QED BY <1>1, <1>2, <2>2, <2>3 DEF ReadInv
<1> QED BY <1>4, <1>5, <1>9, <1>10

(* Only the bus takes a word from the FIFO. *)
LEMMA OnlyBusTakes ==
    ASSUME TransferInv, [Next]_cvars, txfifo # <<>>, txfifo' = Tail(txfifo)
    PROVE  Shift
<1>1. txfifo \in Seq(Word)
    BY DEF TransferInv, ClockInv, ClockType
<1>2. Len(txfifo) \in Nat /\ Len(txfifo') = Len(txfifo) - 1
    BY <1>1, HeadTailProperties
<1>3. ASSUME txfifo' = txfifo PROVE FALSE
  <2>1. Len(txfifo') = Len(txfifo)
      BY <1>3
  <2> QED BY <1>2, <2>1
<1>4. ASSUME NEW word \in Word, Put(word)
      PROVE  FALSE
  <2>1. txfifo' = Append(txfifo, word)
      BY <1>3, <1>4 DEF Put
  <2>2. Len(txfifo') = Len(txfifo) + 1
      BY <1>1, <2>1
  <2> QED BY <1>2, <2>2
<1>5. ~(\E day \in DayBytes : SetTime(day)) /\ ~GetTime /\ ~AckOrTimeout /\ ~Received /\ ~Tick
      /\ cvars' # cvars
    BY <1>3 DEF SetTime, GetTime, AckOrTimeout, Received, Tick, UnchangedChannel, cvars
<1>6. ~WriteStart /\ ~WriteStop /\ ~ReadStart /\ ~Receive /\ ~ReadStop
  <2>1. {[kind |-> "write"], [kind |-> "stop"], [kind |-> "read"], [kind |-> "receive"]} \subseteq Word
      BY DEF Word
  <2> QED BY <1>4, <2>1 DEF WriteStart, WriteStop, ReadStart, Receive, ReadStop
<1>7. ~Send
  <2> SUFFICES ASSUME Send PROVE FALSE
      OBVIOUS
  <2>1. at = "send" /\ resid > 0 /\ Put([kind |-> "data", byte |-> Head(bytes)])
      BY DEF Send
  <2>2. bytes \in Seq(Int) /\ Len(bytes) = resid
      BY <2>1 DEF TransferInv, ClockInv, BytesInv
  <2>3. bytes # <<>>
      BY <2>1, <2>2, EmptySeq
  <2>4. Head(bytes) \in Int
      BY <2>2, <2>3, HeadTailProperties
  <2>5. [kind |-> "data", byte |-> Head(bytes)] \in Word
      BY <2>4 DEF Word
  <2> QED BY <1>4, <2>1, <2>5
<1> QED BY <1>5, <1>6, <1>7 DEF Next, Ioctl

(* What the last data word of the setting leaves in the registers. *)
LEMMA SettingEnds ==
    ASSUME TransferInv, Shift, pointer = 6, Head(txfifo).kind = "data"
    PROVE  Time(regs') = time_data
<1>1. /\ RegistersInv /\ Carried' = Carried + 1 /\ Carried' \in 1..21 /\ Carried \in 0..20
      /\ IsWord(time_data, Carried + 1, Head(txfifo))
  <2>1. Carried \in 0..21
    <3>1. ClockInv
        BY DEF TransferInv
    <3> QED BY <3>1, Numbers
  <2> QED BY <2>1, ShiftWord DEF TransferInv
<1>2. Carried = 8
  <2>1. Carried \in {8, 20}
      BY <1>1 DEF RegistersInv, Pointer, NoPointer
  <2>2. Carried # 20
      BY <1>1 DEF IsWord, Kind
  <2> QED BY <2>1, <2>2
<1>3. time_data \in Times /\ regs \in [Registers -> 0..255]
    BY <1>1, <1>2 DEF RegistersInv
<1>4. /\ regs[0] = _decimal_BCD(time_data.tm_sec) /\ regs[1] = _decimal_BCD(time_data.tm_min)
      /\ regs[2] = _decimal_BCD(time_data.tm_hour) /\ regs[4] = _decimal_BCD(time_data.tm_mday)
      /\ regs[5] = _decimal_BCD(time_data.tm_mon)
  <2>1. \A a \in 0..5 : a # 3 => regs[a] = _decimal_BCD(Field(time_data, a))
      BY <1>1, <1>2 DEF RegistersInv
  <2>2. \A a \in {0, 1, 2, 4, 5} : regs[a] = _decimal_BCD(Field(time_data, a))
      BY <2>1
  <2> QED BY <2>2 DEF Field
<1>5. /\ regs' = [regs EXCEPT ![pointer] = Head(txfifo).byte]
      /\ Head(txfifo).byte = _decimal_BCD(time_data.tm_year)
  <2>1. pointer # NoPointer
      BY DEF NoPointer
  <2>2. Head(txfifo).byte = _decimal_BCD(Field(time_data, 6))
      BY <1>1, <1>2 DEF IsWord, ByteOf
  <2> QED BY <2>1, <2>2 DEF Shift, Field
<1>6. /\ regs'[0] = regs[0] /\ regs'[1] = regs[1] /\ regs'[2] = regs[2] /\ regs'[4] = regs[4]
      /\ regs'[5] = regs[5] /\ regs'[6] = _decimal_BCD(time_data.tm_year)
    BY <1>3, <1>5 DEF Registers
<1>7. \A v \in 0..79 : Digits(_decimal_BCD(v)) = v
    BY TwoDigits
<1>8. /\ time_data.tm_sec \in 0..79 /\ time_data.tm_min \in 0..79 /\ time_data.tm_hour \in 0..79
      /\ time_data.tm_mday \in 0..79 /\ time_data.tm_mon \in 0..79 /\ time_data.tm_year \in 0..79
      /\ time_data = [tm_sec |-> time_data.tm_sec, tm_min |-> time_data.tm_min,
                      tm_hour |-> time_data.tm_hour, tm_mday |-> time_data.tm_mday,
                      tm_mon |-> time_data.tm_mon, tm_year |-> time_data.tm_year]
    BY <1>3, FieldsOfTimes
<1>9. Time(regs') = [tm_sec |-> time_data.tm_sec, tm_min |-> time_data.tm_min,
                     tm_hour |-> time_data.tm_hour, tm_mday |-> time_data.tm_mday,
                     tm_mon |-> time_data.tm_mon, tm_year |-> time_data.tm_year]
    BY <1>4, <1>6, <1>7, <1>8 DEF Time
<1> QED BY <1>8, <1>9

(* Every word on its way is the one its place in the stream asks for, and the
   clock is where the words carried so far have brought it. *)
THEOREM TransferSpecInv ==
    ASSUME FIFO_SIZE >= 15
    PROVE  Spec => []TransferInv
<1>1. Init => ClockInv /\ StreamInv /\ WriteInv /\ RegistersInv /\ ReadInv
  <2> SUFFICES ASSUME Init
               PROVE  ClockInv /\ StreamInv /\ WriteInv /\ RegistersInv /\ ReadInv
      OBVIOUS
  <2>1. ClockInv
      BY InitClock
  <2>2. /\ at = "none" /\ call = "none" /\ txfifo = <<>> /\ rxfifo = <<>> /\ rx = FALSE
        /\ regs = [a \in Registers |-> 1] /\ pointer = 0 /\ selected = FALSE
        /\ time_data \in Times
      BY DEF Init
  <2>3. Carried = 0 /\ Len(txfifo) = 0
    <3>1. Words = 0
        BY <2>2 DEF Words
    <3>2. Len(txfifo) = 0
        BY <2>2
    <3> QED BY <3>1, <3>2 DEF Carried
  <2>4. StreamInv /\ WriteInv /\ ReadInv
      BY <2>2, <2>3 DEF StreamInv, WriteInv, ReadInv
  <2>5. RegistersInv
      BY <2>2, <2>3 DEF RegistersInv, Pointer
  <2> QED BY <2>1, <2>4, <2>5
<1>2. TransferInv /\ [Next]_cvars /\ ClockInv' => TransferInv'
  <2> SUFFICES ASSUME TransferInv, [Next]_cvars, ClockInv'
               PROVE  StreamInv' /\ WriteInv' /\ RegistersInv' /\ ReadInv'
      BY DEF TransferInv
  <2>1. CASE UNCHANGED cvars
    <3>1. UNCHANGED <<at, call, bytes, resid, time_data, txfifo, rxfifo, rx, clock>>
        BY <2>1 DEF cvars, driver
    <3>2. Left' = Left
        BY <3>1 DEF Left
    <3>3. Words' = Words
        BY <3>1, <3>2 DEF Words
    <3>4. Carried' = Carried /\ StreamInv'
        BY <3>1, <3>3, PutNothing
    <3>5. RegistersInv /\ ReadInv /\ WriteInv
        BY DEF TransferInv
    <3>6. RegistersInv'
        BY <3>1, <3>4, <3>5, SameRegisters
    <3> QED BY <3>1, <3>4, <3>5, <3>6 DEF ReadInv, WriteInv, clock
  <2> QED BY <2>1, CallTransfer, WriteTransfer, ReadTransfer, ReadingEnds, ShiftTransfer,
             TickTransfer DEF Next, Ioctl
<1>3. ClockInv /\ StreamInv /\ WriteInv /\ RegistersInv /\ ReadInv <=> TransferInv
    BY DEF TransferInv
<1> QED BY <1>1, <1>2, <1>3, ClockSpecInv, PTL DEF Spec

(* RTC_IOCTL_GET_TIME returns the time that the clock showed at the start of the
   reading, every field from its register, whatever setting the bus still carried
   when the call began. *)
THEOREM ReadsClockAlways ==
    ASSUME FIFO_SIZE >= 15
    PROVE  Spec => ReadsClock
<1>1. TransferInv /\ [Next]_cvars => [at = "receive" /\ at' = "none" => time_data' = started]_cvars
  <2> SUFFICES ASSUME TransferInv, [Next]_cvars, at = "receive", at' = "none"
               PROVE  time_data' = started
      OBVIOUS
  <2>1. ReadStop
      BY DEF Next, Ioctl, SetTime, GetTime, WriteStart, AckOrTimeout, Send, WriteStop, ReadStart,
             Receive, Received, ReadStop, Shift, Tick, Goes, driver, cvars
  <2> QED BY <2>1, ReadingEnds
<1> QED BY <1>1, TransferSpecInv, PTL DEF Spec, ReadsClock

(* RTC_IOCTL_SET_TIME: when the bus has carried the last byte the clock shows the
   time of the call, every field in its own register. *)
THEOREM SetsClockAlways ==
    ASSUME FIFO_SIZE >= 15
    PROVE  Spec => SetsClock
<1>1. TransferInv /\ [Next]_cvars
        => [pointer = 6 /\ txfifo # <<>> /\ Head(txfifo).kind = "data" /\ txfifo' = Tail(txfifo)
              => Time(regs') = time_data]_cvars
    BY OnlyBusTakes, SettingEnds
<1> QED BY <1>1, TransferSpecInv, PTL DEF Spec, SetsClock
=============================================================================
