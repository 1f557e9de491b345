----------------------------- MODULE MmcProofs -----------------------------
(***************************************************************************)
(* A write changes exactly its own bytes of the card, a read delivers      *)
(* exactly the bytes at its offset, and a card that dev_open accepts is    *)
(* used with its own block sizes, for every set of cards whose read blocks *)
(* have at most 512 bytes, every capacity, data, lengths of the calls and  *)
(* moves of the offset.                                                    *)
(*                                                                         *)
(* The terms of Mmc are first written as operators of the values they      *)
(* depend on; then what the driver holds at each exchange (MmcInv), the    *)
(* arithmetic of the addresses, and one lemma per group of actions.        *)
(***************************************************************************)
EXTENDS Mmc, MmcRegistersProofs, SequenceTheorems

(* Sector, ReadOffset, Place and Received for an offset o, a card c with the
   memory m, and blocks of size bytes. *)
SectorOf(o, size) == (o % WORD) \div size
ReadOffsetOf(o, size) == (o % WORD) % size
PlaceOf(c, o, size, block_size) ==
    LET address == (SectorOf(o, size) * block_size) % WORD
    IN  IF Sdhc(c) THEN address * 2^c.read_bl_len ELSE address
ReceivedFrom(m, place, size, crc) ==
    LET stream == [i \in 1..size |-> m[place + i - 1]] \o crc
        first == Min({i \in DOMAIN stream : stream[i] # FF})
        byte(i) == IF i \in DOMAIN stream THEN stream[i] ELSE FF
    IN  [i \in 1..size |-> byte(first + i - 1)]

(* A checksum after the data, of which the model excludes the idle byte. *)
Crcs == [1..2 -> Bytes \ {FF}]

(* The buffer b holds the sector of m at place with the bytes of the call k in
   their position. *)
Modified(b, k, m, place, o, size) ==
    \E crc \in Crcs :
        b = [i \in 1..size |-> IF i - ReadOffsetOf(o, size) \in 1..k.count
                               THEN k.bytes[i - ReadOffsetOf(o, size)]
                               ELSE ReceivedFrom(m, place, size, crc)[i]]

(* The exchanges of dev_open, and those of dev_read and dev_write. *)
OpenExchanges == {"to_idle", "cmd8", "power_up", "not_ready", "ocr", "csd", "cid"}
TransferExchanges == {"transfer", "status", "start", "data", "write_status"}

(* A byte of the card: a byte of data, or the idle byte that mmc_read puts at
   the end of a sector whose first bytes it has skipped. *)
Stored == Bytes \cup {FF}
Memory == [0..(Capacity - 1) -> Stored]

(* The card stays the one it is, with all its bytes. *)
CardInv == card \in Cards /\ mem \in Memory

(* The offset of the vnode is a signed number of 32 bits. *)
OffsetInv == offset \in (-(WORD \div 2))..((WORD \div 2) - 1)

(* No call is in progress between two calls; the exchanges of dev_open are its
   own, and what it leaves in mmc_info is the geometry of the card. *)
OpenInv ==
    /\ at \in {"none"} \cup OpenExchanges \cup TransferExchanges
    /\ at = "none" => call = NoCall
    /\ at \in OpenExchanges => call.op = "open" /\ ~opened
    /\ opened \/ at = "cid" => Decoded(card, info)

(* The call k is a dev_read or a dev_write. *)
Transfer(k) ==
    /\ k.op \in {"read", "write"} /\ k.count \in Nat \ {0}
    /\ k.op = "write" => k.bytes \in [1..k.count -> Bytes]

(* So many bytes from the offset o do not cross the end of their sector. *)
InBlock(o, count, size) == count + ReadOffsetOf(o, size) <= size

(* A transfer works on a card that is open; nothing is counted down before the
   data have come; from the command on the bytes lie in one sector, with the
   data this sector is on the card, and what is about to be stored is the sector
   as it is on the card with the caller's bytes in it. *)
TransferInv ==
    /\ at \in TransferExchanges => opened /\ Transfer(call)
    /\ at \in TransferExchanges \ {"write_status"} => resid = call.count
    /\ at \in {"status", "start", "data", "write_status"} => InBlock(offset, call.count, BlockSize)
    /\ at = "data" => PlaceOf(card, offset, BlockSize, BlockSize) < Capacity
    /\ at = "write_status" =>
          /\ call.op = "write" /\ resid = 0
          /\ PlaceOf(card, offset, BlockSize, BlockSize) < Capacity
          /\ Modified(buf, call, mem, PlaceOf(card, offset, BlockSize, BlockSize), offset, BlockSize)

MmcInv == CardInv /\ OffsetInv /\ OpenInv /\ TransferInv

-----------------------------------------------------------------------------
(* A block of a card is some bytes long and divides its capacity. *)
LEMMA BlockLength == ASSUME NEW c \in Cards
                     PROVE  /\ 2^c.read_bl_len \in Nat \ {0}
                            /\ Capacity % 2^c.read_bl_len = 0
<1> DEFINE power(i) == 2^i
<1>1. power(c.read_bl_len) \in Nat \ {0}
  <2>1. /\ power(0) \in Nat \ {0} /\ power(1) \in Nat \ {0} /\ power(2) \in Nat \ {0}
        /\ power(3) \in Nat \ {0} /\ power(4) \in Nat \ {0} /\ power(5) \in Nat \ {0}
        /\ power(6) \in Nat \ {0} /\ power(7) \in Nat \ {0} /\ power(8) \in Nat \ {0}
        /\ power(9) \in Nat \ {0}
    BY Powers
  <2>2. c.read_bl_len \in 0..9
    BY CardsAssumption
  <2> HIDE DEF power
  <2> QED BY <2>1, <2>2
<1> QED BY <1>1, MmcAssumption

(* The word of the processor has a signed half, and the card lies in it. *)
LEMMA Halved == /\ WORD \div 2 \in Nat /\ WORD = 2 * (WORD \div 2) /\ Capacity <= WORD \div 2
                /\ Capacity \in Nat \ {0} /\ WORD \in Nat \ {0}
<1>1. WORD \in Nat /\ WORD % 2 = 0 /\ Capacity \in Nat \ {0} /\ WORD >= 2 * Capacity
  BY MmcAssumption
<1>2. WORD \in Nat /\ WORD % 2 = 0 => WORD \div 2 \in Nat /\ WORD = 2 * (WORD \div 2)
  OBVIOUS
<1> QED BY <1>1, <1>2

(* An offset in unsigned arithmetic is itself, or beyond the signed half. *)
LEMMA Wrapped ==
    ASSUME NEW o \in (-(WORD \div 2))..((WORD \div 2) - 1)
    PROVE  o % WORD \in 0..(WORD - 1) /\ (o % WORD < WORD \div 2 => o % WORD = o)
<1>1. /\ WORD \div 2 \in Nat /\ WORD = 2 * (WORD \div 2) /\ WORD \in Nat \ {0}
  BY Halved
<1>2. CASE o >= 0
  <2>1. o \in 0..(WORD - 1)
    BY <1>1, <1>2
  <2> QED BY <2>1, <1>1
<1>3. CASE o < 0
  <2>1. o + WORD \in 0..(WORD - 1) /\ ~(o + WORD < WORD \div 2)
    BY <1>1, <1>3
  <2>2. o % WORD = o + WORD
    BY <1>1, <1>3, <2>1
  <2> QED BY <2>1, <2>2
<1> QED BY <1>2, <1>3

(* q and r are the quotient and the remainder of u by B. *)
IsQuotient(u, B, q, r) == q = u \div B /\ r = u % B

(* A quotient and a remainder as two numbers; a block that begins below a
   multiple of its length ends there too. *)
LEMMA Division ==
    ASSUME NEW B \in Nat \ {0}, NEW C \in Nat, C % B = 0, NEW u \in Nat,
           NEW q, NEW r, IsQuotient(u, B, q, r)
    PROVE  /\ q \in Nat /\ r \in 0..(B - 1) /\ q * B \in Nat /\ q * B + r = u
           /\ q * B < C => q * B + B <= C
<1>0. q = u \div B /\ r = u % B
  BY DEF IsQuotient
<1>1. q \in Nat /\ r \in 0..(B - 1) /\ u = q * B + r
  BY <1>0
<1>2. PICK k : k = C \div B
  OBVIOUS
<1>3. k \in Nat /\ C = k * B
  BY <1>2
<1>4. q * B \in Nat
  BY <1>1
<1>5. q * B < k * B => q * B + B <= k * B
  BY <1>1, <1>3
<1> QED BY <1>1, <1>3, <1>4, <1>5

(* An offset is that of its sector plus its position in the sector. *)
LEMMA InSector ==
    ASSUME NEW B \in Nat \ {0}, Capacity % B = 0, NEW o, o % WORD \in Nat
    PROVE  /\ SectorOf(o, B) \in Nat /\ ReadOffsetOf(o, B) \in 0..(B - 1)
           /\ SectorOf(o, B) * B \in Nat /\ SectorOf(o, B) * B + ReadOffsetOf(o, B) = o % WORD
           /\ SectorOf(o, B) * B < Capacity => SectorOf(o, B) * B + B <= Capacity
<1>1. PICK u, q, r : u = o % WORD /\ q = SectorOf(o, B) /\ r = ReadOffsetOf(o, B)
  OBVIOUS
<1>2. IsQuotient(u, B, q, r)
  BY <1>1 DEF SectorOf, ReadOffsetOf, IsQuotient
<1>3. u \in Nat /\ Capacity \in Nat
  BY <1>1, Halved
<1>4. /\ q \in Nat /\ r \in 0..(B - 1) /\ q * B \in Nat /\ q * B + r = u
      /\ q * B < Capacity => q * B + B <= Capacity
  BY <1>2, <1>3, Division
<1> QED BY <1>1, <1>4

(* A block that begins on the card ends on the card. *)
LEMMA Multiple ==
    ASSUME NEW B \in Nat \ {0}, Capacity % B = 0, NEW k \in Nat, k * B < Capacity
    PROVE  k * B \in Nat /\ k * B + B <= Capacity
<1>1. PICK n : n = Capacity \div B
  OBVIOUS
<1>2. Capacity \in Nat /\ n \in Nat /\ Capacity = n * B
  BY <1>1, Halved
<1>3. k * B < n * B => k * B + B <= n * B
  BY <1>2
<1>4. k * B \in Nat
  OBVIOUS
<1> QED BY <1>2, <1>3, <1>4

(* The sector of an offset, if it begins on the card, lies on the card, and it
   contains the offset if driver and card understand each other: an offset below
   zero would be beyond the signed half, where there is no card. *)
LEMMA Placed ==
    ASSUME NEW c \in Cards, NEW o \in (-(WORD \div 2))..((WORD \div 2) - 1),
           NEW B, B = 2^c.read_bl_len, NEW base, base = PlaceOf(c, o, B, B), base < Capacity
    PROVE  /\ B \in Nat \ {0} /\ base \in Nat /\ base + B <= Capacity
           /\ ReadOffsetOf(o, B) \in 0..(B - 1)
           /\ ~Sdhc(c) \/ SectorOf(o, B) = 0
                => base = SectorOf(o, B) * B /\ base + ReadOffsetOf(o, B) = o
<1> DEFINE q == SectorOf(o, B)
           r == ReadOffsetOf(o, B)
           u == o % WORD
<1>1. B \in Nat \ {0} /\ Capacity % B = 0
  BY BlockLength
<1>2. u \in 0..(WORD - 1) /\ (u < WORD \div 2 => u = o)
  BY Wrapped
<1>3. q \in Nat /\ r \in 0..(B - 1) /\ q * B \in Nat /\ q * B + r = u
  BY <1>1, <1>2, InSector
<1> HIDE DEF q, r, u
<1>4. (q * B) % WORD = q * B
  <2>1. q * B \in 0..(WORD - 1)
    BY <1>1, <1>2, <1>3, Halved
  <2> QED BY <2>1, Halved
<1>5. base = IF Sdhc(c) THEN (q * B) * B ELSE q * B
  BY <1>4 DEF PlaceOf, q
<1>6. base \in Nat /\ base + B <= Capacity
  BY <1>1, <1>3, <1>5, Multiple
<1>7. ASSUME ~Sdhc(c) \/ q = 0 PROVE base = q * B /\ base + r = o
  <2>1. base = q * B
    BY <1>1, <1>5, <1>7
  <2>2. u < WORD \div 2
    BY <1>1, <1>2, <1>3, <1>6, <2>1, Halved
  <2> QED BY <1>2, <1>3, <2>1, <2>2
<1> QED BY <1>1, <1>3, <1>6, <1>7 DEF q, r

(* A function of 1..n is a sequence of length n. *)
LEMMA Row == ASSUME NEW n \in Nat \ {0}, NEW s \in [1..n -> Stored] PROVE s \in Seq(Stored) /\ Len(s) = n
<1>1. s \in Seq(Stored)
  BY SeqDef
<1>2. PICK k \in Nat : k = Len(s) /\ DOMAIN s = 1..k
  BY <1>1, LenProperties
<1>3. DOMAIN s = 1..n
  OBVIOUS
<1>4. 1..k = 1..n
  BY <1>2, <1>3
<1>5. n \in 1..n /\ (k # 0 => k \in 1..k) /\ (k = 0 => 1 \notin 1..k)
  BY <1>2
<1>6. n \in 1..k /\ (k # 0 => k \in 1..n)
  BY <1>4, <1>5
<1>7. n = k
  BY <1>6
<1> QED BY <1>1, <1>2, <1>7

(* What mmc_read leaves in the buffer is bytes of the card, and exactly the
   sector if its first byte is told from the idle bytes before it. *)
LEMMA ReceivedWhole ==
    ASSUME NEW m \in Memory, NEW place \in Nat, NEW B \in Nat \ {0}, place + B <= Capacity,
           NEW crc \in Crcs
    PROVE  /\ ReceivedFrom(m, place, B, crc) \in [1..B -> Stored]
           /\ m[place] # FF => ReceivedFrom(m, place, B, crc) = [i \in 1..B |-> m[place + i - 1]]
<1> DEFINE sector == [i \in 1..B |-> m[place + i - 1]]
           stream == sector \o crc
           idle == {i \in DOMAIN stream : stream[i] # FF}
<1>1. sector \in Seq(Stored) /\ Len(sector) = B
  <2>1. Capacity \in Nat /\ B \in Nat
    BY Halved
  <2>2. \A i \in 1..B : place + i - 1 \in 0..(Capacity - 1)
    BY <2>1
  <2>3. sector \in [1..B -> Stored]
    BY <2>2 DEF Memory
  <2> HIDE DEF sector
  <2> QED BY <2>3, Row
<1>2. crc \in Seq(Stored) /\ Len(crc) = 2
  <2>1. crc \in [1..2 -> Stored] /\ 2 \in Nat \ {0}
    BY DEF Crcs, Stored
  <2> QED BY <2>1, Row, Zenon
<1>3. DOMAIN stream = 1..(B + 2) /\ \A i \in 1..B : stream[i] = sector[i]
  <2> HIDE DEF sector
  <2>1. /\ stream \in Seq(Stored) /\ Len(stream) = B + 2
        /\ \A i \in 1..Len(sector) + Len(crc) :
             stream[i] = IF i <= Len(sector) THEN sector[i] ELSE crc[i - Len(sector)]
    <3>1. stream \in Seq(Stored) /\ Len(stream) = Len(sector) + Len(crc)
      BY <1>1, <1>2, ConcatProperties
    <3> QED BY <1>1, <1>2, <3>1, ConcatProperties
  <2>2. DOMAIN stream = 1..(B + 2)
    BY <2>1, LenProperties
  <2>3. \A i \in 1..B : i \in 1..Len(sector) + Len(crc) /\ i <= Len(sector)
    BY <1>1, <1>2
  <2> QED BY <2>1, <2>2, <2>3
<1>4. \A i \in DOMAIN stream : stream[i] \in Stored
  <2>1. stream \in Seq(Stored)
    <3> HIDE DEF sector
    <3> QED BY <1>1, <1>2, ConcatProperties
  <2> QED BY <2>1, LenProperties
<1> HIDE DEF stream
<1>5. ReceivedFrom(m, place, B, crc)
        = [i \in 1..B |-> IF Min(idle) + i - 1 \in DOMAIN stream THEN stream[Min(idle) + i - 1] ELSE FF]
  BY DEF ReceivedFrom, idle, stream
<1>6. ReceivedFrom(m, place, B, crc) \in [1..B -> Stored]
  BY <1>4, <1>5 DEF Stored
<1>7. ASSUME m[place] # FF PROVE ReceivedFrom(m, place, B, crc) = [i \in 1..B |-> m[place + i - 1]]
  <2>1. 1 \in idle /\ \A i \in idle : i \in Nat /\ 1 <= i
    <3>1. 1 \in 1..B /\ 1 \in 1..(B + 2) /\ sector[1] = m[place]
      OBVIOUS
    <3>2. stream[1] # FF
      BY <3>1, <1>3, <1>7
    <3> QED BY <3>1, <3>2, <1>3
  <2> HIDE DEF idle
  <2>2. Min(idle) = 1
    <3>1. Min(idle) \in idle /\ \A y \in idle : Min(idle) <= y
      BY <2>1 DEF Min
    <3> QED BY <3>1, <2>1
  <2>3. \A i \in 1..B : 1 + i - 1 = i /\ i \in DOMAIN stream
    BY <1>3
  <2>4. ReceivedFrom(m, place, B, crc) = [i \in 1..B |-> stream[i]]
    BY <1>5, <2>2, <2>3
  <2> QED BY <1>3, <2>4
<1> QED BY <1>6, <1>7

-----------------------------------------------------------------------------
(* The hypothesis of the theorems: if the lines may damage a register, the
   checksum detects each of the damages in Flips.  It is about the polynomial of
   the checksum, and TLC evaluates it for the instance it checks. *)
Checked == "crc" \in Errors => DamageDetected

(* What dev_open accepts is the geometry of the card: a damaged register is
   rejected by hypothesis, an intact one is decoded by IntactDecoded. *)
LEMMA CsdDecoded ==
    ASSUME Checked, card \in Cards, NEW i \in CsdOutcomes \ {NoInfo}
    PROVE  Decoded(card, i)
<1>1. PICK r \in CsdResults : r.info = i /\ r.card = card /\ (r.intact \/ "crc" \in Errors)
  BY DEF CsdOutcomes, Possible
<1>2. r.intact
  BY <1>1 DEF Checked, DamageDetected
<1>3. PICK c \in Cards, flip \in Flips \cup {{}} :
        r = [card |-> c, intact |-> flip = {}, info |-> mmc_read_csd(Csd(c, flip))]
  BY DEF CsdResults
<1>4. c = card /\ flip = {} /\ i = mmc_read_csd(Csd(card, {}))
  BY <1>1, <1>2, <1>3
<1> QED BY <1>4, IntactDecoded

(* The invariant holds before the first call. *)
LEMMA InitMmc == Init => MmcInv
<1> SUFFICES ASSUME Init PROVE MmcInv
  OBVIOUS
<1>1. CardInv /\ at = "none" /\ call = NoCall /\ opened = FALSE /\ offset = 0
  BY DEF Init, CardInv, Memory, Stored
<1>2. OffsetInv
  BY <1>1, Halved DEF OffsetInv
<1>3. OpenInv /\ TransferInv
  BY <1>1 DEF OpenInv, TransferInv, OpenExchanges, TransferExchanges
<1> QED BY <1>1, <1>2, <1>3 DEF MmcInv

(* The parts of the invariant about the card and the offset change with them. *)
LEMMA KeepsCard ==
    ASSUME CardInv, OffsetInv, UNCHANGED <<card, mem, offset>>
    PROVE  CardInv' /\ OffsetInv'
BY DEF CardInv, OffsetInv

(* A number is brought into the signed range. *)
LEMMA SignedType == ASSUME NEW v \in Int PROVE Signed(v) \in (-(WORD \div 2))..((WORD \div 2) - 1)
<1>1. PICK h \in Nat : h = WORD \div 2 /\ WORD = 2 * h /\ WORD \in Nat \ {0}
  BY Halved
<1>2. (v + h) % WORD \in 0..(WORD - 1)
  BY <1>1
<1>3. Signed(v) = ((v + h) % WORD) - h
  BY <1>1 DEF Signed
<1>4. PICK x : x = (v + h) % WORD
  OBVIOUS
<1>5. x \in 0..(2 * h - 1) /\ Signed(v) = x - h
  BY <1>1, <1>2, <1>3, <1>4
<1>6. x - h \in (-h)..(h - 1)
  BY <1>1, <1>5
<1> QED BY <1>1, <1>5, <1>6

(* dev_seek. *)
LEMMA SeekMmc ==
    ASSUME MmcInv, NEW m \in Moves, NEW o \in {m, -m} \ {WORD \div 2}, SeekSet(o) \/ SeekCur(o)
    PROVE  MmcInv'
<1>1. o \in (-(WORD \div 2))..((WORD \div 2) - 1) /\ offset \in (-(WORD \div 2))..((WORD \div 2) - 1)
  <2>1. PICK h \in Nat : h = WORD \div 2
    BY Halved
  <2>2. m \in 0..h
    BY <2>1, MmcAssumption
  <2>3. o \in (-h)..(h - 1)
    BY <2>1, <2>2
  <2> QED BY <2>1, <2>3 DEF MmcInv, OffsetInv
<1>2. OffsetInv'
  <2>1. CASE SeekSet(o)
    BY <2>1, <1>1 DEF SeekSet, OffsetInv
  <2>2. CASE SeekCur(o)
    <3>1. PICK h \in Nat : h = WORD \div 2
      BY Halved
    <3>2. offset + o \in Int
      BY <1>1, <3>1
    <3>3. offset' = offset \/ offset' = Signed(offset + o)
      BY <2>2 DEF SeekCur
    <3> QED BY <1>1, <3>2, <3>3, SignedType DEF OffsetInv
  <2> QED BY <2>1, <2>2
<1>3. at = "none" /\ at' = "none" /\ UNCHANGED <<call, opened, info, card, mem>>
  BY DEF SeekSet, SeekCur, cardState
<1>4. CardInv' /\ OpenInv' /\ TransferInv'
  BY <1>3 DEF MmcInv, CardInv, OpenInv, TransferInv, OpenExchanges, TransferExchanges
<1> QED BY <1>2, <1>4 DEF MmcInv

(* dev_open, exchange by exchange, and dev_close. *)
LEMMA OpenMmc ==
    ASSUME Checked, MmcInv,
           Open \/ OpenSteps \/ NotReady \/ ReadCsd \/ OpenErrors \/ OpenDone \/ Close
    PROVE  MmcInv'
<1> USE DEF MmcInv, OpenExchanges, TransferExchanges
<1>1. UNCHANGED <<card, mem, offset>> /\ CardInv /\ OffsetInv /\ OpenInv /\ TransferInv
  BY DEF Open, OpenSteps, OpenGoes, NotReady, ReadCsd, OpenErrors, OpenFails, OpenDone, Close,
         driver, cardState
<1>2. CardInv' /\ OffsetInv'
  BY <1>1, KeepsCard
<1>3. CASE Open
  BY <1>1, <1>2, <1>3 DEF Open, Goes, NoCall, OpenInv, TransferInv
<1>4. CASE OpenSteps
  <2>1. /\ at \in OpenExchanges /\ at' \in OpenExchanges \ {"cid"}
        /\ UNCHANGED <<info, opened, call, card>>
    BY <1>4 DEF OpenSteps, OpenGoes, Goes, cardState
  <2> QED BY <1>1, <1>2, <2>1 DEF OpenInv, TransferInv
<1>5. CASE ReadCsd
  <2>1. at = "csd" /\ at' = "cid" /\ UNCHANGED <<opened, call, card>> /\ info' \in CsdOutcomes \ {NoInfo}
    BY <1>5 DEF ReadCsd, Goes, cardState
  <2>2. Decoded(card, info')
    BY <1>1, <2>1, CsdDecoded DEF CardInv
  <2>3. OpenInv'
    BY <1>1, <2>1, <2>2 DEF OpenInv
  <2>4. TransferInv'
    BY <2>1 DEF TransferInv
  <2> QED BY <1>2, <2>3, <2>4
<1>6. CASE NotReady
  BY <1>1, <1>2, <1>6 DEF NotReady, Goes, driver, cardState, OpenInv, TransferInv
<1>7. CASE OpenErrors
  <2>1. at \in OpenExchanges /\ at' = "none" /\ call' = NoCall /\ UNCHANGED <<info, opened, card>>
    BY <1>7 DEF OpenErrors, OpenFails, Returns, cardState
  <2> QED BY <1>1, <1>2, <2>1 DEF OpenInv, TransferInv
<1>8. CASE OpenDone
  BY <1>1, <1>2, <1>8 DEF OpenDone, Returns, cardState, OpenInv, TransferInv
<1>9. CASE Close
  BY <1>1, <1>2, <1>9 DEF Close, cardState, OpenInv, TransferInv
<1> QED BY <1>3, <1>4, <1>5, <1>6, <1>7, <1>8, <1>9

(* dev_read and dev_write begin. *)
LEMMA CallMmc ==
    ASSUME MmcInv, NEW op \in {"read", "write"}, NEW n \in Counts, NEW bytes,
           op = "write" => bytes \in [1..n -> Bytes], Call(op, n, bytes)
    PROVE  MmcInv'
<1> USE DEF MmcInv, OpenExchanges, TransferExchanges
<1>1. /\ at = "none" /\ at' = "transfer" /\ opened /\ resid' = n
      /\ call' = [op |-> op, count |-> n, bytes |-> bytes]
      /\ UNCHANGED <<info, opened, offset, card, mem>>
  BY DEF Call, Goes, cardState
<1>2. CardInv' /\ OffsetInv'
  BY <1>1, KeepsCard
<1>3. n \in Nat \ {0}
  BY MmcAssumption
<1>4. Transfer(call)'
  BY <1>1, <1>3 DEF Transfer
<1>5. OpenInv' /\ TransferInv'
  BY <1>1, <1>4 DEF OpenInv, TransferInv
<1> QED BY <1>2, <1>5

(* A transfer fails: a dev_read begins again, a dev_write returns. *)
LEMMA FailsMmc ==
    ASSUME MmcInv, at \in TransferExchanges, at = "write_status" => call.op = "write", TransferFails
    PROVE  MmcInv'
<1> USE DEF MmcInv, OpenExchanges, TransferExchanges
<1>1. UNCHANGED <<info, opened, offset, resid, card, mem>>
  BY DEF TransferFails, cardState
<1>2. CardInv' /\ OffsetInv'
  BY <1>1, KeepsCard
<1>3. CASE call.op = "read"
  <2>1. at' = "transfer" /\ call' = call
    BY <1>3 DEF TransferFails
  <2> QED BY <1>1, <1>2, <1>3, <2>1 DEF OpenInv, TransferInv
<1>4. CASE call.op # "read"
  <2>1. at' = "none" /\ call' = NoCall
    BY <1>4 DEF TransferFails, Returns
  <2> QED BY <1>1, <1>2, <2>1 DEF OpenInv, TransferInv
<1> QED BY <1>3, <1>4

(* The address and the rest of a sector in the terms of the model. *)
LEMMA Terms == /\ ReadOffset = ReadOffsetOf(offset, BlockSize)
               /\ \A s : Place(s) = PlaceOf(card, offset, BlockSize, s)
               /\ \A crc : Received(crc)
                             = ReceivedFrom(mem, PlaceOf(card, offset, BlockSize, BlockSize),
                                            BlockSize, crc)
BY DEF ReadOffset, ReadOffsetOf, Place, PlaceOf, Sector, SectorOf, Received, ReceivedFrom

(* The exchanges of a transfer up to its data, and its failures. *)
LEMMA AnswersMmc ==
    ASSUME MmcInv, \/ Refused \/ ReadCommand \/ Answers("status", "start") \/ Answers("start", "data")
                   \/ AnswersError \/ WriteFails
    PROVE  MmcInv'
<1> USE DEF MmcInv, OpenExchanges, TransferExchanges
<1>1. CASE Refused
  BY <1>1, FailsMmc DEF Refused
<1>2. CASE ReadCommand
  <2>1. at = "transfer" /\ at' = "status" /\ ~Spans /\ UNCHANGED <<driver, card, mem>>
    BY <1>2 DEF ReadCommand, Goes
  <2>2. CardInv' /\ OffsetInv'
    BY <2>1, KeepsCard DEF driver
  <2>3. InBlock(offset, call.count, BlockSize)
    <3>1. resid = call.count /\ call.count \in Nat
      BY <2>1 DEF TransferInv, Transfer
    <3>2. ~(call.count + ReadOffsetOf(offset, BlockSize) > BlockSize)
      BY <2>1, <3>1, Terms DEF Spans
    <3>3. BlockSize \in Nat \ {0} /\ ReadOffsetOf(offset, BlockSize) \in Nat
      <4>1. card \in Cards /\ Decoded(card, info) /\ OffsetInv
        BY <2>1 DEF CardInv, OpenInv, TransferInv
      <4>2. BlockSize \in Nat \ {0} /\ Capacity % BlockSize = 0
        BY <4>1, BlockLength DEF Decoded, BlockSize
      <4>3. offset % WORD \in 0..(WORD - 1)
        BY <4>1, Wrapped DEF OffsetInv
      <4>4. offset % WORD \in Nat
        BY <4>3, Halved
      <4> QED BY <4>2, <4>4, InSector
    <3> QED BY <3>1, <3>2, <3>3 DEF InBlock
  <2>4. OpenInv' /\ TransferInv'
    BY <2>1, <2>3 DEF driver, OpenInv, TransferInv, BlockSize
  <2> QED BY <2>2, <2>4
<1>3. CASE Answers("status", "start")
  <2>1. at = "status" /\ at' = "start" /\ UNCHANGED <<driver, card, mem>>
    BY <1>3 DEF Answers, Goes, cardState
  <2>2. CardInv' /\ OffsetInv'
    BY <2>1, KeepsCard DEF driver
  <2> QED BY <2>1, <2>2 DEF driver, OpenInv, TransferInv, BlockSize
<1>4. CASE Answers("start", "data")
  <2>1. at = "start" /\ at' = "data" /\ UNCHANGED <<driver, card, mem>> /\ Place(BlockSize) < Capacity
    BY <1>4 DEF Answers, Goes, cardState
  <2>2. CardInv' /\ OffsetInv'
    BY <2>1, KeepsCard DEF driver
  <2>3. PlaceOf(card, offset, BlockSize, BlockSize) < Capacity
    BY <2>1, Terms
  <2> QED BY <2>1, <2>2, <2>3 DEF driver, OpenInv, TransferInv, BlockSize
<1>5. CASE AnswersError
  <2>1. at \in {"status", "start"} /\ TransferFails
    BY <1>5 DEF AnswersError
  <2> QED BY <2>1, FailsMmc
<1>6. CASE WriteFails
  <2>1. at = "write_status" /\ TransferFails
    BY <1>6 DEF WriteFails
  <2>2. call.op = "write"
    BY <2>1 DEF TransferInv
  <2> QED BY <2>1, <2>2, FailsMmc
<1> QED BY <1>1, <1>2, <1>3, <1>4, <1>5, <1>6

(* The data of a sector arrive, for a dev_read or for a dev_write. *)
LEMMA DataMmc ==
    ASSUME MmcInv, NEW crc \in Crcs, Deliver(crc) \/ Modify(crc)
    PROVE  MmcInv'
<1> USE DEF MmcInv, OpenExchanges, TransferExchanges
<1>1. at = "data" /\ UNCHANGED <<info, opened, offset, card, mem>>
  BY DEF Deliver, Modify, Goes, cardState
<1>2. CardInv' /\ OffsetInv'
  BY <1>1, KeepsCard
<1>3. CASE Deliver(crc)
  <2>1. at' = "none" /\ call' = NoCall
    BY <1>3 DEF Deliver, Returns
  <2> QED BY <1>1, <1>2, <2>1 DEF OpenInv, TransferInv
<1>4. CASE Modify(crc)
  <2>1. /\ at' = "write_status" /\ call.op = "write" /\ resid' = 0 /\ call' = call
        /\ buf' = [i \in 1..BlockSize |-> IF i - ReadOffset \in 1..resid THEN call.bytes[i - ReadOffset]
                                                                        ELSE Received(crc)[i]]
    BY <1>4 DEF Modify, Goes
  <2>2. resid = call.count
    BY <1>1 DEF TransferInv
  <2>3. Modified(buf', call, mem, PlaceOf(card, offset, BlockSize, BlockSize), offset, BlockSize)
    BY <2>1, <2>2, Terms DEF Modified, Crcs
  <2>4. OpenInv' /\ TransferInv'
    BY <1>1, <2>1, <2>3 DEF OpenInv, TransferInv, BlockSize
  <2> QED BY <1>2, <2>4
<1> QED BY <1>3, <1>4

-----------------------------------------------------------------------------
(* A card does not write longer blocks than it reads. *)
LEMMA ShorterWrites == ASSUME NEW c \in Cards
                       PROVE  2^c.write_bl_len \in Nat /\ 2^c.write_bl_len <= 2^c.read_bl_len
<1> DEFINE power(i) == 2^i
<1>1. /\ power(0) = 1 /\ power(1) = 2 /\ power(2) = 4 /\ power(3) = 8 /\ power(4) = 16
      /\ power(5) = 32 /\ power(6) = 64 /\ power(7) = 128 /\ power(8) = 256 /\ power(9) = 512
  BY Powers
<1>2. c.read_bl_len \in 0..9 /\ c.write_bl_len \in 0..c.read_bl_len
  BY CardsAssumption
<1> HIDE DEF power
<1>3. power(c.write_bl_len) \in Nat /\ power(c.write_bl_len) <= power(c.read_bl_len)
  BY <1>1, <1>2
<1> QED BY <1>3 DEF power

(* With driver and card understanding each other, the sector that a transfer
   works on is the one with its offset. *)
LEMMA Located ==
    ASSUME MmcInv, Understood, opened, Place(BlockSize) < Capacity, NEW base, base = Place(BlockSize)
    PROVE  /\ BlockSize \in Nat \ {0} /\ info.write_block_size = BlockSize
           /\ base \in Nat /\ base + BlockSize <= Capacity
           /\ ReadOffset \in 0..(BlockSize - 1) /\ base + ReadOffset = offset
           /\ mem \in Memory /\ DOMAIN mem = 0..(Capacity - 1) /\ mem[base] # FF
<1>1. /\ card \in Cards /\ mem \in Memory /\ Decoded(card, info)
      /\ offset \in (-(WORD \div 2))..((WORD \div 2) - 1)
  BY DEF MmcInv, CardInv, OffsetInv, OpenInv, Memory
<1>2. BlockSize = 2^card.read_bl_len /\ info.write_block_size = BlockSize
  BY <1>1 DEF Decoded, BlockSize, Understood
<1>3. base = PlaceOf(card, offset, BlockSize, BlockSize) /\ ReadOffset = ReadOffsetOf(offset, BlockSize)
  BY Terms
<1>4. ~Sdhc(card) \/ SectorOf(offset, BlockSize) = 0
  BY DEF Understood, Sector, SectorOf
<1>5. base < Capacity
  OBVIOUS
<1>6. /\ BlockSize \in Nat \ {0} /\ base = SectorOf(offset, BlockSize) * BlockSize
      /\ base \in Nat /\ base + BlockSize <= Capacity
      /\ ReadOffset \in 0..(BlockSize - 1) /\ base + ReadOffset = offset
  BY <1>1, <1>2, <1>3, <1>4, <1>5, Placed
<1>7. DOMAIN mem = 0..(Capacity - 1) /\ base \in 0..(Capacity - 1)
  BY <1>1, <1>5, <1>6, Halved DEF Memory
<1>8. mem[base] # FF
  BY <1>6, <1>7 DEF Understood, Sector, SectorOf
<1> QED BY <1>1, <1>2, <1>6, <1>7, <1>8

(* The n bytes from the offset are in the sector of B bytes at base, after its
   first r bytes. *)
Within(base, B, r, n) ==
    /\ base \in Nat /\ B \in Nat \ {0} /\ base + B <= Capacity
    /\ r \in 0..(B - 1) /\ offset = base + r
    /\ n \in Nat \ {0} /\ n + r <= B

(* The part of a sector that a call is about, in the card. *)
LEMMA Spanned ==
    ASSUME NEW base, NEW B, NEW r, NEW n, Within(base, B, r, n)
    PROVE  /\ Span(n) \subseteq 0..(Capacity - 1)
           /\ \A i \in 1..n : r + i \in 1..B /\ base + (r + i) - 1 = offset + i - 1
           /\ \A a \in 0..(Capacity - 1) :
                 /\ a - base \in 0..(B - 1) => a - base + 1 \in 1..B /\ base + (a - base + 1) - 1 = a
                 /\ a \in Span(n) <=> a - base \in 0..(B - 1) /\ (a - base + 1) - r \in 1..n
                 /\ (a - base + 1) - r = a - offset + 1
BY Halved DEF Span, Within

(* The end of a dev_read delivers the bytes at the offset. *)
LEMMA DeliverReads ==
    ASSUME MmcInv, Understood, NEW crc \in Crcs, Deliver(crc)
    PROVE  /\ Span(call.count) \subseteq DOMAIN mem
           /\ result' = [i \in 1..call.count |-> mem[offset + i - 1]]
<1>1. /\ at = "data" /\ opened /\ Transfer(call) /\ resid = call.count
      /\ PlaceOf(card, offset, BlockSize, BlockSize) < Capacity
      /\ InBlock(offset, call.count, BlockSize)
  BY DEF Deliver, MmcInv, TransferInv, TransferExchanges
<1>2. PICK base : base = Place(BlockSize) /\ base = PlaceOf(card, offset, BlockSize, BlockSize)
  BY Terms
<1>3. /\ BlockSize \in Nat \ {0} /\ base \in Nat /\ base + BlockSize <= Capacity
      /\ ReadOffset \in 0..(BlockSize - 1) /\ base + ReadOffset = offset
      /\ mem \in Memory /\ DOMAIN mem = 0..(Capacity - 1) /\ mem[base] # FF
  BY <1>1, <1>2, Located
<1>4. /\ buf' = [i \in 1..BlockSize |-> mem[base + i - 1]]
      /\ result' = [i \in 1..call.count |-> buf'[ReadOffset + i]]
  <2>1. Received(crc) = ReceivedFrom(mem, base, BlockSize, crc)
    BY <1>2, Terms
  <2>2. ReceivedFrom(mem, base, BlockSize, crc) = [i \in 1..BlockSize |-> mem[base + i - 1]]
    <3>1. base \in Nat /\ BlockSize \in Nat \ {0} /\ base + BlockSize <= Capacity
      BY <1>3
    <3>2. mem \in Memory /\ mem[base] # FF
      BY <1>3
    <3> QED BY <3>1, <3>2, ReceivedWhole
  <2>3. buf' = Received(crc) /\ result' = [i \in 1..call.count |-> buf'[ReadOffset + i]]
    BY <1>1 DEF Deliver
  <2> QED BY <2>1, <2>2, <2>3
<1>5. call.count \in Nat \ {0} /\ call.count + ReadOffset <= BlockSize
  BY <1>1, Terms DEF Transfer, InBlock
<1>6. /\ Span(call.count) \subseteq 0..(Capacity - 1)
      /\ \A i \in 1..call.count : /\ ReadOffset + i \in 1..BlockSize
                                  /\ base + (ReadOffset + i) - 1 = offset + i - 1
  <2>1. offset = base + ReadOffset
    BY <1>3
  <2>2. base \in Nat /\ BlockSize \in Nat \ {0} /\ base + BlockSize <= Capacity
    BY <1>3
  <2>3. Within(base, BlockSize, ReadOffset, call.count)
    BY <1>3, <1>5, <2>1, <2>2 DEF Within
  <2> QED BY <2>3, Spanned
<1>7. \A i \in 1..call.count : buf'[ReadOffset + i] = mem[offset + i - 1]
  BY <1>4, <1>6
<1> QED BY <1>3, <1>4, <1>6, <1>7

(* The end of a dev_write leaves bytes in the card, whatever its block sizes. *)
LEMMA StoreMmc == ASSUME MmcInv, Store PROVE MmcInv'
<1> USE DEF MmcInv, OpenExchanges, TransferExchanges
<1>1. /\ at = "write_status" /\ at' = "none" /\ call' = NoCall
      /\ UNCHANGED <<info, opened, offset, card>>
  BY DEF Store, Returns
<1>2. OpenInv' /\ TransferInv' /\ OffsetInv'
  BY <1>1 DEF OpenInv, TransferInv, OffsetInv
<1>3. /\ card \in Cards /\ mem \in Memory /\ Decoded(card, info) /\ Transfer(call) /\ call.op = "write"
      /\ offset \in (-(WORD \div 2))..((WORD \div 2) - 1)
      /\ PlaceOf(card, offset, BlockSize, BlockSize) < Capacity
      /\ Modified(buf, call, mem, PlaceOf(card, offset, BlockSize, BlockSize), offset, BlockSize)
  BY <1>1 DEF CardInv, OffsetInv, OpenInv, TransferInv
<1>4. PICK base : base = PlaceOf(card, offset, BlockSize, BlockSize)
  OBVIOUS
<1>5. BlockSize = 2^card.read_bl_len /\ info.write_block_size = 2^card.write_bl_len
  BY <1>3 DEF Decoded, BlockSize
<1>6. BlockSize \in Nat \ {0} /\ base \in Nat /\ base + BlockSize <= Capacity
  BY <1>3, <1>4, <1>5, Placed
<1>7. buf \in [1..BlockSize -> Stored]
  <2>1. PICK crc \in Crcs :
          buf = [i \in 1..BlockSize |-> IF i - ReadOffsetOf(offset, BlockSize) \in 1..call.count
                                        THEN call.bytes[i - ReadOffsetOf(offset, BlockSize)]
                                        ELSE ReceivedFrom(mem, base, BlockSize, crc)[i]]
    BY <1>3, <1>4 DEF Modified, Crcs
  <2>2. ReceivedFrom(mem, base, BlockSize, crc) \in [1..BlockSize -> Stored]
    BY <1>3, <1>6, ReceivedWhole
  <2>3. call.bytes \in [1..call.count -> Stored]
    BY <1>3 DEF Transfer, Stored
  <2> QED BY <2>1, <2>2, <2>3
<1>8. info.write_block_size \in Nat /\ info.write_block_size <= BlockSize
  BY <1>3, <1>5, ShorterWrites
<1>9. PICK first \in Nat : first = Place(info.write_block_size)
  <2>1. SectorOf(offset, BlockSize) \in Nat
    <3>1. BlockSize \in Nat \ {0} /\ Capacity % BlockSize = 0
      BY <1>3, <1>5, BlockLength
    <3>2. offset % WORD \in Nat
      BY <1>3, Wrapped, Halved
    <3> QED BY <3>1, <3>2, InSector
  <2>2. (SectorOf(offset, BlockSize) * info.write_block_size) % WORD \in Nat
    <3>1. SectorOf(offset, BlockSize) * info.write_block_size \in Nat
      BY <2>1, <1>8
    <3> QED BY <3>1, Halved
  <2>3. Place(info.write_block_size) \in Nat
    BY <2>2, <1>3, BlockLength, Terms DEF PlaceOf
  <2> QED BY <2>3
<1>10. mem' \in Memory
  <2>1. CASE mem' = mem
    BY <2>1, <1>3
  <2>2. CASE mem' # mem
    <3>1. mem' = [a \in DOMAIN mem |-> IF a - first \in 0..(info.write_block_size - 1)
                                       THEN buf[a - first + 1] ELSE mem[a]]
      BY <2>2, <1>9 DEF Store
    <3>2. \A a \in 0..(Capacity - 1) : a - first \in 0..(info.write_block_size - 1)
                                       => a - first + 1 \in 1..BlockSize
      BY <1>6, <1>8, <1>9, Halved
    <3> QED BY <3>1, <3>2, <1>3, <1>7 DEF Memory
  <2> QED BY <2>1, <2>2
<1> QED BY <1>1, <1>2, <1>3, <1>10 DEF CardInv

(* The end of a dev_write changes the bytes of the call and no others. *)
LEMMA StoreExact ==
    ASSUME MmcInv, Understood, Store, mem' # mem
    PROVE  /\ call.op = "write" /\ Span(call.count) \subseteq DOMAIN mem
           /\ mem' = [a \in DOMAIN mem |-> IF a \in Span(call.count)
                                           THEN call.bytes[a - offset + 1] ELSE mem[a]]
<1>1. /\ at = "write_status" /\ opened /\ Transfer(call) /\ call.op = "write"
      /\ PlaceOf(card, offset, BlockSize, BlockSize) < Capacity
      /\ InBlock(offset, call.count, BlockSize)
      /\ Modified(buf, call, mem, PlaceOf(card, offset, BlockSize, BlockSize), offset, BlockSize)
  BY DEF Store, MmcInv, TransferInv, TransferExchanges
<1>2. PICK base : base = Place(BlockSize) /\ base = PlaceOf(card, offset, BlockSize, BlockSize)
  BY Terms
<1>3. /\ BlockSize \in Nat \ {0} /\ info.write_block_size = BlockSize
      /\ base \in Nat /\ base + BlockSize <= Capacity
      /\ ReadOffset \in 0..(BlockSize - 1) /\ base + ReadOffset = offset
      /\ mem \in Memory /\ DOMAIN mem = 0..(Capacity - 1) /\ mem[base] # FF
  BY <1>1, <1>2, Located
<1>4. mem' = [a \in 0..(Capacity - 1) |-> IF a - base \in 0..(BlockSize - 1)
                                          THEN buf[a - base + 1] ELSE mem[a]]
  BY <1>2, <1>3 DEF Store
<1>5. buf = [i \in 1..BlockSize |-> IF i - ReadOffset \in 1..call.count
                                    THEN call.bytes[i - ReadOffset] ELSE mem[base + i - 1]]
  <2>1. PICK crc \in Crcs :
          buf = [i \in 1..BlockSize |-> IF i - ReadOffset \in 1..call.count
                                        THEN call.bytes[i - ReadOffset]
                                        ELSE ReceivedFrom(mem, base, BlockSize, crc)[i]]
    BY <1>1, <1>2, Terms DEF Modified, Crcs
  <2>2. ReceivedFrom(mem, base, BlockSize, crc) = [i \in 1..BlockSize |-> mem[base + i - 1]]
    <3>1. base \in Nat /\ BlockSize \in Nat \ {0} /\ base + BlockSize <= Capacity
      BY <1>3
    <3>2. mem \in Memory /\ mem[base] # FF
      BY <1>3
    <3> QED BY <3>1, <3>2, ReceivedWhole
  <2> QED BY <2>1, <2>2
<1>6. /\ Span(call.count) \subseteq 0..(Capacity - 1)
      /\ \A a \in 0..(Capacity - 1) :
            /\ a - base \in 0..(BlockSize - 1)
                 => a - base + 1 \in 1..BlockSize /\ base + (a - base + 1) - 1 = a
            /\ a \in Span(call.count)
                 <=> a - base \in 0..(BlockSize - 1) /\ (a - base + 1) - ReadOffset \in 1..call.count
            /\ (a - base + 1) - ReadOffset = a - offset + 1
  <2>1. offset = base + ReadOffset
    BY <1>3
  <2>2. base \in Nat /\ BlockSize \in Nat \ {0} /\ base + BlockSize <= Capacity
    BY <1>3
  <2>3. call.count \in Nat \ {0} /\ call.count + ReadOffset <= BlockSize
    BY <1>1, Terms DEF Transfer, InBlock
  <2>4. Within(base, BlockSize, ReadOffset, call.count)
    BY <1>3, <2>1, <2>2, <2>3 DEF Within
  <2> QED BY <2>4, Spanned
<1>7. \A a \in 0..(Capacity - 1) : mem'[a] = IF a \in Span(call.count)
                                              THEN call.bytes[a - offset + 1] ELSE mem[a]
  <2> TAKE a \in 0..(Capacity - 1)
  <2>1. CASE a - base \in 0..(BlockSize - 1)
    <3>1. mem'[a] = buf[a - base + 1] /\ a - base + 1 \in 1..BlockSize
      BY <2>1, <1>4, <1>6
    <3>2. buf[a - base + 1] = IF (a - base + 1) - ReadOffset \in 1..call.count
                              THEN call.bytes[(a - base + 1) - ReadOffset]
                              ELSE mem[base + (a - base + 1) - 1]
      BY <3>1, <1>5
    <3>3. /\ base + (a - base + 1) - 1 = a /\ (a - base + 1) - ReadOffset = a - offset + 1
          /\ a \in Span(call.count) <=> (a - base + 1) - ReadOffset \in 1..call.count
      BY <2>1, <1>6
    <3> QED BY <3>1, <3>2, <3>3
  <2>2. CASE a - base \notin 0..(BlockSize - 1)
    <3>1. a \notin Span(call.count)
      BY <2>2, <1>6
    <3> QED BY <2>2, <3>1, <1>4
  <2> QED BY <2>1, <2>2
<1> QED BY <1>1, <1>3, <1>4, <1>6, <1>7

(* Every step preserves the invariant. *)
LEMMA NextMmc == ASSUME Checked, MmcInv, [Next]_mvars PROVE MmcInv'
<1>1. CASE Calls
  <2>1. CASE Open \/ Close
    BY <2>1, OpenMmc
  <2>2. ASSUME NEW m \in Moves, NEW o \in {m, -m} \ {WORD \div 2}, SeekSet(o) \/ SeekCur(o)
        PROVE  MmcInv'
    BY <2>2, SeekMmc
  <2>3. ASSUME NEW n \in Counts, Call("read", n, <<>>) PROVE MmcInv'
    BY <2>3, CallMmc
  <2>4. ASSUME NEW n \in Counts, NEW bytes \in [1..n -> Bytes], Call("write", n, bytes) PROVE MmcInv'
    BY <2>4, CallMmc
  <2> QED BY <1>1, <2>1, <2>2, <2>3, <2>4 DEF Calls
<1>2. CASE Exchange
  <2>1. CASE OpenSteps \/ NotReady \/ ReadCsd \/ OpenErrors \/ OpenDone
    BY <2>1, OpenMmc
  <2>2. CASE \/ Refused \/ ReadCommand \/ Answers("status", "start") \/ Answers("start", "data")
             \/ AnswersError \/ WriteFails
    BY <2>2, AnswersMmc
  <2>3. ASSUME NEW crc \in Crcs, Deliver(crc) \/ Modify(crc) PROVE MmcInv'
    BY <2>3, DataMmc
  <2>4. CASE Store
    BY <2>4, StoreMmc
  <2> QED BY <1>2, <2>1, <2>2, <2>3, <2>4 DEF Exchange, Crcs
<1>3. CASE CardDone \/ Polls \/ UNCHANGED mvars
  <2>1. UNCHANGED <<at, driver, card, mem>>
    BY <1>3 DEF CardDone, Polls, mvars, cardState
  <2> QED BY <2>1 DEF driver, MmcInv, CardInv, OffsetInv, OpenInv, TransferInv, BlockSize
<1> QED BY <1>1, <1>2, <1>3 DEF Next

-----------------------------------------------------------------------------
(* What the driver holds at each exchange with the card, for every order of calls
   and every answer of the card that Errors allows. *)
THEOREM MmcSpecInv == ASSUME Checked PROVE Spec => []MmcInv
<1>1. Init => MmcInv
  BY InitMmc
<1>2. MmcInv /\ [Next]_mvars => MmcInv'
  BY NextMmc
<1> QED BY <1>1, <1>2, PTL DEF Spec

(* Nothing but the end of a dev_write changes the card. *)
LEMMA StoreAlone == ASSUME [Next]_mvars, mem' # mem PROVE Store
<1> SUFFICES ASSUME ~Store PROVE FALSE
  OBVIOUS
<1>1. CASE Calls
  BY <1>1 DEF Calls, Open, Close, SeekSet, SeekCur, Call, cardState
<1>2. CASE Exchange
  BY <1>2 DEF Exchange, OpenSteps, OpenGoes, NotReady, ReadCsd, OpenErrors, OpenFails, OpenDone,
              Refused, ReadCommand, Answers, AnswersError, Deliver, Modify, WriteFails,
              TransferFails, cardState
<1>3. CASE CardDone \/ Polls \/ UNCHANGED mvars
  BY <1>3 DEF CardDone, Polls, mvars, cardState
<1> QED BY <1>1, <1>2, <1>3 DEF Next

(* Nothing but the data of the card ends a dev_read. *)
LEMMA DeliverAlone ==
    ASSUME MmcInv, [Next]_mvars, call.op = "read", at' = "none"
    PROVE  \E crc \in Crcs : Deliver(crc)
<1> USE DEF OpenExchanges, TransferExchanges
<1>1. at # "none" /\ at \notin OpenExchanges /\ at # "write_status"
  BY DEF MmcInv, OpenInv, TransferInv, NoCall
<1>2. CASE Calls
  BY <1>1, <1>2 DEF Calls, Open, Close, SeekSet, SeekCur, Call, Goes
<1>3. CASE Exchange
  <2>1. ASSUME OpenSteps \/ NotReady \/ ReadCsd \/ OpenErrors \/ OpenDone PROVE FALSE
    BY <1>1, <2>1 DEF OpenSteps, OpenGoes, NotReady, ReadCsd, OpenErrors, OpenFails, OpenDone, Goes
  <2>2. ASSUME \/ Refused \/ ReadCommand \/ Answers("status", "start") \/ Answers("start", "data")
               \/ AnswersError \/ WriteFails \/ Store
        PROVE  FALSE
    BY <1>1, <2>2 DEF Refused, ReadCommand, Answers, AnswersError, WriteFails, Store,
                      TransferFails, Goes
  <2>3. ASSUME NEW crc \in Crcs, Modify(crc) PROVE FALSE
    BY <2>3 DEF Modify
  <2> QED BY <1>3, <2>1, <2>2, <2>3 DEF Exchange, Crcs
<1>4. CASE CardDone \/ Polls \/ UNCHANGED mvars
  BY <1>1, <1>4 DEF CardDone, Polls, mvars
<1> QED BY <1>2, <1>3, <1>4 DEF Next

(* dev_write reads a sector, modifies it and writes it back, and changes exactly
   the bytes of its caller; at an offset that is not on the card it changes
   nothing. *)
THEOREM StoresExactlyAlways == ASSUME Checked PROVE Spec => StoresExactly
<1>1. MmcInv /\ [Next]_mvars
        => [mem' # mem /\ Understood
             => /\ call.op = "write" /\ Span(call.count) \subseteq DOMAIN mem
                /\ mem' = [a \in DOMAIN mem |-> IF a \in Span(call.count)
                                                THEN call.bytes[a - offset + 1] ELSE mem[a]]]_mvars
  BY StoreAlone, StoreExact
<1> QED BY <1>1, MmcSpecInv, PTL DEF Spec, StoresExactly

(* A dev_read that returns has delivered the bytes at the offset, however often it
   was begun again. *)
THEOREM ReadsExactlyAlways == ASSUME Checked PROVE Spec => ReadsExactly
<1>1. MmcInv /\ [Next]_mvars
        => [call.op = "read" /\ at' = "none" /\ Understood
             => /\ Span(call.count) \subseteq DOMAIN mem
                /\ result' = [i \in 1..call.count |-> mem[offset + i - 1]]]_mvars
  BY DeliverAlone, DeliverReads
<1> QED BY <1>1, MmcSpecInv, PTL DEF Spec, ReadsExactly

(* On every card that dev_open has accepted the driver uses the block sizes of the
   card: mmc_read_csd has checked and decoded the register of the card. *)
THEOREM GeometryDecodedAlways == ASSUME Checked PROVE Spec => []GeometryDecoded
<1>1. MmcInv => GeometryDecoded
  BY DEF MmcInv, OpenInv, Decoded, GeometryDecoded
<1> QED BY <1>1, MmcSpecInv, PTL
=============================================================================
