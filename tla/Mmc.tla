-------------------------------- MODULE Mmc --------------------------------
(***************************************************************************)
(* The memory card driver mmc_spi.c behind dev_open, dev_seek, dev_read,   *)
(* dev_write and dev_close, called by one task.  An action is one exchange *)
(* with the card: a command and the answer the driver waits for.  A busy   *)
(* card ignores commands and holds the line low, which reads as status 0.  *)
(*                                                                         *)
(* The card answers with an error outside its memory, and stores a block   *)
(* without waiting for a checksum, which the driver does not send.         *)
(***************************************************************************)
EXTENDS MmcRegisters, Sequences

CONSTANTS
    Capacity,           \* bytes of the card
    WORD,               \* 2^32
    Bytes,              \* values of a byte of data
    Counts,             \* lengths of the calls of dev_read and dev_write
    Moves,              \* offsets given to dev_seek, with either sign
    Errors,             \* answers of the card that are possible: see CardErrors
    MayBeBusy           \* the card needs time to store a block

CardErrors == {"silent", "illegal", "ocr", "reject", "crc", "status", "token", "data"}

ASSUME MmcAssumption ==
    /\ {Capacity, WORD} \subseteq Nat \ {0} /\ WORD >= 2 * Capacity /\ WORD % 2 = 0
    /\ \A c \in Cards : Capacity % 2^c.read_bl_len = 0 /\ WORD % 2^c.read_bl_len = 0
    /\ Bytes \subseteq 0..255
    /\ Bytes \ {255} # {} /\ Counts \subseteq Nat \ {0} /\ Moves \subseteq 0..(WORD \div 2)
    /\ Errors \subseteq CardErrors /\ MayBeBusy \in BOOLEAN

VARIABLES
    at,       \* the exchange the driver is in, or "none" between two calls
    call,     \* the call in progress: its operation, count and bytes
    flags,    \* mmc_info->flags
    info,     \* mmc_info: what mmc_read_csd has decoded
    opened,   \* the last dev_open returned 0 and there was no dev_close since
    offset,   \* vnode->offset
    resid,    \* uio.uio_resid
    buf,      \* the sector buffer of mmc_spi_read and mmc_spi_write
    result,   \* the bytes a dev_read has delivered
    ret,      \* what the last call returned
    card, mem, busy,
    heard     \* the card will send the answer that the driver awaits

driver == <<flags, info, opened, offset, resid, buf, result, ret, call>>
cardState == <<card, mem, busy, heard>>
mvars == <<at, driver, cardState>>

FF == 255
BlockSize == info.read_block_size
Signed(v) == ((v + WORD \div 2) % WORD) - WORD \div 2
Sector == (offset % WORD) \div BlockSize
ReadOffset == (offset % WORD) % BlockSize
NoCall == [op |-> "none", count |-> 0, bytes |-> <<>>]

Init ==
    /\ at = "none" /\ call = NoCall
    /\ flags = {} /\ info = NoInfo /\ opened = FALSE /\ offset = 0 /\ resid = 0
    /\ buf = <<>> /\ result = <<>> /\ ret = 0
    /\ card \in Cards /\ mem \in [0..(Capacity - 1) -> Bytes]
    /\ busy = FALSE /\ heard = TRUE

Goes(from, to) == at = from /\ at' = to
Returns(v) == at' = "none" /\ ret' = v /\ call' = NoCall
Possible(e) == e \in Errors

(* mmc_send_cmd and mmc_send_acmd: a command goes to the card, which ignores it
   while busy, and does not answer it after one of the errors in "lost". *)
Sends(lost) == heard' \in {~busy} \cup {FALSE : e \in Errors \cap lost}

-----------------------------------------------------------------------------
(* dev_seek, between two calls. *)
SeekSet(o) ==
    /\ at = "none"
    /\ offset' = IF o < 0 THEN offset ELSE o
    /\ ret' = IF o < 0 THEN -1 ELSE o
    /\ UNCHANGED <<at, flags, info, opened, resid, buf, result, call, cardState>>

SeekCur(o) ==
    /\ at = "none"
    /\ LET fails == o < 0 /\ Signed(-o) > offset
       IN  /\ offset' = IF fails THEN offset ELSE Signed(offset + o)
           /\ ret' = IF fails THEN -1 ELSE offset'
    /\ UNCHANGED <<at, flags, info, opened, resid, buf, result, call, cardState>>

(* mmc_spi_open: deselect the card, clock it, select it. *)
Open ==
    /\ Goes("none", "to_idle")
    /\ call' = [NoCall EXCEPT !.op = "open"]
    /\ flags' = {} /\ opened' = FALSE
    /\ Sends({"silent"})
    /\ UNCHANGED <<info, offset, resid, buf, result, ret, card, mem, busy>>

(* MMC_SPI_ERROR: the call fails at exchange "from". *)
OpenFails(from) ==
    /\ at = from /\ Returns(-1)
    /\ flags' = {"MMC_DISABLED"}
    /\ UNCHANGED <<info, opened, offset, resid, buf, result, cardState>>

(* mmc_spi_wait_unbusy: the answer has come, and the driver sends the next
   command. *)
OpenGoes(from, to, new, lost) ==
    /\ heard /\ Goes(from, to)
    /\ flags' = flags \cup new /\ Sends(lost)
    /\ UNCHANGED <<info, opened, offset, resid, buf, result, ret, call, card, mem, busy>>

(* mmc_to_idle, mmc_init and mmc_get_info, one step per command.  CMD1 or
   ACMD41 is sent until its status is 0, which nothing bounds.  A card that
   rejects CMD9 or CMD10 sends no start block, which the driver waits for
   whatever the status. *)
OpenSteps ==
    \/ OpenGoes("to_idle", "cmd8", {}, {"silent"})
    \/ Possible("illegal") /\ OpenGoes("cmd8", "power_up", {"MMC_V1"}, {"silent"})
    \/ OpenGoes("cmd8", "power_up", {"MMC_V2"}, {"silent"})
    \/ OpenGoes("not_ready", "power_up", {}, {"silent"})
    \/ OpenGoes("power_up", "ocr", {}, {"silent"})
    \/ OpenGoes("ocr", "csd", IF Sdhc(card) THEN {"SD_SDHC"} ELSE {}, {"silent", "reject"})

(* The status of CMD1 or ACMD41 is not 0: the card is not powered up yet, or
   answers with an error. *)
NotReady ==
    /\ heard /\ Goes("power_up", "not_ready")
    /\ UNCHANGED <<driver, cardState>>

(* What a dev_open that fails leaves in info is not used. *)
CsdOutcomes ==
    {r.info : r \in {r \in CsdResults : r.card = card /\ (r.intact \/ Possible("crc"))}}

ReadCsd ==
    /\ heard /\ Goes("csd", "cid")
    /\ info' \in CsdOutcomes \ {NoInfo}
    /\ Sends({"silent", "reject"})
    /\ UNCHANGED <<flags, opened, offset, resid, buf, result, ret, call, card, mem, busy>>

(* Faulty variant: the wait of mmc_to_idle for the card has no TIMEOUT. *)
OpenErrorsNoTimeout ==
    \/ heard /\ Possible("ocr") /\ OpenFails("ocr")
    \/ heard /\ NoInfo \in CsdOutcomes /\ OpenFails("csd")
    \/ heard /\ Possible("crc") /\ OpenFails("cid")

(* The card does not go idle within TIMEOUT polls, answers CMD58 with an error
   or as not powered up, or its registers come with a wrong checksum or
   structure; of the CID only the checksum counts. *)
OpenErrors ==
    \/ ~heard /\ OpenFails("to_idle")
    \/ heard /\ Possible("ocr") /\ OpenFails("ocr")
    \/ heard /\ NoInfo \in CsdOutcomes /\ OpenFails("csd")
    \/ heard /\ Possible("crc") /\ OpenFails("cid")

OpenDone ==
    /\ at = "cid" /\ heard /\ Returns(0)
    /\ opened' = TRUE
    /\ UNCHANGED <<flags, info, offset, resid, buf, result, cardState>>

(* mmc_spi_close: the result of mmc_to_idle is ignored. *)
Close ==
    /\ at = "none" /\ opened
    /\ opened' = FALSE /\ ret' = 0
    /\ UNCHANGED <<at, flags, info, offset, resid, buf, result, call, cardState>>

-----------------------------------------------------------------------------
(* dev_read and dev_write: the uio of the call, on a card that dev_open has
   accepted. *)
Call(op, count, bytes) ==
    /\ opened /\ Goes("none", "transfer")
    /\ call' = [op |-> op, count |-> count, bytes |-> bytes]
    /\ resid' = count /\ result' = <<>>
    /\ UNCHANGED <<flags, info, opened, offset, buf, ret, cardState>>

Spans == resid + ReadOffset > BlockSize

(* The driver function fails: dev_write returns, dev_read calls it again. *)
TransferFails ==
    /\ IF call.op = "read" THEN at' = "transfer" /\ UNCHANGED <<ret, call>>
                           ELSE Returns(call.count - resid)
    /\ UNCHANGED <<flags, info, opened, offset, resid, buf, result, cardState>>

Refused == at = "transfer" /\ Spans /\ TransferFails

(* mmc_read_sector: CMD17, its status, and its start block. *)
ReadCommand ==
    /\ Goes("transfer", "status") /\ ~Spans
    /\ Sends({"silent"})
    /\ UNCHANGED <<driver, card, mem, busy>>

(* The byte of the card at the address of a command: the driver computes a byte
   address, an SDHC card counts in blocks. *)
Place(block_size) ==
    LET address == (Sector * block_size) % WORD
    IN  IF Sdhc(card) THEN address * 2^card.read_bl_len ELSE address

Answers(from, to) ==
    /\ Goes(from, to)
    /\ (heard /\ Place(BlockSize) < Capacity) \/ (busy /\ from = "status")
    /\ UNCHANGED <<driver, cardState>>

AnswersError ==
    \/ /\ at = "status" /\ heard /\ TransferFails
       /\ Possible("status") \/ Place(BlockSize) >= Capacity
    \/ at = "start" /\ heard /\ Possible("token") /\ TransferFails
    \/ at = "start" /\ ~heard /\ busy /\ TransferFails

(* mmc_read: the bytes 0xFF before the data are skipped, and so are those the
   data begins with; crc follows the data. *)
Received(crc) ==
    LET stream == [i \in 1..BlockSize |-> mem[Place(BlockSize) + i - 1]] \o crc
        first == Min({i \in DOMAIN stream : stream[i] # FF})
        byte(i) == IF i \in DOMAIN stream THEN stream[i] ELSE FF
    IN  [i \in 1..BlockSize |-> byte(first + i - 1)]

(* Faulty variants: uio_resid is not counted down; the copy starts at the first
   byte of the sector. *)
DeliverUncounted(crc) ==
    /\ call.op = "read" /\ Goes("data", "transfer")
    /\ buf' = Received(crc)
    /\ UNCHANGED <<flags, info, opened, offset, resid, result, ret, call, cardState>>

DeliverFromStart(crc) ==
    /\ at = "data" /\ call.op = "read"
    /\ buf' = Received(crc)
    /\ result' = [i \in 1..resid |-> buf'[i]]
    /\ resid' = 0 /\ Returns(call.count)
    /\ UNCHANGED <<flags, info, opened, offset, cardState>>

ModifyFromStart(crc) ==
    /\ call.op = "write" /\ Goes("data", "write_status")
    /\ buf' = [i \in 1..BlockSize |-> IF i <= resid THEN call.bytes[i] ELSE Received(crc)[i]]
    /\ resid' = 0
    /\ Sends({"silent"})
    /\ UNCHANGED <<flags, info, opened, offset, result, ret, call, card, mem, busy>>

(* The end of mmc_spi_read: the bytes asked for, from the sector. *)
Deliver(crc) ==
    /\ at = "data" /\ call.op = "read"
    /\ buf' = Received(crc)
    /\ result' = [i \in 1..resid |-> buf'[ReadOffset + i]]
    /\ resid' = 0 /\ Returns(call.count)
    /\ UNCHANGED <<flags, info, opened, offset, cardState>>

(* mmc_spi_write modifies the sector it has read, and counts the bytes as
   written, before mmc_write_sector ... *)
Modify(crc) ==
    /\ call.op = "write" /\ Goes("data", "write_status")
    /\ buf' = [i \in 1..BlockSize |->
                 IF i - ReadOffset \in 1..resid THEN call.bytes[i - ReadOffset]
                                                ELSE Received(crc)[i]]
    /\ resid' = 0
    /\ Sends({"silent"})
    /\ UNCHANGED <<flags, info, opened, offset, result, ret, call, card, mem, busy>>

(* ... which stops at an error status, and does not read the data response of
   the card, that may have refused the block. *)
WriteFails ==
    /\ at = "write_status" /\ heard /\ TransferFails
    /\ Possible("status") \/ Place(info.write_block_size) >= Capacity

Store ==
    /\ at = "write_status" /\ heard /\ Place(info.write_block_size) < Capacity
    /\ Returns(call.count - resid)
    /\ \/ LET first == Place(info.write_block_size)
          IN  mem' = [a \in DOMAIN mem |-> IF a - first \in 0..(info.write_block_size - 1)
                                           THEN buf[a - first + 1] ELSE mem[a]]
       \/ Possible("data") /\ mem' = mem
    /\ busy' = MayBeBusy
    /\ UNCHANGED <<flags, info, opened, offset, resid, buf, result, card, heard>>

CardDone == busy /\ busy' = FALSE /\ UNCHANGED <<at, driver, card, mem, heard>>

-----------------------------------------------------------------------------
Calls ==
    \/ Open \/ Close
    \/ \E m \in Moves : \E o \in {m, -m} \ {WORD \div 2} : SeekSet(o) \/ SeekCur(o)
    \/ \E n \in Counts : Call("read", n, <<>>)
    \/ \E n \in Counts : \E bytes \in [1..n -> Bytes] : Call("write", n, bytes)

Exchange ==
    \/ OpenSteps \/ NotReady \/ ReadCsd \/ OpenErrors \/ OpenDone
    \/ Refused \/ ReadCommand
    \/ Answers("status", "start") \/ Answers("start", "data")
    \/ AnswersError
    \/ \E crc \in [1..2 -> Bytes \ {FF}] : Deliver(crc) \/ Modify(crc)
    \/ WriteFails \/ Store

(* The driver polls a card that does not answer. *)
Polls == at # "none" /\ ~heard /\ UNCHANGED mvars

Next == Calls \/ Exchange \/ CardDone \/ Polls

Spec == Init /\ [][Next]_mvars

(* The task that called the driver is scheduled, and the card finishes what it
   has begun.  No call is obliged to be made. *)
FairSpec == Spec /\ WF_mvars(Exchange) /\ WF_mvars(CardDone)

-----------------------------------------------------------------------------
(* The card is used as the driver believes, and the first byte of the sector is
   told from the idle bytes before it. *)
Understood ==
    /\ card.write_bl_len = card.read_bl_len
    /\ ~Sdhc(card) \/ Sector = 0
    /\ Sector * BlockSize \in DOMAIN mem => mem[Sector * BlockSize] # FF

Span(n) == offset..(offset + n - 1)

(* A write changes exactly its own bytes of the card, to the bytes of its
   caller, although it transfers the whole sector; at an offset that is not on
   the card, a negative one among them, it changes nothing. *)
StoresExactly ==
    [][mem' # mem /\ Understood
        => /\ call.op = "write" /\ Span(call.count) \subseteq DOMAIN mem
           /\ mem' = [a \in DOMAIN mem |-> IF a \in Span(call.count)
                                           THEN call.bytes[a - offset + 1] ELSE mem[a]]]_mvars

(* A dev_read that returns has delivered the bytes at the offset of its vnode,
   however many times the card failed before. *)
ReadsExactly ==
    [][call.op = "read" /\ at' = "none" /\ Understood
        => /\ Span(call.count) \subseteq DOMAIN mem
           /\ result' = [i \in 1..call.count |-> mem[offset + i - 1]]]_mvars

(* A card that dev_open accepts has a register of a known structure, and the
   driver uses its block sizes and prints its size, whatever the transfer did to
   the register.  The size of a card of version 2 is printed wrong. *)
GeometryDecoded ==
    opened => /\ card.spec_vers # 0 \/ card.structure \in {0, 1}
              /\ info.read_block_size = 2^card.read_bl_len
              /\ info.write_block_size = 2^card.write_bl_len
              /\ ~Sdhc(card) => info.mem_size = ((card.c_size + 1) * 2^(card.c_mult + 2)
                                                  * 2^card.read_bl_len) \div 2^20

(* The driver waits for a status or a start block that will not come: all its
   waits but the one of mmc_to_idle are without a bound. *)
AwaitsNothing ==
    /\ at \in {"cmd8", "power_up", "ocr", "csd", "cid", "status", "start", "write_status"}
    /\ ~heard /\ ~busy

(* dev_open returns 0 or an error if the card answers every command after its
   reset and is ready at last: it need not answer the reset itself, and the OCR
   and the registers it sends may be anything. *)
OpenReturns ==
    []~AwaitsNothing /\ ~[]<><<NotReady>>_mvars => (call.op = "open" ~> call.op # "open")

(* dev_read and dev_write return, unless the call crosses the end of a sector,
   a command is not answered (by a card that was busy when it came, or is
   silent), or the card answers with errors for ever. *)
TransferReturns ==
    /\ [](at = "transfer" => ~Spans) /\ []~AwaitsNothing
    /\ ~[]<><<AnswersError>>_mvars
    => (call.op \in {"read", "write"} ~> call.op = "none")

(* dev_write: "Number of elements successfully written." *)
FullCountIsStored ==
    [][call.op = "write" /\ at' = "none" /\ ret' = call.count
        => \A i \in 1..call.count : mem'[offset + i - 1] = call.bytes[i]]_mvars
=============================================================================
