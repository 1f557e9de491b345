---------------------------- MODULE MmcRegisters ----------------------------
(***************************************************************************)
(* The register CSD of a memory card as the card sends it, and as          *)
(* mmc_spi.c checks and decodes it: mmc_crc7, swap_words, UNSTUFF_BITS and *)
(* the two decoders.                                                       *)
(***************************************************************************)
EXTENDS Integers, FiniteSetsExt

CONSTANTS
    Cards,   \* [structure, spec_vers, read_bl_len, write_bl_len, c_size, c_mult]
    Flips    \* sets of bits of a register that are inverted on their way

(* Products stay below the 2^31 of TLC's integers, and bit fields in their
   width; a card writes blocks that are no longer than those it reads. *)
ASSUME CardsAssumption ==
    \A c \in Cards :
        /\ c.structure \in 0..3 /\ c.spec_vers \in 0..15
        /\ c.write_bl_len \in 0..c.read_bl_len /\ c.read_bl_len \in 0..9
        /\ c.c_size \in 0..(2^12 - 1) /\ c.c_mult \in 0..7

ASSUME FlipsAssumption == Flips \subseteq (SUBSET (0..127)) \ {{}}

Bit(v, k) == (v \div 2^k) % 2

(* The number of n bits with ones at these. *)
Number(ones, n) ==
    LET low[k \in 0..n] ==
            IF k = 0 THEN 0 ELSE low[k - 1] + (IF k - 1 \in ones THEN 2^(k - 1) ELSE 0)
    IN  low[n]

-----------------------------------------------------------------------------
(* A card that is no MMC and has a CSD of version 2 is an SDHC card. *)
Sdhc(c) == c.spec_vers = 0 /\ c.structure = 1

(* Where the card keeps a field: its lowest bit, its width and its value. *)
CsdFields(c) ==
    {<<126, 2, c.structure>>, <<122, 4, c.spec_vers>>, <<120, 2, 0>>,
     <<80, 4, c.read_bl_len>>, <<22, 4, c.write_bl_len>>}
    \cup IF Sdhc(c) THEN {<<48, 22, c.c_size>>}
                    ELSE {<<62, 12, c.c_size>>, <<47, 3, c.c_mult>>}

(* The bits 127..8 that are ones, those of all other fields among them. *)
CsdOnes(c) ==
    LET zeros == UNION {{f[1] + k : k \in {k \in 0..(f[2] - 1) : Bit(f[3], k) = 0}} : f \in CsdFields(c)}
    IN  (8..127) \ zeros

(* The checksum by its definition, the remainder of a division by x^7 + x^3 + 1
   of the bits 127..8 followed by seven zeros; a polynomial is the set of its
   degrees, and x^(7 * m) is x^(3 * m) + 1 for the powers m of 2. *)
Checksum(ones) ==
    LET replace(p, m) == LET top == {n \in p : n >= 7 * m}
                         IN  SymDiff(p \ top, SymDiff({n - 4 * m : n \in top}, {n - 7 * m : n \in top}))
        divided[i \in 0..9] == IF i = 0 THEN {n - 1 : n \in ones}
                               ELSE replace(divided[i - 1], <<16, 8, 8, 4, 4, 2, 2, 1, 1>>[i])
    IN  divided[9]

(* The sixteen bytes of the register, with the bits of flip inverted on their
   way. *)
Csd(c, flip) ==
    LET sent == CsdOnes(c) \cup {n + 1 : n \in Checksum(CsdOnes(c))} \cup {0}
        received == SymDiff(sent, flip)
    IN  [i \in 0..15 |-> Number({k \in 0..7 : 120 - 8 * i + k \in received}, 8)]

-----------------------------------------------------------------------------
(* mmc_crc7: the bits of a byte from the left; the bit that is shifted out of
   crc is never looked at. *)
mmc_crc7(data, length) ==
    LET xor9(v) == v + 1 + (IF Bit(v, 3) = 1 THEN -8 ELSE 8)
        crc[i \in 0..length] ==
            IF i = 0 THEN 0
            ELSE LET bits[ibit \in 0..8, v \in 0..127] ==
                         IF ibit = 0 THEN v
                         ELSE LET w == bits[ibit - 1, v]
                              IN  IF Bit(w, 6) = Bit(data[i - 1], 8 - ibit)
                                  THEN (2 * w) % 128 ELSE xor9((2 * w) % 128)
                 IN  bits[8, crc[i - 1]]
    IN  2 * crc[length] + 1

(* Bit k of the word resp[i] in the little-endian memory, after swap_words. *)
WordBit(resp, i, k) == Bit(resp[4 * i + 3 - (k \div 8)], k % 8)

(* Faulty variant: the field ends with its word. *)
UNSTUFF_BITSWord(resp, start, size) ==
    LET off == 3 - (start \div 32)
        shft == start % 32
    IN  Number({k \in 0..(size - 1) : shft + k < 32 /\ WordBit(resp, off, shft + k) = 1}, size)

(* A field of the register, which may continue in the word before. *)
UNSTUFF_BITS(resp, start, size) ==
    LET off == 3 - (start \div 32)
        shft == start % 32
    IN  Number({k \in 0..(size - 1) :
                  IF shft + k < 32 THEN WordBit(resp, off, shft + k) = 1
                                   ELSE WordBit(resp, off - 1, shft + k - 32) = 1}, size)

(* What the driver keeps of the register, in struct mmc_info. *)
Info(resp, mem_size) ==
    [read_block_size |-> 2^UNSTUFF_BITS(resp, 80, 4),
     write_block_size |-> 2^UNSTUFF_BITS(resp, 22, 4), mem_size |-> mem_size]
NoInfo == [read_block_size |-> 0, write_block_size |-> 0, mem_size |-> 0]

mmc_decode_csd(resp) ==
    LET mult == 2^(UNSTUFF_BITS(resp, 47, 3) + 2)
        blocknr == (UNSTUFF_BITS(resp, 62, 12) + 1) * mult
    IN  Info(resp, (blocknr * 2^UNSTUFF_BITS(resp, 80, 4)) \div 2^20)

(* NoInfo stands for MMC_ERROR. *)
sd_decode_csd(resp) ==
    LET c_structure == UNSTUFF_BITS(resp, 126, 2)
    IN  CASE c_structure = 0 -> mmc_decode_csd(resp)
          [] c_structure = 1 -> Info(resp, UNSTUFF_BITS(resp, 48, 22) + 1 * 512)
          [] OTHER -> NoInfo

mmc_read_csd(resp) ==
    IF mmc_crc7(resp, 15) # resp[15] THEN NoInfo
    ELSE IF UNSTUFF_BITS(resp, 122, 4) = 0 THEN sd_decode_csd(resp) ELSE mmc_decode_csd(resp)

(* What mmc_read_csd makes of the register of each card, intact or not. *)
CsdResults ==
    {[card |-> c, intact |-> flip = {}, info |-> mmc_read_csd(Csd(c, flip))]
       : c \in Cards, flip \in Flips \cup {{}}}

(* The checksum detects the damages of Flips. *)
DamageDetected == \A r \in CsdResults : r.intact \/ r.info = NoInfo
=============================================================================
