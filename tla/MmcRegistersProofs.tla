------------------------- MODULE MmcRegistersProofs -------------------------
(***************************************************************************)
(* What mmc_spi.c decodes of a register CSD that arrives as it was sent,   *)
(* for every card of CardsAssumption (read blocks of at most 512 bytes, a  *)
(* C_SIZE of twelve bits): the bits of the bytes are those of the          *)
(* register, a field is put together from its bits across the words, and   *)
(* the checksum stays below the fields.  The functions of MmcRegisters are *)
(* recursive over a fixed number of bits, so they are unfolded.            *)
(***************************************************************************)
EXTENDS MmcRegisters, TLAPS

(* What bit k adds to a number, and the numbers of up to twelve bits. *)
Weight(S, k) == IF k \in S THEN 2^k ELSE 0
Two(S) == Weight(S, 0) + Weight(S, 1)
Four(S) == Two(S) + Weight(S, 2) + Weight(S, 3)
Eight(S) == Four(S) + Weight(S, 4) + Weight(S, 5) + Weight(S, 6) + Weight(S, 7)
Twelve(S) == Eight(S) + Weight(S, 8) + Weight(S, 9) + Weight(S, 10) + Weight(S, 11)

Sum(S, n) ==
   IF n = 0 THEN 0 ELSE IF n = 1 THEN Weight(S, 0) ELSE IF n = 2 THEN Two(S)
   ELSE IF n = 3 THEN Two(S) + Weight(S, 2) ELSE IF n = 4 THEN Four(S)
   ELSE IF n = 5 THEN Four(S) + Weight(S, 4) ELSE IF n = 6 THEN Four(S) + Weight(S, 4) + Weight(S, 5)
   ELSE IF n = 7 THEN Four(S) + Weight(S, 4) + Weight(S, 5) + Weight(S, 6) ELSE IF n = 8 THEN Eight(S)
   ELSE IF n = 9 THEN Eight(S) + Weight(S, 8) ELSE IF n = 10 THEN Eight(S) + Weight(S, 8) + Weight(S, 9)
   ELSE IF n = 11 THEN Eight(S) + Weight(S, 8) + Weight(S, 9) + Weight(S, 10) ELSE Twelve(S)

(* The function in the definition of Number. *)
Lows(S, n, f) == f = [k \in 0..n |-> IF k = 0 THEN 0
                                     ELSE f[k - 1] + (IF k - 1 \in S THEN 2^(k - 1) ELSE 0)]

(* The powers of two that occur. *)
LEMMA Powers == /\ 2^0 = 1 /\ 2^1 = 2 /\ 2^2 = 4 /\ 2^3 = 8 /\ 2^4 = 16 /\ 2^5 = 32
                /\ 2^6 = 64 /\ 2^7 = 128 /\ 2^8 = 256 /\ 2^9 = 512
                /\ 2^10 = 1024 /\ 2^11 = 2048 /\ 2^12 = 4096
OBVIOUS

(* The weights of twelve bits are numbers. *)
LEMMA WeightType == ASSUME NEW S, NEW k \in 0..11 PROVE Weight(S, k) \in Nat
<1> DEFINE power(i) == 2^i
<1>1. power(k) \in Nat
  <2>1. /\ power(0) \in Nat /\ power(1) \in Nat /\ power(2) \in Nat /\ power(3) \in Nat
        /\ power(4) \in Nat /\ power(5) \in Nat /\ power(6) \in Nat /\ power(7) \in Nat
        /\ power(8) \in Nat /\ power(9) \in Nat /\ power(10) \in Nat /\ power(11) \in Nat
    BY Powers
  <2> HIDE DEF power
  <2> QED BY <2>1
<1> QED BY <1>1 DEF Weight

(* A sum of weights grows by one weight at a time. *)
LEMMA SumStep == ASSUME NEW S, NEW k \in 1..12 PROVE Sum(S, k) = Sum(S, k - 1) + Weight(S, k - 1)
<1>1. /\ Weight(S, 0) \in Nat /\ Weight(S, 1) \in Nat /\ Weight(S, 2) \in Nat /\ Weight(S, 3) \in Nat
      /\ Weight(S, 4) \in Nat /\ Weight(S, 5) \in Nat /\ Weight(S, 6) \in Nat /\ Weight(S, 7) \in Nat
      /\ Weight(S, 8) \in Nat /\ Weight(S, 9) \in Nat /\ Weight(S, 10) \in Nat /\ Weight(S, 11) \in Nat
  BY WeightType
<1>2. \/ k = 1 \/ k = 2 \/ k = 3 \/ k = 4 \/ k = 5 \/ k = 6
      \/ k = 7 \/ k = 8 \/ k = 9 \/ k = 10 \/ k = 11 \/ k = 12
  OBVIOUS
<1> USE DEF Sum, Two, Four, Eight, Twelve
<1>3. CASE k = 1
  BY <1>1, <1>3
<1>4. CASE k = 2
  BY <1>1, <1>4
<1>5. CASE k = 3
  BY <1>1, <1>5
<1>6. CASE k = 4
  BY <1>1, <1>6
<1>7. CASE k = 5
  BY <1>1, <1>7
<1>8. CASE k = 6
  BY <1>1, <1>8
<1>9. CASE k = 7
  BY <1>1, <1>9
<1>10. CASE k = 8
  BY <1>1, <1>10
<1>11. CASE k = 9
  BY <1>1, <1>11
<1>12. CASE k = 10
  BY <1>1, <1>12
<1>13. CASE k = 11
  BY <1>1, <1>13
<1>14. CASE k = 12
  BY <1>1, <1>14
<1> QED BY <1>2, <1>3, <1>4, <1>5, <1>6, <1>7, <1>8, <1>9, <1>10, <1>11, <1>12, <1>13, <1>14

(* Number is the last value of its function. *)
LEMMA Unfold == \A S : \A n \in Nat : Number(S, n) = (CHOOSE f : Lows(S, n, f))[n]
BY DEF Number, Lows

(* A number of up to twelve bits is the sum of its weights. *)
LEMMA NumberIsSum == ASSUME NEW S, NEW n \in 0..12 PROVE Number(S, n) = Sum(S, n)
<1> DEFINE g == [k \in 0..n |-> Sum(S, k)]
<1>1. Lows(S, n, g)
  <2>1. \A k \in 0..n : g[k] = IF k = 0 THEN 0
                               ELSE g[k - 1] + (IF k - 1 \in S THEN 2^(k - 1) ELSE 0)
    <3> SUFFICES ASSUME NEW k \in 0..n
                 PROVE  g[k] = IF k = 0 THEN 0 ELSE g[k - 1] + Weight(S, k - 1)
      BY DEF Weight
    <3>1. CASE k = 0
      BY <3>1 DEF Sum
    <3>2. CASE k # 0
      <4>1. k \in 1..12 /\ k - 1 \in 0..n
        BY <3>2
      <4> QED BY <4>1, <3>2, SumStep
    <3> QED BY <3>1, <3>2
  <2> QED BY <2>1 DEF Lows
<1>2. \E f : Lows(S, n, f)
  BY <1>1
<1>3. ASSUME NEW f, Lows(S, n, f) PROVE f[n] = Sum(S, n)
  <2>1. \A k \in 1..n : f[k] = f[k - 1] + Weight(S, k - 1)
    BY <1>3 DEF Lows, Weight
  <2>2. f[0] = 0
    BY <1>3 DEF Lows
  <2>3. \A k \in 1..n : f[k - 1] = Sum(S, k - 1) => f[k] = Sum(S, k)
    BY <2>1, SumStep
  <2>4. 0 \in 0..n /\ f[0] = Sum(S, 0)
    BY <2>2 DEF Sum
  <2>5. n >= 1 => f[1] = Sum(S, 1)
    BY <2>3, <2>4
  <2>6. n >= 2 => f[2] = Sum(S, 2)
    BY <2>3, <2>5
  <2>7. n >= 3 => f[3] = Sum(S, 3)
    BY <2>3, <2>6
  <2>8. n >= 4 => f[4] = Sum(S, 4)
    BY <2>3, <2>7
  <2>9. n >= 5 => f[5] = Sum(S, 5)
    BY <2>3, <2>8
  <2>10. n >= 6 => f[6] = Sum(S, 6)
    BY <2>3, <2>9
  <2>11. n >= 7 => f[7] = Sum(S, 7)
    BY <2>3, <2>10
  <2>12. n >= 8 => f[8] = Sum(S, 8)
    BY <2>3, <2>11
  <2>13. n >= 9 => f[9] = Sum(S, 9)
    BY <2>3, <2>12
  <2>14. n >= 10 => f[10] = Sum(S, 10)
    BY <2>3, <2>13
  <2>15. n >= 11 => f[11] = Sum(S, 11)
    BY <2>3, <2>14
  <2>16. n >= 12 => f[12] = Sum(S, 12)
    BY <2>3, <2>15
  <2> QED BY <2>4, <2>5, <2>6, <2>7, <2>8, <2>9, <2>10, <2>11, <2>12, <2>13, <2>14, <2>15, <2>16
<1> QED BY <1>2, <1>3, Unfold

(* The bits of a byte are those it was made of. *)
LEMMA ByteBits == ASSUME NEW S, NEW j \in 0..7 PROVE Bit(Number(S, 8), j) = 1 <=> j \in S
<1> DEFINE b(i) == IF i \in S THEN 1 ELSE 0
<1>1. Number(S, 8) = b(0) + 2 * b(1) + 4 * b(2) + 8 * b(3)
                     + 16 * b(4) + 32 * b(5) + 64 * b(6) + 128 * b(7)
  BY NumberIsSum, Powers DEF Sum, Eight, Four, Two, Weight
<1>2. b(j) = 1 <=> j \in S
  OBVIOUS
<1>3. /\ b(0) \in 0..1 /\ b(1) \in 0..1 /\ b(2) \in 0..1 /\ b(3) \in 0..1
      /\ b(4) \in 0..1 /\ b(5) \in 0..1 /\ b(6) \in 0..1 /\ b(7) \in 0..1
  OBVIOUS
<1> HIDE DEF b
<1>4. CASE j = 0
  <2>1. (Number(S, 8) \div 1) % 2 = b(0)
    BY <1>1, <1>3
  <2> QED BY <2>1, <1>2, <1>4, Powers DEF Bit
<1>5. CASE j = 1
  <2>1. (Number(S, 8) \div 2) % 2 = b(1)
    BY <1>1, <1>3
  <2> QED BY <2>1, <1>2, <1>5, Powers DEF Bit
<1>6. CASE j = 2
  <2>1. (Number(S, 8) \div 4) % 2 = b(2)
    BY <1>1, <1>3
  <2> QED BY <2>1, <1>2, <1>6, Powers DEF Bit
<1>7. CASE j = 3
  <2>1. (Number(S, 8) \div 8) % 2 = b(3)
    BY <1>1, <1>3
  <2> QED BY <2>1, <1>2, <1>7, Powers DEF Bit
<1>8. CASE j = 4
  <2>1. (Number(S, 8) \div 16) % 2 = b(4)
    BY <1>1, <1>3
  <2> QED BY <2>1, <1>2, <1>8, Powers DEF Bit
<1>9. CASE j = 5
  <2>1. (Number(S, 8) \div 32) % 2 = b(5)
    BY <1>1, <1>3
  <2> QED BY <2>1, <1>2, <1>9, Powers DEF Bit
<1>10. CASE j = 6
  <2>1. (Number(S, 8) \div 64) % 2 = b(6)
    BY <1>1, <1>3
  <2> QED BY <2>1, <1>2, <1>10, Powers DEF Bit
<1>11. CASE j = 7
  <2>1. (Number(S, 8) \div 128) % 2 = b(7)
    BY <1>1, <1>3
  <2> QED BY <2>1, <1>2, <1>11, Powers DEF Bit
<1> QED BY <1>4, <1>5, <1>6, <1>7, <1>8, <1>9, <1>10, <1>11

(* A bit is zero or one. *)
LEMMA BitType == ASSUME NEW v \in Nat, NEW k \in 0..11 PROVE Bit(v, k) \in {0, 1}
<1>1. Bit(v, 0) \in {0, 1} /\ Bit(v, 1) \in {0, 1} /\ Bit(v, 2) \in {0, 1} /\ Bit(v, 3) \in {0, 1}
  BY Powers DEF Bit
<1>2. Bit(v, 4) \in {0, 1} /\ Bit(v, 5) \in {0, 1} /\ Bit(v, 6) \in {0, 1} /\ Bit(v, 7) \in {0, 1}
  BY Powers DEF Bit
<1>3. Bit(v, 8) \in {0, 1} /\ Bit(v, 9) \in {0, 1} /\ Bit(v, 10) \in {0, 1} /\ Bit(v, 11) \in {0, 1}
  BY Powers DEF Bit
<1> QED BY <1>1, <1>2, <1>3

(* v without its n lowest bits. *)
Upper(v, n) == v \div 2^n

(* A bit is what halving leaves over. *)
LEMMA Halves ==
    ASSUME NEW v \in Nat
    PROVE  \A k \in 0..11 : /\ Bit(v, k) \in Int /\ Upper(v, k) \in Int
                            /\ Upper(v, k) = 2 * Upper(v, k + 1) + Bit(v, k)
<1> DEFINE P(k) == /\ Bit(v, k) \in Int /\ Upper(v, k) \in Int
                   /\ Upper(v, k) = 2 * Upper(v, k + 1) + Bit(v, k)
<1>1. P(0)
  BY Powers DEF Upper, Bit
<1>2. P(1)
  BY Powers DEF Upper, Bit
<1>3. P(2)
  BY Powers DEF Upper, Bit
<1>4. P(3)
  BY Powers DEF Upper, Bit
<1>5. P(4)
  BY Powers DEF Upper, Bit
<1>6. P(5)
  BY Powers DEF Upper, Bit
<1>7. P(6)
  BY Powers DEF Upper, Bit
<1>8. P(7)
  BY Powers DEF Upper, Bit
<1>9. P(8)
  BY Powers DEF Upper, Bit
<1>10. P(9)
  BY Powers DEF Upper, Bit
<1>11. P(10)
  BY Powers DEF Upper, Bit
<1>12. P(11)
  BY Powers DEF Upper, Bit
<1> HIDE DEF P
<1>13. \A k \in 0..11 : P(k)
  BY <1>1, <1>2, <1>3, <1>4, <1>5, <1>6, <1>7, <1>8, <1>9, <1>10, <1>11, <1>12
<1> QED BY <1>13 DEF P

(* The ones of a value of n bits. *)
BitsOf(v, n) == {k \in 0..(n - 1) : Bit(v, k) = 1}

(* A field of two bits has the value its bits stand for, and so have those of
   three, four and twelve bits. *)
LEMMA TwoBits == ASSUME NEW v \in 0..3 PROVE Number(BitsOf(v, 2), 2) = v
<1>1. v \in Nat /\ Upper(v, 0) = v /\ Upper(v, 2) = 0
  BY Powers DEF Upper
<1>2. /\ Weight(BitsOf(v, 2), 0) = Bit(v, 0)
      /\ Weight(BitsOf(v, 2), 1) = 2 * Bit(v, 1)
  BY <1>1, BitType, Powers DEF Weight, BitsOf
<1>3. Number(BitsOf(v, 2), 2) = Bit(v, 0) + 2 * Bit(v, 1)
  BY <1>2, NumberIsSum DEF Sum, Two, Four, Eight, Twelve
<1>4. /\ Bit(v, 0) \in Int /\ Upper(v, 0) \in Int /\ Upper(v, 0) = 2 * Upper(v, 1) + Bit(v, 0)
      /\ Bit(v, 1) \in Int /\ Upper(v, 1) \in Int /\ Upper(v, 1) = 2 * Upper(v, 2) + Bit(v, 1)
  BY <1>1, Halves
<1> QED BY <1>1, <1>3, <1>4

LEMMA ThreeBits == ASSUME NEW v \in 0..7 PROVE Number(BitsOf(v, 3), 3) = v
<1>1. v \in Nat /\ Upper(v, 0) = v /\ Upper(v, 3) = 0
  BY Powers DEF Upper
<1>2. /\ Weight(BitsOf(v, 3), 0) = Bit(v, 0)
      /\ Weight(BitsOf(v, 3), 1) = 2 * Bit(v, 1)
      /\ Weight(BitsOf(v, 3), 2) = 4 * Bit(v, 2)
  BY <1>1, BitType, Powers DEF Weight, BitsOf
<1>3. Number(BitsOf(v, 3), 3) = Bit(v, 0) + 2 * Bit(v, 1) + 4 * Bit(v, 2)
  BY <1>2, NumberIsSum DEF Sum, Two, Four, Eight, Twelve
<1>4. /\ Bit(v, 0) \in Int /\ Upper(v, 0) \in Int /\ Upper(v, 0) = 2 * Upper(v, 1) + Bit(v, 0)
      /\ Bit(v, 1) \in Int /\ Upper(v, 1) \in Int /\ Upper(v, 1) = 2 * Upper(v, 2) + Bit(v, 1)
      /\ Bit(v, 2) \in Int /\ Upper(v, 2) \in Int /\ Upper(v, 2) = 2 * Upper(v, 3) + Bit(v, 2)
  BY <1>1, Halves
<1> QED BY <1>1, <1>3, <1>4

LEMMA FourBits == ASSUME NEW v \in 0..15 PROVE Number(BitsOf(v, 4), 4) = v
<1>1. v \in Nat /\ Upper(v, 0) = v /\ Upper(v, 4) = 0
  BY Powers DEF Upper
<1>2. /\ Weight(BitsOf(v, 4), 0) = Bit(v, 0)
      /\ Weight(BitsOf(v, 4), 1) = 2 * Bit(v, 1)
      /\ Weight(BitsOf(v, 4), 2) = 4 * Bit(v, 2)
      /\ Weight(BitsOf(v, 4), 3) = 8 * Bit(v, 3)
  BY <1>1, BitType, Powers DEF Weight, BitsOf
<1>3. Number(BitsOf(v, 4), 4) = Bit(v, 0) + 2 * Bit(v, 1) + 4 * Bit(v, 2) + 8 * Bit(v, 3)
  BY <1>2, NumberIsSum DEF Sum, Two, Four, Eight, Twelve
<1>4. /\ Bit(v, 0) \in Int /\ Upper(v, 0) \in Int /\ Upper(v, 0) = 2 * Upper(v, 1) + Bit(v, 0)
      /\ Bit(v, 1) \in Int /\ Upper(v, 1) \in Int /\ Upper(v, 1) = 2 * Upper(v, 2) + Bit(v, 1)
      /\ Bit(v, 2) \in Int /\ Upper(v, 2) \in Int /\ Upper(v, 2) = 2 * Upper(v, 3) + Bit(v, 2)
      /\ Bit(v, 3) \in Int /\ Upper(v, 3) \in Int /\ Upper(v, 3) = 2 * Upper(v, 4) + Bit(v, 3)
  BY <1>1, Halves
<1> QED BY <1>1, <1>3, <1>4

LEMMA TwelveBits == ASSUME NEW v \in 0..(2^12 - 1) PROVE Number(BitsOf(v, 12), 12) = v
<1>1. v \in Nat /\ Upper(v, 0) = v /\ Upper(v, 12) = 0
  BY Powers DEF Upper
<1>2. /\ Weight(BitsOf(v, 12), 0) = Bit(v, 0)
      /\ Weight(BitsOf(v, 12), 1) = 2 * Bit(v, 1)
      /\ Weight(BitsOf(v, 12), 2) = 4 * Bit(v, 2)
      /\ Weight(BitsOf(v, 12), 3) = 8 * Bit(v, 3)
      /\ Weight(BitsOf(v, 12), 4) = 16 * Bit(v, 4)
      /\ Weight(BitsOf(v, 12), 5) = 32 * Bit(v, 5)
      /\ Weight(BitsOf(v, 12), 6) = 64 * Bit(v, 6)
      /\ Weight(BitsOf(v, 12), 7) = 128 * Bit(v, 7)
      /\ Weight(BitsOf(v, 12), 8) = 256 * Bit(v, 8)
      /\ Weight(BitsOf(v, 12), 9) = 512 * Bit(v, 9)
      /\ Weight(BitsOf(v, 12), 10) = 1024 * Bit(v, 10)
      /\ Weight(BitsOf(v, 12), 11) = 2048 * Bit(v, 11)
  BY <1>1, BitType, Powers DEF Weight, BitsOf
<1>3. Number(BitsOf(v, 12), 12) = Bit(v, 0) + 2 * Bit(v, 1) + 4 * Bit(v, 2) + 8 * Bit(v, 3)
        + 16 * Bit(v, 4) + 32 * Bit(v, 5) + 64 * Bit(v, 6) + 128 * Bit(v, 7)
        + 256 * Bit(v, 8) + 512 * Bit(v, 9) + 1024 * Bit(v, 10) + 2048 * Bit(v, 11)
  BY <1>2, NumberIsSum DEF Sum, Two, Four, Eight, Twelve
<1>4. /\ Bit(v, 0) \in Int /\ Upper(v, 0) \in Int /\ Upper(v, 0) = 2 * Upper(v, 1) + Bit(v, 0)
      /\ Bit(v, 1) \in Int /\ Upper(v, 1) \in Int /\ Upper(v, 1) = 2 * Upper(v, 2) + Bit(v, 1)
      /\ Bit(v, 2) \in Int /\ Upper(v, 2) \in Int /\ Upper(v, 2) = 2 * Upper(v, 3) + Bit(v, 2)
      /\ Bit(v, 3) \in Int /\ Upper(v, 3) \in Int /\ Upper(v, 3) = 2 * Upper(v, 4) + Bit(v, 3)
      /\ Bit(v, 4) \in Int /\ Upper(v, 4) \in Int /\ Upper(v, 4) = 2 * Upper(v, 5) + Bit(v, 4)
      /\ Bit(v, 5) \in Int /\ Upper(v, 5) \in Int /\ Upper(v, 5) = 2 * Upper(v, 6) + Bit(v, 5)
      /\ Bit(v, 6) \in Int /\ Upper(v, 6) \in Int /\ Upper(v, 6) = 2 * Upper(v, 7) + Bit(v, 6)
      /\ Bit(v, 7) \in Int /\ Upper(v, 7) \in Int /\ Upper(v, 7) = 2 * Upper(v, 8) + Bit(v, 7)
      /\ Bit(v, 8) \in Int /\ Upper(v, 8) \in Int /\ Upper(v, 8) = 2 * Upper(v, 9) + Bit(v, 8)
      /\ Bit(v, 9) \in Int /\ Upper(v, 9) \in Int /\ Upper(v, 9) = 2 * Upper(v, 10) + Bit(v, 9)
      /\ Bit(v, 10) \in Int /\ Upper(v, 10) \in Int /\ Upper(v, 10) = 2 * Upper(v, 11) + Bit(v, 10)
      /\ Bit(v, 11) \in Int /\ Upper(v, 11) \in Int /\ Upper(v, 11) = 2 * Upper(v, 12) + Bit(v, 11)
  BY <1>1, Halves
<1>5. /\ v = Bit(v, 0) + 2 * Bit(v, 1) + 4 * Bit(v, 2) + 8 * Bit(v, 3) + 16 * Upper(v, 4)
      /\ Upper(v, 4) = Bit(v, 4) + 2 * Bit(v, 5) + 4 * Bit(v, 6) + 8 * Bit(v, 7) + 16 * Upper(v, 8)
      /\ Upper(v, 8) = Bit(v, 8) + 2 * Bit(v, 9) + 4 * Bit(v, 10) + 8 * Bit(v, 11)
  BY <1>1, <1>4
<1>6. /\ Bit(v, 0) \in Int /\ Bit(v, 1) \in Int /\ Bit(v, 2) \in Int /\ Bit(v, 3) \in Int
      /\ Bit(v, 4) \in Int /\ Bit(v, 5) \in Int /\ Bit(v, 6) \in Int /\ Bit(v, 7) \in Int
      /\ Bit(v, 8) \in Int /\ Bit(v, 9) \in Int /\ Bit(v, 10) \in Int /\ Bit(v, 11) \in Int
      /\ Upper(v, 4) \in Int /\ Upper(v, 8) \in Int
  BY <1>4
<1> QED BY <1>3, <1>5, <1>6

-----------------------------------------------------------------------------
(* One step of the division in Checksum, its steps, and their function. *)
Replace(p, m) == LET top == {n \in p : n >= 7 * m}
                 IN  SymDiff(p \ top, SymDiff({n - 4 * m : n \in top}, {n - 7 * m : n \in top}))

Shifts == <<16, 8, 8, 4, 4, 2, 2, 1, 1>>

Divided(ones, d) ==
    d = [i \in 0..9 |-> IF i = 0 THEN {n - 1 : n \in ones} ELSE Replace(d[i - 1], Shifts[i])]

(* Checksum is the last value of its function. *)
LEMMA ChecksumIsDivided == \A ones : Checksum(ones) = (CHOOSE d : Divided(ones, d))[9]
BY DEF Checksum, Divided, Replace, Shifts

(* Replacing the upper powers lowers the degree. *)
LEMMA ReplaceBound ==
    ASSUME NEW m \in 1..16, NEW b \in Nat, NEW c \in Nat, 7 * m - 1 <= c, b - 4 * m <= c,
           NEW p \in SUBSET (0..b)
    PROVE  Replace(p, m) \in SUBSET (0..c)
<1> SUFFICES ASSUME NEW x \in Replace(p, m) PROVE x \in 0..c
  OBVIOUS
<1>1. \/ x \in p /\ ~(x >= 7 * m)
      \/ \E n \in p : n >= 7 * m /\ x = n - 4 * m
      \/ \E n \in p : n >= 7 * m /\ x = n - 7 * m
  BY DEF Replace, SymDiff
<1>2. \A n \in p : n \in Nat /\ n <= b
  OBVIOUS
<1>3. CASE x \in p /\ ~(x >= 7 * m)
  <2>1. x \in Nat /\ x <= 7 * m - 1
    BY <1>2, <1>3
  <2> QED BY <2>1
<1>4. CASE \E n \in p : n >= 7 * m /\ x = n - 4 * m
  <2>1. PICK n \in Nat : n <= b /\ n >= 7 * m /\ x = n - 4 * m
    BY <1>2, <1>4
  <2> QED BY <2>1
<1>5. CASE \E n \in p : n >= 7 * m /\ x = n - 7 * m
  <2>1. PICK n \in Nat : n <= b /\ n >= 7 * m /\ x = n - 7 * m
    BY <1>2, <1>5
  <2> QED BY <2>1
<1> QED BY <1>1, <1>3, <1>4, <1>5

(* The remainder has a degree of at most six, so that the checksum stays in its
   seven bits and does not reach a field. *)
LEMMA ChecksumBits == ASSUME NEW ones \in SUBSET (8..127) PROVE Checksum(ones) \subseteq 0..6
<1> DEFINE p0 == {n - 1 : n \in ones}
           p1 == Replace(p0, 16)
           p2 == Replace(p1, 8)
           p3 == Replace(p2, 8)
           p4 == Replace(p3, 4)
           p5 == Replace(p4, 4)
           p6 == Replace(p5, 2)
           p7 == Replace(p6, 2)
           p8 == Replace(p7, 1)
           p9 == Replace(p8, 1)
           g == [i \in 0..9 |-> IF i = 0 THEN p0 ELSE IF i = 1 THEN p1
                              ELSE IF i = 2 THEN p2 ELSE IF i = 3 THEN p3
                    ELSE IF i = 4 THEN p4 ELSE IF i = 5 THEN p5 ELSE IF i = 6 THEN p6
                    ELSE IF i = 7 THEN p7 ELSE IF i = 8 THEN p8 ELSE p9]
<1>1. \E d : Divided(ones, d)
  <2>1. /\ g[0] = p0 /\ g[1] = p1 /\ g[2] = p2 /\ g[3] = p3 /\ g[4] = p4
        /\ g[5] = p5 /\ g[6] = p6 /\ g[7] = p7 /\ g[8] = p8 /\ g[9] = p9
    OBVIOUS
  <2> HIDE DEF p0
  <2>2. \A i \in 1..9 : g[i] = Replace(g[i - 1], Shifts[i])
    <3> SUFFICES ASSUME NEW i \in 1..9 PROVE g[i] = Replace(g[i - 1], Shifts[i])
      OBVIOUS
    <3>1. CASE i = 1
      BY <3>1, <2>1 DEF Shifts
    <3>2. CASE i = 2
      BY <3>2, <2>1 DEF Shifts
    <3>3. CASE i = 3
      BY <3>3, <2>1 DEF Shifts
    <3>4. CASE i = 4
      BY <3>4, <2>1 DEF Shifts
    <3>5. CASE i = 5
      BY <3>5, <2>1 DEF Shifts
    <3>6. CASE i = 6
      BY <3>6, <2>1 DEF Shifts
    <3>7. CASE i = 7
      BY <3>7, <2>1 DEF Shifts
    <3>8. CASE i = 8
      BY <3>8, <2>1 DEF Shifts
    <3>9. CASE i = 9
      BY <3>9, <2>1 DEF Shifts
    <3> QED BY <3>1, <3>2, <3>3, <3>4, <3>5, <3>6, <3>7, <3>8, <3>9
  <2> HIDE DEF g
  <2>3. g = [i \in 0..9 |-> g[i]]
    BY DEF g
  <2>4. \A i \in 0..9 : g[i] = IF i = 0 THEN {n - 1 : n \in ones} ELSE Replace(g[i - 1], Shifts[i])
    BY <2>1, <2>2 DEF p0
  <2>5. Divided(ones, g)
    BY <2>3, <2>4 DEF Divided
  <2> QED BY <2>5
<1>2. ASSUME NEW d, Divided(ones, d) PROVE d[9] \subseteq 0..6
  <2>1. d[0] = {n - 1 : n \in ones}
    BY <1>2 DEF Divided
  <2>2. \A i \in 1..9 : d[i] = Replace(d[i - 1], Shifts[i])
    BY <1>2 DEF Divided
  <2>3. d[0] \subseteq 0..126
    BY <2>1
  <2> DEFINE In(i, b) == d[i] \in SUBSET (0..b)
  <2>4. \A i \in 1..9 : \A b, c \in Nat : 7 * Shifts[i] - 1 <= c /\ b - 4 * Shifts[i] <= c
                                           /\ In(i - 1, b) => In(i, c)
    <3>1. \A i \in 1..9 : Shifts[i] \in 1..16
      BY DEF Shifts
    <3>2. SUFFICES ASSUME NEW i \in 1..9, NEW b \in Nat, NEW c \in Nat, 7 * Shifts[i] - 1 <= c,
                          b - 4 * Shifts[i] <= c, d[i - 1] \in SUBSET (0..b)
                   PROVE  d[i] \in SUBSET (0..c)
      OBVIOUS
    <3>3. d[i] = Replace(d[i - 1], Shifts[i]) /\ Shifts[i] \in 1..16
      BY <2>2, <3>1
    <3>4. ASSUME NEW m \in 1..16, NEW p \in SUBSET (0..b), 7 * m - 1 <= c, b - 4 * m <= c
          PROVE  Replace(p, m) \in SUBSET (0..c)
      BY <3>4, ReplaceBound
    <3> QED BY <3>2, <3>3, <3>4
  <2>5. In(0, 126)
    BY <2>3
  <2> HIDE DEF In
  <2>6. In(1, 111)
    <3>1. Shifts[1] = 16
      BY DEF Shifts
    <3> QED BY <3>1, <2>5, <2>4
  <2>7. In(2, 79)
    <3>1. Shifts[2] = 8
      BY DEF Shifts
    <3> QED BY <3>1, <2>6, <2>4
  <2>8. In(3, 55)
    <3>1. Shifts[3] = 8
      BY DEF Shifts
    <3> QED BY <3>1, <2>7, <2>4
  <2>9. In(4, 39)
    <3>1. Shifts[4] = 4
      BY DEF Shifts
    <3> QED BY <3>1, <2>8, <2>4
  <2>10. In(5, 27)
    <3>1. Shifts[5] = 4
      BY DEF Shifts
    <3> QED BY <3>1, <2>9, <2>4
  <2>11. In(6, 19)
    <3>1. Shifts[6] = 2
      BY DEF Shifts
    <3> QED BY <3>1, <2>10, <2>4
  <2>12. In(7, 13)
    <3>1. Shifts[7] = 2
      BY DEF Shifts
    <3> QED BY <3>1, <2>11, <2>4
  <2>13. In(8, 9)
    <3>1. Shifts[8] = 1
      BY DEF Shifts
    <3> QED BY <3>1, <2>12, <2>4
  <2>14. In(9, 6)
    <3>1. Shifts[9] = 1
      BY DEF Shifts
    <3> QED BY <3>1, <2>13, <2>4
  <2> QED BY <2>14 DEF In
<1> QED BY <1>1, <1>2, ChecksumIsDivided

(* The ones of the register on their way. *)
Sent(c) == CsdOnes(c) \cup {n + 1 : n \in Checksum(CsdOnes(c))} \cup {0}

-----------------------------------------------------------------------------
(* A byte of the register that has not been damaged. *)
LEMMA CsdByte == ASSUME NEW c, NEW i \in 0..15
                 PROVE  Csd(c, {})[i] = Number({k \in 0..7 : 120 - 8 * i + k \in Sent(c)}, 8)
<1>1. SymDiff(Sent(c), {}) = Sent(c)
  BY DEF SymDiff
<1>2. Csd(c, {}) = [j \in 0..15 |-> Number({k \in 0..7 : 120 - 8 * j + k \in SymDiff(Sent(c), {})}, 8)]
  BY DEF Csd, Sent
<1> QED BY <1>1, <1>2

(* The place of a bit in its byte, and in its word. *)
LEMMA Octet == ASSUME NEW n \in Nat, n < 32
               PROVE  n \div 8 \in 0..3 /\ n % 8 \in 0..7 /\ n % 8 = n - 8 * (n \div 8)
<1>1. n \div 8 \in 0..3
  OBVIOUS
<1>2. n % 8 \in 0..7
  OBVIOUS
<1>3. n % 8 = n - 8 * (n \div 8)
  OBVIOUS
<1> QED BY <1>1, <1>2, <1>3

LEMMA Word == ASSUME NEW n \in Nat, n < 128
              PROVE  n \div 32 \in 0..3 /\ n % 32 \in 0..31 /\ n % 32 = n - 32 * (n \div 32)
<1>1. n \div 32 \in 0..3
  OBVIOUS
<1>2. n % 32 \in 0..31
  OBVIOUS
<1>3. n % 32 = n - 32 * (n \div 32)
  OBVIOUS
<1> QED BY <1>1, <1>2, <1>3

(* WordBit finds each bit of the register, through swap_words. *)
LEMMA CsdBit == ASSUME NEW c, NEW i \in 0..3, NEW k \in 0..31
                PROVE  WordBit(Csd(c, {}), i, k) = 1 <=> 96 - 32 * i + k \in Sent(c)
<1> DEFINE q == k \div 8
           r == k % 8
           b == 4 * i + 3 - q
           S == {j \in 0..7 : 120 - 8 * b + j \in Sent(c)}
<1>0. k \in Nat /\ k < 32
  OBVIOUS
<1>1. q \in 0..3 /\ r \in 0..7 /\ r = k - 8 * q
  BY <1>0, Octet
<1>3. WordBit(Csd(c, {}), i, k) = Bit(Csd(c, {})[b], r)
  BY DEF WordBit
<1> HIDE DEF q, r
<1>4. b \in 0..15 /\ 120 - 8 * b + r = 96 - 32 * i + k
  BY <1>1
<1> HIDE DEF b
<1>5. Csd(c, {})[b] = Number(S, 8)
  BY <1>4, CsdByte
<1>6. Bit(Number(S, 8), r) = 1 <=> r \in S
  BY <1>1, ByteBits
<1> QED BY <1>1, <1>3, <1>4, <1>5, <1>6

(* UNSTUFF_BITS takes the bits of its field, also across two words. *)
LEMMA Unstuffed == ASSUME NEW c, NEW start \in 0..127, NEW size \in 1..22, start + size <= 128
                   PROVE  UNSTUFF_BITS(Csd(c, {}), start, size)
                            = Number({k \in 0..(size - 1) : start + k \in Sent(c)}, size)
<1> DEFINE off == 3 - (start \div 32)
           shft == start % 32
           R(k) == IF shft + k < 32 THEN WordBit(Csd(c, {}), off, shft + k) = 1
                                    ELSE WordBit(Csd(c, {}), off - 1, shft + k - 32) = 1
<1>1. ASSUME NEW k \in 0..(size - 1) PROVE R(k) <=> start + k \in Sent(c)
  <2>1. off \in 0..3 /\ shft \in 0..31 /\ start = 32 * (3 - off) + shft
    <3> DEFINE q == start \div 32
    <3>1. start \in Nat /\ start < 128
      OBVIOUS
    <3>2. q \in 0..3 /\ shft \in 0..31 /\ shft = start - 32 * q /\ off = 3 - q
      BY <3>1, Word
    <3> HIDE DEF q, shft, off
    <3> QED BY <3>2
  <2> HIDE DEF off, shft
  <2>2. CASE shft + k < 32
    <3>1. shft + k \in 0..31 /\ 96 - 32 * off + (shft + k) = start + k
      BY <2>1, <2>2
    <3> QED BY <2>1, <2>2, <3>1, CsdBit
  <2>3. CASE ~(shft + k < 32)
    <3>1. /\ off - 1 \in 0..3 /\ shft + k - 32 \in 0..31
          /\ 96 - 32 * (off - 1) + (shft + k - 32) = start + k
      BY <2>1, <2>3
    <3> QED BY <2>3, <3>1, CsdBit
  <2> QED BY <2>2, <2>3
<1>2. UNSTUFF_BITS(Csd(c, {}), start, size) = Number({k \in 0..(size - 1) : R(k)}, size)
  BY DEF UNSTUFF_BITS
<1> HIDE DEF R
<1>3. {k \in 0..(size - 1) : R(k)} = {k \in 0..(size - 1) : start + k \in Sent(c)}
  BY <1>1
<1> QED BY <1>2, <1>3

(* The bits of a field are sent, and no other field or checksum covers them. *)
LEMMA FieldSent ==
    ASSUME NEW c, NEW start, NEW size \in 1..12, NEW v \in Nat, <<start, size, v>> \in CsdFields(c)
    PROVE  /\ start \in 8..127 /\ start + size <= 128
           /\ {k \in 0..(size - 1) : start + k \in Sent(c)} = BitsOf(v, size)
<1> DEFINE zeros == UNION {{f[1] + k : k \in {k \in 0..(f[2] - 1) : Bit(f[3], k) = 0}}
                             : f \in CsdFields(c)}
<1>1. start \in 8..127 /\ start + size <= 128
  BY DEF CsdFields
<1>2. \A f \in CsdFields(c) : \A k \in 0..(f[2] - 1), j \in 0..(size - 1) :
         f[1] + k = start + j => f = <<start, size, v>> /\ k = j
  BY DEF CsdFields
<1>3. ASSUME NEW j \in 0..(size - 1) PROVE start + j \in zeros <=> Bit(v, j) = 0
  <2>1. ASSUME Bit(v, j) = 0 PROVE start + j \in zeros
    <3> DEFINE f == <<start, size, v>>
    <3>1. f \in CsdFields(c) /\ f[1] = start /\ f[2] = size /\ f[3] = v
      OBVIOUS
    <3> HIDE DEF f
    <3> QED BY <2>1, <3>1
  <2>2. ASSUME start + j \in zeros PROVE Bit(v, j) = 0
    <3>1. PICK f \in CsdFields(c) : \E k \in 0..(f[2] - 1) : Bit(f[3], k) = 0 /\ f[1] + k = start + j
      BY <2>2
    <3> QED BY <3>1, <1>2
  <2> QED BY <2>1, <2>2
<1>4. CsdOnes(c) = (8..127) \ zeros
  BY DEF CsdOnes
<1>5. \A n \in 8..127 : n \in Sent(c) <=> n \in CsdOnes(c)
  <2>1. Checksum(CsdOnes(c)) \subseteq 0..6
    BY <1>4, ChecksumBits
  <2> QED BY <2>1 DEF Sent
<1> HIDE DEF zeros
<1>6. ASSUME NEW k \in 0..(size - 1) PROVE start + k \in Sent(c) <=> Bit(v, k) = 1
  <2>1. start + k \in 8..127 /\ k \in 0..11
    BY <1>1
  <2>2. Bit(v, k) \in {0, 1}
    BY <2>1, BitType
  <2> QED BY <2>1, <2>2, <1>3, <1>4, <1>5
<1> QED BY <1>1, <1>6 DEF BitsOf

(* UNSTUFF_BITS returns the value of a field. *)
LEMMA FieldRead ==
    ASSUME NEW c, NEW start, NEW size \in {2, 3, 4, 12}, NEW v \in Nat,
           <<start, size, v>> \in CsdFields(c),
           Number(BitsOf(v, size), size) = v
    PROVE  UNSTUFF_BITS(Csd(c, {}), start, size) = v
<1>1. size \in 1..12 /\ size \in 1..22
  OBVIOUS
<1>2. /\ start \in 0..127 /\ start + size <= 128
      /\ {k \in 0..(size - 1) : start + k \in Sent(c)} = BitsOf(v, size)
  BY <1>1, FieldSent
<1> QED BY <1>1, <1>2, Unstuffed

(* Every field that the driver decodes has the value of the card. *)
LEMMA FieldsRead ==
    ASSUME NEW c \in Cards
    PROVE  /\ UNSTUFF_BITS(Csd(c, {}), 126, 2) = c.structure
           /\ UNSTUFF_BITS(Csd(c, {}), 122, 4) = c.spec_vers
           /\ UNSTUFF_BITS(Csd(c, {}), 80, 4) = c.read_bl_len
           /\ UNSTUFF_BITS(Csd(c, {}), 22, 4) = c.write_bl_len
           /\ ~Sdhc(c) => /\ UNSTUFF_BITS(Csd(c, {}), 62, 12) = c.c_size
                          /\ UNSTUFF_BITS(Csd(c, {}), 47, 3) = c.c_mult
<1>1. /\ c.structure \in 0..3 /\ c.spec_vers \in 0..15 /\ c.read_bl_len \in 0..15
      /\ c.write_bl_len \in 0..15 /\ c.c_mult \in 0..7
  BY CardsAssumption
<1>2. UNSTUFF_BITS(Csd(c, {}), 126, 2) = c.structure
  <2>1. <<126, 2, c.structure>> \in CsdFields(c)
    BY DEF CsdFields
  <2> QED BY <1>1, <2>1, TwoBits, FieldRead
<1>3. UNSTUFF_BITS(Csd(c, {}), 122, 4) = c.spec_vers
  <2>1. <<122, 4, c.spec_vers>> \in CsdFields(c)
    BY DEF CsdFields
  <2> QED BY <1>1, <2>1, FourBits, FieldRead
<1>4. UNSTUFF_BITS(Csd(c, {}), 80, 4) = c.read_bl_len
  <2>1. <<80, 4, c.read_bl_len>> \in CsdFields(c)
    BY DEF CsdFields
  <2> QED BY <1>1, <2>1, FourBits, FieldRead
<1>5. UNSTUFF_BITS(Csd(c, {}), 22, 4) = c.write_bl_len
  <2>1. <<22, 4, c.write_bl_len>> \in CsdFields(c)
    BY DEF CsdFields
  <2> QED BY <1>1, <2>1, FourBits, FieldRead
<1>6. ASSUME ~Sdhc(c) PROVE UNSTUFF_BITS(Csd(c, {}), 62, 12) = c.c_size
  <2>1. <<62, 12, c.c_size>> \in CsdFields(c)
    BY <1>6 DEF CsdFields
  <2>2. c.c_size \in Nat /\ Number(BitsOf(c.c_size, 12), 12) = c.c_size
    BY CardsAssumption, TwelveBits
  <2> QED BY <2>1, <2>2, FieldRead
<1>7. ASSUME ~Sdhc(c) PROVE UNSTUFF_BITS(Csd(c, {}), 47, 3) = c.c_mult
  <2>1. <<47, 3, c.c_mult>> \in CsdFields(c)
    BY <1>7 DEF CsdFields
  <2> QED BY <1>1, <2>1, ThreeBits, FieldRead
<1> QED BY <1>2, <1>3, <1>4, <1>5, <1>6, <1>7

(* What the driver keeps of the register is what the card meant: GeometryDecoded
   of a card that is open. *)
Decoded(c, i) ==
    /\ c.spec_vers # 0 \/ c.structure \in {0, 1}
    /\ i.read_block_size = 2^c.read_bl_len
    /\ i.write_block_size = 2^c.write_bl_len
    /\ ~Sdhc(c) => i.mem_size = ((c.c_size + 1) * 2^(c.c_mult + 2) * 2^c.read_bl_len) \div 2^20

(* A register that arrives intact and is accepted is decoded as the card meant it. *)
THEOREM IntactDecoded ==
    ASSUME NEW c \in Cards, mmc_read_csd(Csd(c, {})) # NoInfo
    PROVE  Decoded(c, mmc_read_csd(Csd(c, {})))
<1> DEFINE resp == Csd(c, {})
           m == ((c.c_size + 1) * 2^(c.c_mult + 2) * 2^c.read_bl_len) \div 2^20
<1>1. ~Sdhc(c) => mmc_decode_csd(resp) = Info(resp, m)
  BY FieldsRead DEF mmc_decode_csd
<1>2. \A size : /\ Info(resp, size).read_block_size = 2^c.read_bl_len
                /\ Info(resp, size).write_block_size = 2^c.write_bl_len
                /\ Info(resp, size).mem_size = size
  BY FieldsRead DEF Info
<1>3. UNSTUFF_BITS(resp, 126, 2) = c.structure /\ UNSTUFF_BITS(resp, 122, 4) = c.spec_vers
  BY FieldsRead
<1>4. mmc_read_csd(resp) = IF c.spec_vers = 0 THEN sd_decode_csd(resp) ELSE mmc_decode_csd(resp)
  BY <1>3 DEF mmc_read_csd
<1>5. CASE c.spec_vers # 0
  BY <1>1, <1>2, <1>4, <1>5 DEF Decoded, Sdhc
<1>6. CASE c.spec_vers = 0 /\ c.structure = 0
  <2>1. sd_decode_csd(resp) = mmc_decode_csd(resp)
    BY <1>3, <1>6 DEF sd_decode_csd
  <2> QED BY <2>1, <1>1, <1>2, <1>4, <1>6 DEF Decoded, Sdhc
<1>7. CASE c.spec_vers = 0 /\ c.structure = 1
  <2>1. \E size : sd_decode_csd(resp) = Info(resp, size)
    BY <1>3, <1>7 DEF sd_decode_csd
  <2> QED BY <2>1, <1>2, <1>4, <1>7 DEF Decoded, Sdhc
<1>8. CASE c.spec_vers = 0 /\ c.structure \notin {0, 1}
  <2>1. sd_decode_csd(resp) = NoInfo
    BY <1>3, <1>8 DEF sd_decode_csd
  <2> QED BY <2>1, <1>4, <1>8
<1> QED BY <1>5, <1>6, <1>7, <1>8
=============================================================================
