------------------------ MODULE CircularBufferProofs ------------------------
(***************************************************************************)
(* Proofs about CircularBuffer: the counters and the indices agree, for    *)
(* every size of the buffer and every width of the counters, however often *)
(* they wrap and wherever the reader and the writer preempt each other.    *)
(***************************************************************************)
EXTENDS CircularBuffer, SequenceTheorems, TLAPS

Counters == 0..(Modulus - 1)

CounterType ==
    /\ writes \in Counters /\ reads \in Counters /\ overflows \in Counters /\ seen \in Counters
    /\ start_valid \in 0..Size /\ end_valid \in 0..(Size - 1)
    /\ writing \in {"none", "overflow", "store", "count"}
    /\ reading \in {"none", "test", "take", "count"}
    /\ exclusive \in BOOLEAN /\ everFull \in BOOLEAN

(* Only the access of a reader takes start_valid past the last element. *)
StartInv ==
    /\ reading # "count" => start_valid < Size
    /\ reading = "count" => start_valid > 0

TurnInv ==
    /\ exclusive => writing = "none" \/ reading = "none"
    /\ writing = "overflow" => everFull

(* The counters are those of callers that exclude each other, or no write has
   met a full buffer. *)
Reliable == exclusive \/ ~everFull

(* What the writer and the reader have tested still holds when they go on. *)
RoomInv ==
    /\ Readable \in 0..Size
    /\ writing = "overflow" => Readable = Size
    /\ writing \in {"store", "count"} => Readable < Size
    /\ reading = "test" => (seen - reads - overflows) % Modulus <= Readable
    /\ reading \in {"take", "count"} => Readable > 0

IndexInv == (First + Readable) % Size = end_valid

BufferInv ==
    /\ CounterType /\ StartInv /\ TurnInv
    /\ Reliable => RoomInv
    /\ ~everFull => IndexInv

-----------------------------------------------------------------------------
(* The remainder of a number within two moduli of zero. *)
LEMMA Remainder ==
    ASSUME NEW m \in Nat, m > 0, NEW x \in Int, x >= -2 * m, x < 2 * m
    PROVE  x % m = IF x < -m THEN x + 2 * m ELSE IF x < 0 THEN x + m
                   ELSE IF x < m THEN x ELSE x - m
<1>1. CASE x < -m
    BY <1>1, SMTT(30)
<1>2. CASE x >= -m /\ x < 0
    BY <1>2, SMTT(30)
<1>3. CASE x >= 0 /\ x < m
    BY <1>3, SMTT(30)
<1>4. CASE x >= m
    BY <1>4, SMTT(30)
<1> QED BY <1>1, <1>2, <1>3, <1>4

(* The difference of three counters, and what counting once more makes of it. *)
LEMMA Difference ==
    ASSUME NEW w \in Counters, NEW r \in Counters, NEW o \in Counters
    PROVE  /\ (w - r - o) % Modulus \in Counters
           /\ (w - r - o) % Modulus < Modulus - 1
                => (((w + 1) % Modulus) - r - o) % Modulus = ((w - r - o) % Modulus) + 1
           /\ (w - r - o) % Modulus > 0
                => /\ (w - ((r + 1) % Modulus) - o) % Modulus = ((w - r - o) % Modulus) - 1
                   /\ (w - r - ((o + 1) % Modulus)) % Modulus = ((w - r - o) % Modulus) - 1
<1>1. Modulus \in Nat /\ Modulus > 0 /\ Modulus > 1
    BY BufferAssumption
<1>2. ASSUME NEW c \in Counters
      PROVE  /\ (c + 1) % Modulus \in Counters
             /\ (c + 1) % Modulus = IF c = Modulus - 1 THEN 0 ELSE c + 1
  <2> DEFINE x == c + 1
  <2>1. x \in Int /\ x >= -2 * Modulus /\ x < 2 * Modulus
      BY <1>1, <1>2 DEF Counters
  <2> HIDE DEF x
  <2>2. x % Modulus = IF x < -Modulus THEN x + 2 * Modulus ELSE IF x < 0 THEN x + Modulus
                      ELSE IF x < Modulus THEN x ELSE x - Modulus
      BY <1>1, <2>1, Remainder
  <2> QED BY <1>1, <1>2, <2>2 DEF Counters, x
<1>3. ASSUME NEW a \in Counters, NEW b \in Counters, NEW c \in Counters
      PROVE  (a - b - c) % Modulus = IF a - b - c < -Modulus THEN a - b - c + 2 * Modulus
                                     ELSE IF a - b - c < 0 THEN a - b - c + Modulus
                                     ELSE a - b - c
  <2>1. a - b - c \in Int /\ a - b - c >= -2 * Modulus /\ a - b - c < Modulus
      BY <1>1, <1>3 DEF Counters
  <2>2. (a - b - c) % Modulus = IF a - b - c < -Modulus THEN a - b - c + 2 * Modulus
                                ELSE IF a - b - c < 0 THEN a - b - c + Modulus
                                ELSE IF a - b - c < Modulus THEN a - b - c ELSE a - b - c - Modulus
      BY <1>1, <2>1, Remainder
  <2> QED BY <1>1, <2>1, <2>2
<1>4. (w - r - o) % Modulus \in Counters
    BY <1>1, <1>3 DEF Counters
<1>5. ASSUME (w - r - o) % Modulus < Modulus - 1
      PROVE  (((w + 1) % Modulus) - r - o) % Modulus = ((w - r - o) % Modulus) + 1
  <2> DEFINE n == (w + 1) % Modulus
  <2>1. n \in Counters /\ n = IF w = Modulus - 1 THEN 0 ELSE w + 1
      BY <1>2
  <2> HIDE DEF n
  <2>2. (n - r - o) % Modulus = ((w - r - o) % Modulus) + 1
      BY <1>1, <1>3, <1>5, <2>1 DEF Counters
  <2> QED BY <2>2 DEF n
<1>6. ASSUME (w - r - o) % Modulus > 0
      PROVE  /\ (w - ((r + 1) % Modulus) - o) % Modulus = ((w - r - o) % Modulus) - 1
             /\ (w - r - ((o + 1) % Modulus)) % Modulus = ((w - r - o) % Modulus) - 1
  <2> DEFINE n == (r + 1) % Modulus
             k == (o + 1) % Modulus
  <2>1. /\ n \in Counters /\ n = IF r = Modulus - 1 THEN 0 ELSE r + 1
        /\ k \in Counters /\ k = IF o = Modulus - 1 THEN 0 ELSE o + 1
      BY <1>2
  <2> HIDE DEF n, k
  <2>2. (w - n - o) % Modulus = ((w - r - o) % Modulus) - 1
      BY <1>1, <1>3, <1>6, <2>1 DEF Counters
  <2>3. (w - r - k) % Modulus = ((w - r - o) % Modulus) - 1
      BY <1>1, <1>3, <1>6, <2>1 DEF Counters
  <2>4. (w - ((r + 1) % Modulus) - o) % Modulus = ((w - r - o) % Modulus) - 1
      BY <2>2 DEF n
  <2>5. (w - r - ((o + 1) % Modulus)) % Modulus = ((w - r - o) % Modulus) - 1
      BY <2>3 DEF k
  <2> QED BY <2>4, <2>5
<1> QED BY <1>4, <1>5, <1>6

(* The index n elements after i, and what one element more or less makes of it. *)
LEMMA Index ==
    ASSUME NEW i \in 0..(Size - 1), NEW n \in 0..Size
    PROVE  /\ n < Size => (i + n + 1) % Size = Step((i + n) % Size)
           /\ n > 0 => (Step(i) + n - 1) % Size = (i + n) % Size
<1>1. Size \in Nat /\ Size > 0
    BY BufferAssumption
<1>2. ASSUME NEW j \in 0..(2 * Size - 1)
      PROVE  j % Size = IF j < Size THEN j ELSE j - Size
  <2>1. j \in Int /\ j >= -2 * Size /\ j < 2 * Size
      BY <1>1, <1>2
  <2>2. j % Size = IF j < -Size THEN j + 2 * Size ELSE IF j < 0 THEN j + Size
                   ELSE IF j < Size THEN j ELSE j - Size
      BY <1>1, <2>1, Remainder
  <2> QED BY <1>1, <1>2, <2>2
<1>3. ASSUME n < Size
      PROVE  (i + n + 1) % Size = Step((i + n) % Size)
  <2>1. i + n \in 0..(2 * Size - 1) /\ i + n + 1 \in 0..(2 * Size - 1)
      BY <1>1, <1>3
  <2> QED BY <1>1, <1>2, <2>1 DEF Step
<1>4. ASSUME n > 0
      PROVE  (Step(i) + n - 1) % Size = (i + n) % Size
  <2>1. i + n \in 0..(2 * Size - 1) /\ Step(i) + n - 1 \in 0..(2 * Size - 1)
      BY <1>1, <1>4 DEF Step
  <2> QED BY <1>1, <1>2, <2>1 DEF Step
<1> QED BY <1>3, <1>4

-----------------------------------------------------------------------------
(* What holds of a step that leaves the counters and the indices alone. *)
Steady == UNCHANGED <<writes, reads, overflows, start_valid, end_valid, exclusive>>

LEMMA TypeStep ==
    ASSUME BufferInv, Next
    PROVE  CounterType' /\ StartInv'
<1>1. Size \in Nat /\ Size > 0 /\ Modulus \in Nat /\ Modulus > 1
    BY BufferAssumption
<1>2. CounterType /\ StartInv
    BY DEF BufferInv
<1>3. \A c \in Counters : (c + 1) % Modulus \in Counters
    BY <1>1 DEF Counters
<1>4. CASE \E e \in Elements : WriteTest(e)
    BY <1>2, <1>4 DEF WriteTest, WriteGoes, reader, CounterType, StartInv
<1>5. CASE WriteOverflow \/ WriteStore
    BY <1>2, <1>3, <1>5 DEF WriteOverflow, WriteStore, WriteGoes, reader, CounterType, StartInv
<1>6. CASE WriteCount
  <2>1. Step(end_valid) \in 0..(Size - 1)
      BY <1>1, <1>2 DEF Step, CounterType
  <2> QED BY <1>2, <1>3, <1>6, <2>1 DEF WriteCount, WriteGoes, reader, CounterType, StartInv
<1>7. CASE ReadLoad
    BY <1>2, <1>7 DEF ReadLoad, ReadGoes, writer, CounterType, StartInv
<1>8. CASE ReadTest
    BY <1>1, <1>2, <1>8 DEF ReadTest, ReadGoes, writer, CounterType, StartInv, Counters
<1>9. CASE ReadTake
    BY <1>1, <1>2, <1>9 DEF ReadTake, ReadGoes, writer, CounterType, StartInv
<1>10. CASE ReadCount
  <2>1. start_valid' \in 0..(Size - 1)
      BY <1>1, <1>2, <1>10 DEF ReadCount, ReadGoes, CounterType, StartInv
  <2>2. /\ UNCHANGED <<writes, overflows, end_valid, writing, exclusive, everFull, seen>>
        /\ reads' \in Counters /\ reading' = "none"
      BY <1>2, <1>3, <1>10 DEF ReadCount, ReadGoes, writer, CounterType
  <2> QED BY <1>1, <1>2, <2>1, <2>2 DEF CounterType, StartInv
<1> QED BY <1>4, <1>5, <1>6, <1>7, <1>8, <1>9, <1>10 DEF Next

(* The writer: the room it tested is still there when it counts its element. *)
LEMMA WriterStep ==
    ASSUME BufferInv,
           (\E e \in Elements : WriteTest(e)) \/ WriteOverflow \/ WriteStore \/ WriteCount
    PROVE  TurnInv' /\ (Reliable' => RoomInv') /\ (~everFull' => IndexInv')
<1>1. Size \in Nat /\ Size > 0 /\ Size < Modulus /\ Modulus \in Nat
    BY BufferAssumption
<1>2. /\ CounterType /\ StartInv /\ TurnInv
      /\ Reliable => RoomInv
      /\ ~everFull => IndexInv
    BY DEF BufferInv
<1>3. CASE \E e \in Elements : WriteTest(e)
  <2>1. PICK e \in Elements : WriteTest(e)
      BY <1>3
  <2>2. /\ UNCHANGED <<writes, overflows, end_valid, reads, start_valid, seen, reading, exclusive>>
        /\ exclusive => reading = "none"
        /\ writing = "none" /\ writing' = IF Readable = Size THEN "overflow" ELSE "store"
        /\ everFull' = (everFull \/ Readable = Size)
      BY <2>1 DEF WriteTest, WriteGoes, reader
  <2>3. Readable' = Readable /\ First' = First
      BY <2>2 DEF Readable, First
  <2>4. TurnInv'
      BY <1>2, <2>2 DEF TurnInv
  <2>5. Reliable' => Reliable
      BY <2>2 DEF Reliable
  <2>6. RoomInv => RoomInv'
    <3> SUFFICES ASSUME RoomInv PROVE RoomInv'
        OBVIOUS
    <3>1. Readable \in 0..Size /\ writing' = "store" => Readable < Size
        BY <1>1, <2>2 DEF RoomInv
    <3> QED BY <1>1, <2>2, <2>3, <3>1 DEF RoomInv
  <2>7. ~everFull' => IndexInv'
      BY <1>2, <2>2, <2>3 DEF IndexInv
  <2> QED BY <1>2, <2>4, <2>5, <2>6, <2>7
<1>4. CASE WriteOverflow
  <2>1. /\ UNCHANGED <<writes, end_valid, reads, start_valid, seen, reading, exclusive, everFull>>
        /\ writing = "overflow" /\ writing' = "store" /\ overflows' = (overflows + 1) % Modulus
      BY <1>4 DEF WriteOverflow, WriteGoes, reader
  <2>2. everFull /\ (exclusive => reading = "none")
      BY <1>2, <2>1 DEF TurnInv
  <2>3. TurnInv'
      BY <1>2, <2>1 DEF TurnInv
  <2>4. ASSUME Reliable' PROVE RoomInv'
    <3>1. RoomInv /\ reading = "none" /\ Readable = Size
        BY <1>2, <2>1, <2>2, <2>4 DEF Reliable, RoomInv
    <3>2. Readable' = Readable - 1
        BY <1>1, <1>2, <2>1, <3>1, Difference DEF CounterType, Readable
    <3> QED BY <1>1, <2>1, <3>1, <3>2 DEF RoomInv
  <2> QED BY <2>1, <2>2, <2>3, <2>4
<1>5. CASE WriteStore
  <2>1. /\ Steady /\ UNCHANGED <<seen, reading, everFull>>
        /\ writing = "store" /\ writing' = "count"
      BY <1>5 DEF WriteStore, WriteGoes, reader, Steady
  <2>2. Readable' = Readable /\ First' = First
      BY <2>1 DEF Readable, First, Steady
  <2>3. TurnInv' /\ (Reliable' => Reliable)
      BY <1>2, <2>1 DEF TurnInv, Reliable, Steady
  <2>4. RoomInv => RoomInv'
      BY <2>1, <2>2 DEF RoomInv, Steady
  <2>5. ~everFull' => IndexInv'
      BY <1>2, <2>1, <2>2 DEF IndexInv, Steady
  <2> QED BY <1>2, <2>3, <2>4, <2>5
<1>6. CASE WriteCount
  <2>1. /\ UNCHANGED <<overflows, reads, start_valid, seen, reading, exclusive, everFull>>
        /\ writing = "count" /\ writing' = "none" /\ writes' = (writes + 1) % Modulus
        /\ end_valid' = Step(end_valid)
      BY <1>6 DEF WriteCount, WriteGoes, reader
  <2>2. TurnInv' /\ (Reliable' => Reliable) /\ First' = First
      BY <1>2, <2>1 DEF TurnInv, Reliable, First
  <2>3. ASSUME Reliable
        PROVE  RoomInv /\ Readable \in 0..(Size - 1) /\ Readable' = Readable + 1
    <3>1. RoomInv /\ Readable \in 0..(Size - 1)
        BY <1>1, <1>2, <2>1, <2>3 DEF RoomInv
    <3>2. Readable' = Readable + 1
        BY <1>1, <1>2, <2>1, <3>1, Difference DEF CounterType, Readable
    <3> QED BY <3>1, <3>2
  <2>4. ASSUME Reliable' PROVE RoomInv'
    <3>1. RoomInv /\ Readable \in 0..(Size - 1) /\ Readable' = Readable + 1
        BY <2>2, <2>3, <2>4
    <3>2. (seen - reads - overflows) % Modulus \in Counters
        BY <1>2, Difference DEF CounterType
    <3>3. reading = "test" => (seen - reads - overflows) % Modulus <= Readable + 1
        BY <1>1, <3>1, <3>2 DEF RoomInv, Counters
    <3>4. Readable' \in 0..Size /\ (reading \in {"take", "count"} => Readable' > 0)
        BY <1>1, <3>1
    <3> QED BY <2>1, <3>1, <3>3, <3>4 DEF RoomInv
  <2>5. ASSUME ~everFull' PROVE IndexInv'
    <3>1. Reliable /\ IndexInv
        BY <1>2, <2>1, <2>5 DEF Reliable
    <3>2. Readable \in 0..(Size - 1) /\ Readable' = Readable + 1
        BY <2>3, <3>1
    <3>3. First \in 0..(Size - 1)
        BY <1>1, <1>2 DEF First, CounterType, StartInv
    <3>4. (First + Readable + 1) % Size = Step((First + Readable) % Size)
      <4>1. Readable \in 0..Size /\ Readable < Size
          BY <1>1, <3>2
      <4> QED BY <3>3, <4>1, Index
    <3>5. First + Readable + 1 = First' + Readable'
        BY <2>2, <3>2, <3>3
    <3> QED BY <2>1, <3>1, <3>4, <3>5 DEF IndexInv
  <2> QED BY <2>2, <2>4, <2>5
<1> QED BY <1>3, <1>4, <1>5, <1>6

(* The reader: the element it tested is still there when it counts it. *)
LEMMA ReaderStep ==
    ASSUME BufferInv, ReadLoad \/ ReadTest \/ ReadTake \/ ReadCount
    PROVE  TurnInv' /\ (Reliable' => RoomInv') /\ (~everFull' => IndexInv')
<1>1. Size \in Nat /\ Size > 0 /\ Size < Modulus /\ Modulus \in Nat
    BY BufferAssumption
<1>2. /\ CounterType /\ StartInv /\ TurnInv
      /\ Reliable => RoomInv
      /\ ~everFull => IndexInv
    BY DEF BufferInv
<1>3. /\ UNCHANGED <<writes, overflows, end_valid, writing, exclusive, everFull>>
      /\ TurnInv'
  <2>1. UNCHANGED <<writes, overflows, end_valid, writing, exclusive, everFull>>
      BY DEF ReadLoad, ReadTest, ReadTake, ReadCount, ReadGoes, writer
  <2>2. ReadLoad => (exclusive => writing = "none")
      BY DEF ReadLoad
  <2>3. ReadTest \/ ReadTake \/ ReadCount => reading # "none"
      BY DEF ReadTest, ReadTake, ReadCount, ReadGoes
  <2> QED BY <1>2, <2>1, <2>2, <2>3 DEF TurnInv
<1>4. Reliable' => Reliable
    BY <1>3 DEF Reliable
<1>5. ASSUME UNCHANGED <<reads, First>>, RoomInv => RoomInv'
      PROVE  (Reliable' => RoomInv') /\ (~everFull' => IndexInv')
  <2>1. Readable' = Readable
      BY <1>3, <1>5 DEF Readable
  <2>2. IndexInv => IndexInv'
      BY <1>3, <1>5, <2>1 DEF IndexInv
  <2> QED BY <1>2, <1>3, <1>4, <1>5, <2>2
<1>6. CASE ReadLoad
  <2>1. UNCHANGED <<reads, start_valid>> /\ reading = "none" /\ reading' = "test"
        /\ seen' = writes
      BY <1>6 DEF ReadLoad, ReadGoes
  <2>2. UNCHANGED <<reads, First>> /\ Readable' = Readable
      BY <1>3, <2>1 DEF First, Readable
  <2>3. ASSUME RoomInv PROVE RoomInv'
    <3>1. (seen - reads - overflows)' % Modulus = Readable
        BY <1>3, <2>1 DEF Readable
    <3>2. Readable <= Readable
        BY <1>1, <2>3 DEF RoomInv
    <3> QED BY <1>3, <2>1, <2>2, <2>3, <3>1, <3>2 DEF RoomInv
  <2> QED BY <1>3, <1>5, <2>2, <2>3
<1>7. CASE ReadTest
  <2> DEFINE d == (seen - reads - overflows) % Modulus
  <2>1. /\ UNCHANGED <<reads, start_valid>> /\ reading = "test"
        /\ reading' = IF d = 0 THEN "none" ELSE "take"
      BY <1>7 DEF ReadTest, ReadGoes
  <2>2. UNCHANGED <<reads, First>> /\ Readable' = Readable
      BY <1>3, <2>1 DEF First, Readable
  <2>3. ASSUME RoomInv PROVE RoomInv'
    <3>1. d \in Counters /\ d <= Readable /\ Readable \in Int
        BY <1>2, <2>1, <2>3, Difference DEF CounterType, RoomInv
    <3> HIDE DEF d
    <3>2. reading' = "take" => Readable > 0
        BY <1>1, <2>1, <3>1 DEF Counters
    <3> QED BY <1>3, <2>1, <2>2, <2>3, <3>2 DEF RoomInv
  <2> QED BY <1>3, <1>5, <2>2, <2>3
<1>8. CASE ReadTake
  <2>1. /\ UNCHANGED reads /\ reading = "take" /\ reading' = "count"
        /\ start_valid' = start_valid + 1
      BY <1>8 DEF ReadTake, ReadGoes
  <2>2. UNCHANGED <<reads, First>> /\ Readable' = Readable
      BY <1>1, <1>2, <1>3, <2>1 DEF First, Readable, CounterType
  <2>3. RoomInv => RoomInv'
      BY <1>3, <2>1, <2>2 DEF RoomInv
  <2> QED BY <1>3, <1>5, <2>2, <2>3
<1>9. CASE ReadCount
  <2>1. /\ reading = "count" /\ reading' = "none" /\ reads' = (reads + 1) % Modulus
        /\ start_valid' = IF start_valid = Size THEN 0 ELSE start_valid
      BY <1>9 DEF ReadCount, ReadGoes
  <2>2. First \in 0..(Size - 1) /\ First' = Step(First)
      BY <1>1, <1>2, <2>1 DEF First, Step, CounterType, StartInv
  <2>3. ASSUME Reliable
        PROVE  RoomInv /\ Readable \in 1..Size /\ Readable' = Readable - 1
    <3>1. RoomInv /\ Readable \in 1..Size
        BY <1>1, <1>2, <2>1, <2>3 DEF RoomInv
    <3>2. Readable' = Readable - 1
        BY <1>1, <1>2, <1>3, <2>1, <3>1, Difference DEF CounterType, Readable
    <3> QED BY <3>1, <3>2
  <2>4. ASSUME Reliable' PROVE RoomInv'
    <3>1. RoomInv /\ Readable \in 1..Size /\ Readable' = Readable - 1
        BY <1>4, <2>3, <2>4
    <3>2. Readable' \in 0..(Size - 1)
        BY <1>1, <3>1
    <3>3. writing # "overflow"
        BY <1>2, <1>3, <2>1, <2>4 DEF TurnInv, Reliable
    <3> QED BY <1>1, <1>3, <2>1, <3>2, <3>3 DEF RoomInv
  <2>5. ASSUME ~everFull' PROVE IndexInv'
    <3>1. Reliable /\ IndexInv
        BY <1>2, <1>3, <2>5 DEF Reliable
    <3>2. Readable \in 1..Size /\ Readable' = Readable - 1
        BY <2>3, <3>1
    <3>3. (Step(First) + Readable - 1) % Size = (First + Readable) % Size
        BY <1>1, <2>2, <3>2, Index
    <3>4. Step(First) + Readable - 1 = First' + Readable'
        BY <1>1, <2>2, <3>2 DEF Step
    <3> QED BY <1>3, <3>1, <3>3, <3>4 DEF IndexInv
  <2> QED BY <1>3, <2>4, <2>5
<1> QED BY <1>3, <1>6, <1>7, <1>8, <1>9

(* Every state keeps the counters within the size of the buffer and the indices
   in step with them. *)
THEOREM BufferSpecInv == Spec => []BufferInv
<1>1. Init => BufferInv
  <2> SUFFICES ASSUME Init PROVE BufferInv
      OBVIOUS
  <2>1. Size \in Nat /\ Size > 0 /\ Size < Modulus /\ Modulus \in Nat
      BY BufferAssumption
  <2>2. CounterType /\ StartInv /\ TurnInv
    <3>1. 0 \in Counters /\ 0 \in 0..Size /\ 0 \in 0..(Size - 1)
        BY <2>1 DEF Counters
    <3>2. CounterType
        BY <3>1 DEF Init, CounterType
    <3> QED BY <2>1, <3>2 DEF Init, StartInv, TurnInv
  <2>3. 0 % Modulus = 0 /\ 0 % Size = 0
      BY <2>1
  <2>4. Readable = 0 /\ First = 0
      BY <2>3 DEF Init, Readable, First
  <2>5. RoomInv
      BY <2>1, <2>4 DEF Init, RoomInv
  <2>6. IndexInv
      BY <2>3, <2>4 DEF Init, IndexInv
  <2> QED BY <2>2, <2>5, <2>6 DEF BufferInv
<1>2. BufferInv /\ [Next]_cvars => BufferInv'
  <2>1. CASE UNCHANGED cvars
      BY <2>1 DEF cvars, writer, reader, BufferInv, CounterType, StartInv, TurnInv, Reliable,
                  RoomInv, IndexInv, Readable, First
  <2>2. BufferInv /\ Next => BufferInv'
    <3> SUFFICES ASSUME BufferInv, Next PROVE BufferInv'
        OBVIOUS
    <3>1. CounterType' /\ StartInv'
        BY TypeStep
    <3>2. TurnInv' /\ (Reliable' => RoomInv') /\ (~everFull' => IndexInv')
        BY WriterStep, ReaderStep DEF Next
    <3> QED BY <3>1, <3>2 DEF BufferInv
  <2> QED BY <2>1, <2>2
<1> QED BY <1>1, <1>2, PTL DEF Spec

(* The counters never report more elements than there are slots, and until the
   first overflow the next write goes behind the readable elements: even when
   the counters have wrapped, and between any two accesses of callers that do
   not exclude each other. *)
THEOREM CountersConsistentAlways == Spec => []CountersConsistent
<1>1. BufferInv => CountersConsistent
    BY DEF BufferInv, Reliable, RoomInv, IndexInv, CountersConsistent
<1> QED BY <1>1, BufferSpecInv, PTL

-----------------------------------------------------------------------------
(***************************************************************************)
(* The buffer implements the queue of FifoSpec.                            *)
(***************************************************************************)
Pending == (seen - reads - overflows) % Modulus

(* The elements on their way, and what an empty buffer has settled. *)
DataInv ==
    /\ buffer \in [0..(Size - 1) -> Elements]
    /\ writing \in {"overflow", "store", "count"} => el \in Elements
    /\ reading = "count" => value \in Elements
    /\ exclusive /\ reading = "test" => seen = writes
    /\ ~everFull => /\ writing = "count" => buffer[end_valid] = el
                    /\ reading = "count" => value = buffer[First]
                    /\ reading = "test" /\ Pending = 0 => result = Nothing

(* The slots of the readable elements are not the slot of the next write. *)
LEMMA Slots ==
    ASSUME BufferInv
    PROVE  /\ First \in 0..(Size - 1) /\ Readable \in Nat /\ end_valid \in 0..(Size - 1)
           /\ \A i \in 1..Readable : (First + i - 1) % Size \in 0..(Size - 1)
           /\ First % Size = First
           /\ ~everFull /\ Readable < Size
                => \A i \in 1..Readable : (First + i - 1) % Size # end_valid
<1>1. Size \in Nat /\ Size > 0 /\ Modulus \in Nat
    BY BufferAssumption
<1>2. First \in 0..(Size - 1) /\ end_valid \in 0..(Size - 1)
    BY <1>1 DEF BufferInv, First, CounterType, StartInv
<1>3. Readable \in Nat
    BY <1>1, Difference DEF BufferInv, CounterType, Readable, Counters
<1>4. ASSUME NEW j \in Nat PROVE j % Size \in 0..(Size - 1)
    BY <1>1, <1>4
<1>5. \A i \in 1..Readable : First + i - 1 \in Nat
    BY <1>2, <1>3
<1>6. First % Size = First
    BY <1>1, <1>2
<1>7. ASSUME ~everFull, Readable < Size, NEW i \in 1..Readable
      PROVE  (First + i - 1) % Size # end_valid
  <2> DEFINE a == First + i - 1
             b == First + Readable
  <2>1. /\ a \in Int /\ a >= 0 /\ a < 2 * Size
        /\ b \in Int /\ b >= 0 /\ b < 2 * Size
        /\ a < b /\ b < a + Size
      BY <1>1, <1>2, <1>3, <1>7
  <2>2. b % Size = end_valid
      BY <1>7 DEF BufferInv, IndexInv
  <2> HIDE DEF a, b
  <2>3. /\ a % Size = IF a < -Size THEN a + 2 * Size ELSE IF a < 0 THEN a + Size
                      ELSE IF a < Size THEN a ELSE a - Size
        /\ b % Size = IF b < -Size THEN b + 2 * Size ELSE IF b < 0 THEN b + Size
                      ELSE IF b < Size THEN b ELSE b - Size
    <3>1. a >= -2 * Size /\ b >= -2 * Size
        BY <1>1, <2>1
    <3> QED BY <1>1, <2>1, <3>1, Remainder
  <2>4. a % Size # b % Size
      BY <1>1, <2>1, <2>3
  <2> QED BY <2>2, <2>4 DEF a
<1> QED BY <1>2, <1>3, <1>4, <1>5, <1>6, <1>7

(* n elements from slot f on, around the end of the array. *)
LEMMA Window ==
    ASSUME NEW b \in [0..(Size - 1) -> Elements], NEW n \in Nat, NEW f \in 0..(Size - 1),
           NEW c, c = [i \in 1..n |-> b[(f + i - 1) % Size]]
    PROVE  /\ c \in Seq(Elements) /\ Len(c) = n
           /\ \A i \in 1..n : c[i] = b[(f + i - 1) % Size]
           /\ c = <<>> <=> n = 0
<1>1. Size \in Nat /\ Size > 0
    BY BufferAssumption
<1>2. ASSUME NEW j \in Nat PROVE j % Size \in 0..(Size - 1)
    BY <1>1, <1>2
<1>3. \A i \in 1..n : f + i - 1 \in Nat
    BY <1>1
<1>4. \A i \in 1..n : b[(f + i - 1) % Size] \in Elements
    BY <1>2, <1>3
<1>5. c \in Seq(Elements) /\ Len(c) = n
    BY <1>4
<1>6. c = <<>> <=> n = 0
    BY <1>5, EmptySeq
<1> QED BY <1>5, <1>6

LEMMA ContentsAre ==
    ASSUME BufferInv, DataInv
    PROVE  /\ Contents \in Seq(Elements) /\ Len(Contents) = Readable
           /\ \A i \in 1..Readable : Contents[i] = buffer[(First + i - 1) % Size]
           /\ Contents = <<>> <=> Readable = 0
<1>1. Contents = [i \in 1..Readable |-> buffer[(First + i - 1) % Size]]
    BY DEF Contents
<1> QED BY <1>1, Slots, Window DEF DataInv

LEMMA Predecessor ==
    ASSUME NEW s \in 0..Size
    PROVE  /\ s > 0 => s - 1 \in 0..(Size - 1)
           /\ s < Size => s \in 0..(Size - 1)
BY BufferAssumption

LEMMA ContentsNext ==
    ASSUME BufferInv', DataInv'
    PROVE  /\ Contents' \in Seq(Elements) /\ Len(Contents') = Readable' /\ Readable' \in Nat
           /\ \A i \in 1..Readable' : Contents'[i] = buffer'[(First' + i - 1) % Size]
<1>1. Size \in Nat /\ Size > 0 /\ Modulus \in Nat
    BY BufferAssumption
<1>2. First' \in 0..(Size - 1)
  <2>1. CounterType' /\ StartInv'
      BY DEF BufferInv
  <2>2. start_valid' \in 0..Size
      BY <2>1 DEF CounterType
  <2>3. reading' # "count" => start_valid' < Size
      BY <2>1 DEF StartInv
  <2>4. reading' = "count" => start_valid' > 0
      BY <2>1 DEF StartInv
  <2>5. CASE reading' = "count"
    <3>1. start_valid' - 1 \in 0..(Size - 1)
        BY <2>2, <2>4, <2>5, Predecessor
    <3> QED BY <2>5, <3>1 DEF First
  <2>6. CASE reading' # "count"
    <3>1. start_valid' \in 0..(Size - 1)
        BY <2>2, <2>3, <2>6, Predecessor
    <3> QED BY <2>6, <3>1 DEF First
  <2> QED BY <2>5, <2>6
<1>3. Readable' \in Nat
  <2>1. CounterType'
      BY DEF BufferInv
  <2>2. writes' \in Counters /\ reads' \in Counters /\ overflows' \in Counters
      BY <2>1 DEF CounterType
  <2>3. (writes' - reads' - overflows') % Modulus \in Counters
      BY <2>2, Difference
  <2>4. Readable' \in Counters
      BY <2>3 DEF Readable
  <2> QED BY <2>4 DEF Counters
<1>4. Contents' = [i \in 1..Readable' |-> buffer'[(First' + i - 1) % Size]]
    BY DEF Contents
<1>5. buffer' \in [0..(Size - 1) -> Elements]
    BY DEF DataInv
<1> DEFINE c == Contents'
           b == buffer'
           n == Readable'
           f == First'
<1>6. c = [i \in 1..n |-> b[(f + i - 1) % Size]] /\ b \in [0..(Size - 1) -> Elements]
      /\ n \in Nat /\ f \in 0..(Size - 1)
    BY <1>2, <1>3, <1>4, <1>5
<1> HIDE DEF c, b, n, f
<1>7. c \in Seq(Elements)
    BY <1>6, Window
<1>8. Len(c) = n
    BY <1>6, Window
<1>9. \A i \in 1..n : c[i] = b[(f + i - 1) % Size]
    BY <1>6, Window
<1> QED BY <1>6, <1>7, <1>8, <1>9 DEF c, b, n, f

LEMMA ContentsKept ==
    ASSUME UNCHANGED <<Readable, First>>,
           \A i \in 1..Readable : buffer'[(First + i - 1) % Size] = buffer[(First + i - 1) % Size]
    PROVE  Contents' = Contents
BY DEF Contents

LEMMA DataStep ==
    ASSUME BufferInv, DataInv, Next
    PROVE  DataInv'
<1>1. Size \in Nat /\ Size > 0
    BY BufferAssumption
<1>2. /\ First \in 0..(Size - 1) /\ Readable \in Nat /\ end_valid \in 0..(Size - 1)
      /\ First % Size = First
      /\ ~everFull /\ Readable < Size
           => \A i \in 1..Readable : (First + i - 1) % Size # end_valid
    BY Slots
<1>3. /\ CounterType /\ StartInv /\ TurnInv /\ (Reliable => RoomInv)
    BY DEF BufferInv
<1>4. CASE \E e \in Elements : WriteTest(e)
  <2>1. PICK e \in Elements : WriteTest(e)
      BY <1>4
  <2>2. /\ UNCHANGED <<buffer, writes, overflows, end_valid, reader, exclusive>> /\ el' = e
        /\ writing' # "count" /\ (~everFull' => ~everFull)
      BY <2>1 DEF WriteTest, WriteGoes
  <2> QED BY <2>2 DEF DataInv, reader, Pending, First
<1>5. CASE WriteOverflow
  <2>1. /\ UNCHANGED <<buffer, writes, end_valid, el, everFull, reader, exclusive>> /\ everFull
        /\ writing = "overflow"
      BY <1>3, <1>5 DEF WriteOverflow, WriteGoes, TurnInv
  <2> QED BY <2>1 DEF DataInv, reader
<1>6. CASE WriteStore
  <2>1. /\ UNCHANGED <<writes, overflows, end_valid, el, everFull, reader, exclusive>>
        /\ writing = "store" /\ writing' = "count" /\ buffer' = [buffer EXCEPT ![end_valid] = el]
      BY <1>6 DEF WriteStore, WriteGoes
  <2>2. el \in Elements /\ buffer' \in [0..(Size - 1) -> Elements] /\ buffer'[end_valid] = el
      BY <1>2, <2>1 DEF DataInv
  <2>3. ASSUME ~everFull, reading = "count"
        PROVE  value = buffer'[First]
    <3>1. Readable > 0 /\ Readable < Size
        BY <1>3, <2>1, <2>3 DEF Reliable, RoomInv
    <3>2. 1 \in 1..Readable /\ First + 1 - 1 = First
        BY <1>2, <3>1
    <3>3. First # end_valid
        BY <1>2, <2>3, <3>1, <3>2
    <3> QED BY <2>1, <2>3, <1>2, <3>3 DEF DataInv
  <2>4. First' = First
      BY <2>1 DEF First, reader
  <2> QED BY <2>1, <2>2, <2>3, <2>4 DEF DataInv, reader, Pending
<1>7. CASE WriteCount
  <2>1. /\ UNCHANGED <<buffer, overflows, everFull, reader, exclusive>>
        /\ writing = "count" /\ writing' = "none"
      BY <1>7 DEF WriteCount, WriteGoes
  <2>2. exclusive => reading = "none"
      BY <1>3, <2>1 DEF TurnInv
  <2> QED BY <2>1, <2>2 DEF DataInv, reader, Pending, First
<1>8. CASE ReadLoad
  <2>1. /\ UNCHANGED <<writer, exclusive, reads>> /\ reading' = "test" /\ seen' = writes
        /\ result' = IF Readable = 0 THEN Nothing ELSE result
      BY <1>8 DEF ReadLoad, ReadGoes
  <2>2. Pending' = Readable
      BY <2>1 DEF Pending, Readable, writer
  <2> QED BY <2>1, <2>2 DEF DataInv, writer
<1>9. CASE ReadTest
  <2>1. UNCHANGED <<writer, exclusive>> /\ reading' \in {"none", "take"}
      BY <1>9 DEF ReadTest, ReadGoes
  <2> QED BY <2>1 DEF DataInv, writer
<1>10. CASE ReadTake
  <2>1. /\ UNCHANGED <<writer, exclusive>> /\ reading' = "count" /\ value' = buffer[start_valid]
        /\ reading = "take" /\ start_valid' = start_valid + 1
      BY <1>10 DEF ReadTake, ReadGoes
  <2>2. First = start_valid /\ First' = First
      BY <1>3, <2>1 DEF First, CounterType
  <2> QED BY <1>2, <2>1, <2>2 DEF DataInv, writer
<1>11. CASE ReadCount
  <2>1. UNCHANGED <<writer, exclusive>> /\ reading' = "none"
      BY <1>11 DEF ReadCount, ReadGoes
  <2> QED BY <2>1 DEF DataInv, writer
<1> QED BY <1>4, <1>5, <1>6, <1>7, <1>8, <1>9, <1>10, <1>11 DEF Next

(* Every step of the writer is a step of the queue: the write enters it with the
   counter. *)
LEMMA WriterIsFifo ==
    ASSUME BufferInv, DataInv, BufferInv', DataInv',
           (\E e \in Elements : WriteTest(e)) \/ WriteOverflow \/ WriteStore \/ WriteCount
    PROVE  [Fifo!FifoNext]_(Fifo!fvars)
<1>1. /\ UNCHANGED <<exclusive, result, reads, start_valid, reading, seen>> /\ First' = First
  <2>1. UNCHANGED <<reader, exclusive>>
      BY DEF WriteTest, WriteOverflow, WriteStore, WriteCount, WriteGoes
  <2> QED BY <2>1 DEF reader, First
<1>2. /\ Contents \in Seq(Elements) /\ Len(Contents) = Readable
      /\ \A i \in 1..Readable : Contents[i] = buffer[(First + i - 1) % Size]
      /\ Readable \in Nat /\ First \in 0..(Size - 1)
    BY ContentsAre, Slots
<1>3. /\ Contents' \in Seq(Elements) /\ Len(Contents') = Readable'
      /\ \A i \in 1..Readable' : Contents'[i] = buffer'[(First + i - 1) % Size]
      /\ Readable' \in Nat
    BY <1>1, ContentsNext
<1>4. Reliable => Readable \in 0..Size
    BY DEF BufferInv, RoomInv
<1>5. CASE \E e \in Elements : WriteTest(e)
  <2>1. UNCHANGED <<buffer, writes, overflows>> /\ everFull' = (everFull \/ Readable = Size)
      BY <1>5 DEF WriteTest
  <2>2. Contents' = Contents
      BY <1>1, <2>1, ContentsKept DEF Readable
  <2>3. CASE everFull' = everFull
      BY <1>1, <2>2, <2>3 DEF Fifo!fvars
  <2>4. CASE everFull' # everFull
    <3>1. ~everFull /\ everFull' = TRUE /\ Len(Contents) = Size
        BY <1>2, <2>1, <2>4 DEF BufferInv, CounterType
    <3> QED BY <1>1, <2>2, <3>1 DEF Fifo!FifoNext, Fifo!Overflow
  <2> QED BY <2>3, <2>4
<1>6. CASE WriteOverflow
  <2>1. UNCHANGED everFull /\ everFull /\ writing = "overflow" /\ overflows' = (overflows + 1) % Modulus
        /\ UNCHANGED writes
      BY <1>6 DEF WriteOverflow, WriteGoes, BufferInv, TurnInv
  <2>2. ASSUME exclusive
        PROVE  Len(Contents) = Size /\ Len(Contents') = Size - 1
    <3>1. Readable = Size /\ Size > 0 /\ Readable > 0
        BY <2>1, <2>2, BufferAssumption DEF BufferInv, Reliable, RoomInv
    <3>2. Readable' = Readable - 1
      <4>1. CounterType
          BY DEF BufferInv
      <4> QED BY <1>1, <2>1, <3>1, <4>1, BufferAssumption, Difference DEF CounterType, Readable
    <3> QED BY <1>2, <1>3, <3>1, <3>2
  <2> QED BY <1>1, <2>1, <2>2 DEF Fifo!FifoNext, Fifo!Unordered
<1>7. CASE WriteStore
  <2>1. /\ UNCHANGED <<everFull, writes, overflows>> /\ writing = "store"
        /\ buffer' = [buffer EXCEPT ![end_valid] = el]
      BY <1>7 DEF WriteStore, WriteGoes
  <2>2. Readable' = Readable
      BY <1>1, <2>1 DEF Readable
  <2>3. CASE ~everFull
    <3>1. Readable < Size
        BY <2>1, <2>3 DEF BufferInv, Reliable, RoomInv
    <3>2. \A i \in 1..Readable : /\ (First + i - 1) % Size \in 0..(Size - 1)
                                 /\ (First + i - 1) % Size # end_valid
        BY <2>3, <3>1, Slots
    <3>3. \A i \in 1..Readable :
              buffer'[(First + i - 1) % Size] = buffer[(First + i - 1) % Size]
        BY <2>1, <3>2 DEF DataInv
    <3>4. Contents' = Contents
        BY <1>1, <2>2, <3>3, ContentsKept
    <3> QED BY <1>1, <2>1, <3>4 DEF Fifo!fvars
  <2>4. CASE everFull
    <3>1. exclusive => Len(Contents') - Len(Contents) = 0 /\ Len(Contents') <= Size
        BY <1>2, <1>3, <1>4, <2>2 DEF Reliable
    <3> QED BY <1>1, <2>1, <2>4, <3>1 DEF Fifo!FifoNext, Fifo!Unordered
  <2> QED BY <2>3, <2>4
<1>8. CASE WriteCount
  <2>1. /\ UNCHANGED <<everFull, overflows, buffer>> /\ writing = "count"
        /\ writes' = (writes + 1) % Modulus
      BY <1>8 DEF WriteCount, WriteGoes
  <2>2. ASSUME Reliable
        PROVE  Readable < Size /\ Readable' = Readable + 1
    <3>1. Readable < Size
        BY <2>1, <2>2 DEF BufferInv, RoomInv
    <3>2. Readable' = Readable + 1
      <4>1. Readable < Modulus - 1
          BY <1>2, <3>1, BufferAssumption
      <4> QED BY <1>1, <2>1, <4>1, Difference DEF BufferInv, CounterType, Readable
    <3> QED BY <3>1, <3>2
  <2>3. CASE ~everFull
    <3>1. Readable < Size /\ Readable' = Readable + 1 /\ el \in Elements
          /\ buffer[end_valid] = el /\ (First + Readable) % Size = end_valid
        BY <2>1, <2>2, <2>3 DEF Reliable, DataInv, BufferInv, IndexInv
    <3>2. /\ Append(Contents, el) \in Seq(Elements)
          /\ Len(Append(Contents, el)) = Readable + 1
          /\ \A i \in 1..Readable : Append(Contents, el)[i] = Contents[i]
          /\ Append(Contents, el)[Readable + 1] = el
        BY <1>2, <3>1
    <3>3. ASSUME NEW i \in 1..(Readable + 1)
          PROVE  Contents'[i] = Append(Contents, el)[i]
      <4>1. CASE i = Readable + 1
        <5>1. First + i - 1 = First + Readable
            BY <1>2, <4>1
        <5>2. Contents'[i] = buffer[(First + i - 1) % Size]
            BY <1>3, <2>1, <3>1, <3>3
        <5> QED BY <3>1, <3>2, <4>1, <5>1, <5>2
      <4>2. CASE i # Readable + 1
        <5>1. i \in 1..Readable
            BY <1>2, <3>3, <4>2
        <5>2. Contents'[i] = buffer[(First + i - 1) % Size]
            BY <1>3, <2>1, <3>1, <3>3
        <5> QED BY <1>2, <3>2, <5>1, <5>2
      <4> QED BY <4>1, <4>2
    <3>4. Contents' = Append(Contents, el)
        BY <1>3, <3>1, <3>2, <3>3, SeqEqual
    <3> QED BY <1>1, <1>2, <2>1, <2>3, <3>1, <3>4 DEF Fifo!FifoNext, Fifo!Put
  <2>4. CASE everFull
    <3>1. exclusive => Len(Contents') - Len(Contents) = 1 /\ Len(Contents') <= Size
        BY <1>2, <1>3, <2>2, BufferAssumption DEF Reliable
    <3> QED BY <1>1, <2>1, <2>4, <3>1 DEF Fifo!FifoNext, Fifo!Unordered
  <2> QED BY <2>3, <2>4
<1> QED BY <1>5, <1>6, <1>7, <1>8

(* Every step of the reader is a step of the queue: the read leaves it with the
   counter, and an empty buffer is read when its counters are loaded. *)
LEMMA ReaderIsFifo ==
    ASSUME BufferInv, DataInv, BufferInv', DataInv',
           ReadLoad \/ ReadTest \/ ReadTake \/ ReadCount
    PROVE  [Fifo!FifoNext]_(Fifo!fvars)
<1>1. UNCHANGED <<writes, overflows, end_valid, writing, buffer, everFull, exclusive>>
    BY DEF ReadLoad, ReadTest, ReadTake, ReadCount, ReadGoes, writer
<1>2. /\ Contents \in Seq(Elements) /\ Len(Contents) = Readable
      /\ \A i \in 1..Readable : Contents[i] = buffer[(First + i - 1) % Size]
      /\ Contents = <<>> <=> Readable = 0
      /\ Readable \in Nat /\ First \in 0..(Size - 1) /\ First % Size = First
    BY ContentsAre, Slots
<1>3. CounterType /\ StartInv /\ (Reliable => RoomInv)
    BY DEF BufferInv
<1>4. CASE ReadLoad
  <2>1. /\ UNCHANGED <<reads, start_valid>> /\ reading = "none" /\ reading' = "test"
        /\ result' = IF Readable = 0 THEN Nothing ELSE result
      BY <1>4 DEF ReadLoad, ReadGoes
  <2>2. Contents' = Contents
      BY <1>1, <2>1, ContentsKept DEF Readable, First
  <2>3. CASE Readable = 0
      BY <1>1, <1>2, <2>1, <2>2, <2>3 DEF Fifo!FifoNext, Fifo!GetNothing
  <2>4. CASE Readable # 0
      BY <1>1, <2>1, <2>2, <2>4 DEF Fifo!fvars
  <2> QED BY <2>3, <2>4
<1>5. CASE ReadTest
  <2>1. /\ UNCHANGED <<reads, start_valid>> /\ reading = "test" /\ reading' # "count"
        /\ result' = IF Pending = 0 THEN Nothing ELSE result
      BY <1>5 DEF ReadTest, ReadGoes, Pending
  <2>2. Contents' = Contents
      BY <1>1, <2>1, ContentsKept DEF Readable, First
  <2>3. CASE result' = result
      BY <1>1, <2>2, <2>3 DEF Fifo!fvars
  <2>4. CASE result' # result
    <3>1. everFull /\ Pending = 0 /\ result' = Nothing
        BY <2>1, <2>4 DEF DataInv
    <3>2. CASE exclusive
      <4>1. Readable = 0
          BY <2>1, <3>1, <3>2 DEF DataInv, Pending, Readable
      <4> QED BY <1>1, <1>2, <2>2, <3>1, <4>1 DEF Fifo!FifoNext, Fifo!GetNothing
    <3>3. CASE ~exclusive
        BY <1>1, <3>1, <3>3 DEF Fifo!FifoNext, Fifo!Unordered
    <3> QED BY <3>2, <3>3
  <2> QED BY <2>3, <2>4
<1>6. CASE ReadTake
  <2>1. /\ UNCHANGED <<reads, result>> /\ reading = "take" /\ reading' = "count"
        /\ start_valid' = start_valid + 1
      BY <1>6 DEF ReadTake, ReadGoes
  <2>2. First' = First
      BY <1>3, <2>1 DEF First, CounterType
  <2>3. Contents' = Contents
      BY <1>1, <2>1, <2>2, ContentsKept DEF Readable
  <2> QED BY <1>1, <2>1, <2>3 DEF Fifo!fvars
<1>7. CASE ReadCount
  <2>1. /\ reading = "count" /\ reads' = (reads + 1) % Modulus /\ result' = value
        /\ start_valid' = IF start_valid = Size THEN 0 ELSE start_valid
        /\ reading' = "none" /\ value \in Elements
      BY <1>7 DEF ReadCount, ReadGoes, DataInv
  <2>2. First' = Step(First)
      BY <1>3, <2>1, BufferAssumption DEF First, Step, CounterType, StartInv
  <2>3. ASSUME Reliable
        PROVE  Readable > 0 /\ Readable <= Size /\ Readable' = Readable - 1
    <3>1. Readable > 0 /\ Readable <= Size
        BY <1>3, <2>1, <2>3, BufferAssumption DEF RoomInv
    <3>2. Readable' = Readable - 1
        BY <1>1, <1>3, <2>1, <3>1, Difference DEF CounterType, Readable
    <3> QED BY <3>1, <3>2
  <2>4. /\ Contents' \in Seq(Elements) /\ Len(Contents') = Readable' /\ Readable' \in Nat
        /\ \A i \in 1..Readable' : Contents'[i] = buffer[(Step(First) + i - 1) % Size]
      BY <1>1, <2>2, ContentsNext
  <2>5. CASE ~everFull
    <3>1. /\ Readable > 0 /\ Readable <= Size /\ Readable' = Readable - 1 /\ Contents # <<>>
          /\ value = buffer[First]
        BY <1>2, <2>1, <2>3, <2>5 DEF Reliable, DataInv
    <3>2. /\ Tail(Contents) \in Seq(Elements) /\ Len(Tail(Contents)) = Readable - 1
          /\ \A i \in 1..Len(Tail(Contents)) : Tail(Contents)[i] = Contents[i + 1]
        BY <1>2, <3>1, HeadTailProperties
    <3>3. Head(Contents) = value
      <4>1. 1 \in 1..Readable /\ First + 1 - 1 = First
          BY <1>2, <3>1
      <4>2. Contents[1] = buffer[First]
          BY <1>2, <4>1
      <4> QED BY <1>2, <3>1, <4>2
    <3>4. ASSUME NEW i \in 1..(Readable - 1)
          PROVE  Contents'[i] = Tail(Contents)[i]
      <4>1. i \in 0..Size /\ i > 0 /\ i + 1 \in 1..Readable /\ First + (i + 1) - 1 = First + i
          BY <1>2, <3>1, <3>4, BufferAssumption
      <4>2. (Step(First) + i - 1) % Size = (First + i) % Size
          BY <1>2, <4>1, Index
      <4>3. Contents'[i] = buffer[(Step(First) + i - 1) % Size]
          BY <2>4, <3>1, <3>4
      <4>4. Contents[i + 1] = buffer[(First + i) % Size]
          BY <1>2, <4>1
      <4>5. Tail(Contents)[i] = Contents[i + 1]
          BY <3>2, <3>4
      <4> QED BY <4>2, <4>3, <4>4, <4>5
    <3>5. Contents' = Tail(Contents)
        BY <2>4, <3>1, <3>2, <3>4, SeqEqual
    <3> QED BY <1>1, <2>1, <2>5, <3>1, <3>3, <3>5 DEF Fifo!FifoNext, Fifo!Get
  <2>6. CASE everFull
    <3>1. exclusive => Contents # <<>> /\ Len(Contents') = Len(Contents) - 1
        BY <1>2, <2>3, <2>4 DEF Reliable
    <3> QED BY <1>1, <2>1, <2>6, <3>1 DEF Fifo!FifoNext, Fifo!Unordered
  <2> QED BY <2>5, <2>6
<1> QED BY <1>4, <1>5, <1>6, <1>7

(* The circular buffer of any size and any width of its counters is a queue until
   a write meets a full buffer, whether or not its two callers exclude each other;
   afterwards it still has the right number of elements for two that do. *)
THEOREM BufferImplementsFifo == Spec => ImplementsFifo
<1>1. Init => DataInv /\ Fifo!FifoInit
  <2> SUFFICES ASSUME Init PROVE DataInv /\ Fifo!FifoInit
      OBVIOUS
  <2>1. DataInv
      BY DEF Init, DataInv
  <2>2. Readable = 0
    <3>1. 0 % Modulus = 0
        BY BufferAssumption
    <3> QED BY <3>1 DEF Init, Readable
  <2>3. Contents = <<>>
      BY <2>2 DEF Contents
  <2> QED BY <2>1, <2>3 DEF Init, Fifo!FifoInit
<1>2. BufferInv /\ DataInv /\ [Next]_cvars => DataInv'
  <2>1. CASE UNCHANGED cvars
      BY <2>1 DEF cvars, writer, reader, DataInv, Pending, First
  <2> QED BY <2>1, DataStep
<1>3. Spec => []DataInv
    BY <1>1, <1>2, BufferSpecInv, PTL DEF Spec
<1>4. BufferInv /\ DataInv /\ BufferInv' /\ DataInv' /\ [Next]_cvars
        => [Fifo!FifoNext]_(Fifo!fvars)
  <2>1. CASE UNCHANGED cvars
    <3>1. Contents' = Contents
        BY <2>1 DEF cvars, writer, reader, Contents, Readable, First
    <3> QED BY <2>1, <3>1 DEF cvars, writer, reader, Fifo!fvars
  <2>2. CASE Next
      BY <2>2, WriterIsFifo, ReaderIsFifo DEF Next
  <2> QED BY <2>1, <2>2
<1> QED BY <1>1, <1>3, <1>4, BufferSpecInv, PTL DEF Spec, ImplementsFifo, Fifo!FifoSpec
=============================================================================
