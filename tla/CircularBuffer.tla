--------------------------- MODULE CircularBuffer ---------------------------
(***************************************************************************)
(* circular_buffer.c: two indices into the array and three free-running    *)
(* counters of a fixed width, whose difference is the number of readable   *)
(* elements.                                                               *)
(*                                                                         *)
(* One task calls cbuff_write and another one cbuff_read.  Either they     *)
(* exclude each other, as two tasks with a mutex do, or each may preempt   *)
(* the other between two accesses to what they share.  The indices are not *)
(* shared: they move with the access before.                               *)
(***************************************************************************)
EXTENDS Integers, Sequences

CONSTANTS
    Size,      \* cb->size
    Modulus,   \* 2^w for the width w of the counters
    Elements,  \* values of union cb_element
    Nothing    \* cb_read.error = 1

ASSUME BufferAssumption ==
    /\ Size \in Nat \ {0} /\ Modulus \in Nat /\ Size < Modulus
    /\ Nothing \notin Elements

VARIABLES
    buffer, writes, reads, overflows, start_valid, end_valid,
    writing, el,        \* where cbuff_write is, or "none", and its argument
    reading, seen,      \* where cbuff_read is, the writes it has loaded,
    value,              \* ... and ret.value
    result,     \* what the last cbuff_read returns
    exclusive,  \* the two tasks exclude each other
    everFull    \* history: a write has met a full buffer

writer == <<writes, overflows, end_valid, writing, el, buffer, everFull>>
reader == <<reads, start_valid, reading, seen, value, result>>
cvars == <<writer, reader, exclusive>>

Readable == (writes - reads - overflows) % Modulus

(* The index that follows i. *)
Step(i) == IF i + 1 = Size THEN 0 ELSE i + 1

(* sys_sbrk does not clear the array. *)
Init ==
    /\ buffer \in [0..(Size - 1) -> Elements]
    /\ writes = 0 /\ reads = 0 /\ overflows = 0
    /\ start_valid = 0 /\ end_valid = 0
    /\ writing = "none" /\ el = Nothing
    /\ reading = "none" /\ seen = 0 /\ value = Nothing
    /\ result = Nothing /\ everFull = FALSE /\ exclusive \in BOOLEAN

-----------------------------------------------------------------------------
WriteGoes(from, to) == writing = from /\ writing' = to /\ UNCHANGED <<reader, exclusive>>

(* cbuff_write: the test for a full buffer ... *)
WriteTest(e) ==
    /\ exclusive => reading = "none"
    /\ WriteGoes("none", IF Readable = Size THEN "overflow" ELSE "store")
    /\ el' = e
    /\ everFull' = (everFull \/ Readable = Size)
    /\ UNCHANGED <<writes, overflows, end_valid, buffer>>

(* Faulty variant: the overwritten element is still counted. *)
WriteOverflowUncounted ==
    WriteGoes("overflow", "store") /\ UNCHANGED <<overflows, writes, end_valid, el, buffer, everFull>>

(* ... the overflow, the element, and the counter. *)
WriteOverflow ==
    /\ WriteGoes("overflow", "store")
    /\ overflows' = (overflows + 1) % Modulus
    /\ UNCHANGED <<writes, end_valid, el, buffer, everFull>>

WriteStore ==
    /\ WriteGoes("store", "count")
    /\ buffer' = [buffer EXCEPT ![end_valid] = el]
    /\ UNCHANGED <<writes, overflows, end_valid, el, everFull>>

WriteCount ==
    /\ WriteGoes("count", "none")
    /\ writes' = (writes + 1) % Modulus
    /\ end_valid' = Step(end_valid)
    /\ el' = Nothing
    /\ UNCHANGED <<overflows, buffer, everFull>>

-----------------------------------------------------------------------------
ReadGoes(from, to) == reading = from /\ reading' = to /\ UNCHANGED <<writer, exclusive>>

(* cbuff_read loads writes before overflows; what it returns from an empty
   buffer is settled by the first. *)
ReadLoad ==
    /\ exclusive => writing = "none"
    /\ ReadGoes("none", "test")
    /\ seen' = writes
    /\ result' = IF Readable = 0 THEN Nothing ELSE result
    /\ UNCHANGED <<reads, start_valid, value>>

ReadTest ==
    /\ LET empty == (seen - reads - overflows) % Modulus = 0
       IN  /\ ReadGoes("test", IF empty THEN "none" ELSE "take")
           /\ result' = IF empty THEN Nothing ELSE result
    /\ seen' = 0
    /\ UNCHANGED <<reads, start_valid, value>>

(* Until reads is counted, start_valid may be Size. *)
ReadTake ==
    /\ ReadGoes("take", "count")
    /\ value' = buffer[start_valid]
    /\ start_valid' = start_valid + 1
    /\ UNCHANGED <<reads, seen, result>>

(* Faulty variant: the last slot is never read. *)
ReadCountShort ==
    /\ ReadGoes("count", "none")
    /\ reads' = (reads + 1) % Modulus
    /\ start_valid' = IF start_valid >= Size - 1 THEN 0 ELSE start_valid
    /\ result' = value /\ value' = Nothing
    /\ UNCHANGED seen

ReadCount ==
    /\ ReadGoes("count", "none")
    /\ reads' = (reads + 1) % Modulus
    /\ start_valid' = IF start_valid = Size THEN 0 ELSE start_valid
    /\ result' = value /\ value' = Nothing
    /\ UNCHANGED seen

Next ==
    \/ (\E e \in Elements : WriteTest(e)) \/ WriteOverflow \/ WriteStore \/ WriteCount
    \/ ReadLoad \/ ReadTest \/ ReadTake \/ ReadCount

Spec == Init /\ [][Next]_cvars

-----------------------------------------------------------------------------
(* Where the oldest readable element is. *)
First == IF reading = "count" THEN start_valid - 1 ELSE start_valid

(* The counters agree with each other and with the indices, wrapped or not: at
   most Size elements are readable, and until the first overflow the next write
   goes behind them.  Past an overflow only callers that exclude each other can
   rely on the counters. *)
CountersConsistent ==
    /\ exclusive \/ ~everFull => Readable \in 0..Size
    /\ ~everFull => (First + Readable) % Size = end_valid

(* The readable elements, oldest first. *)
Contents == [i \in 1..Readable |-> buffer[(First + i - 1) % Size]]

Fifo == INSTANCE FifoSpec WITH queue <- Contents, overflowed <- everFull

(* Until the first overflow the buffer is a queue, even for a reader and a
   writer that preempt each other without a mutex; afterwards it still counts
   for callers that exclude each other, but start_valid no longer points at the
   oldest element. *)
ImplementsFifo == Fifo!FifoSpec
=============================================================================
