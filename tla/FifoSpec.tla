------------------------------ MODULE FifoSpec ------------------------------
(***************************************************************************)
(* What circular_buffer.c promises its callers: a queue of at most Size    *)
(* elements whose reads return the elements in the order they were         *)
(* written, until a write meets a full queue, which is_overflowed reports. *)
(* From then on only the number of readable elements is promised, and only *)
(* to callers that exclude each other.                                     *)
(***************************************************************************)
EXTENDS Integers, Sequences

CONSTANTS Size, Elements, Nothing

VARIABLES queue, overflowed, exclusive, result

fvars == <<queue, overflowed, exclusive, result>>

FifoInit ==
    /\ queue = <<>> /\ overflowed = FALSE /\ result = Nothing
    /\ exclusive \in BOOLEAN

Put(e) ==
    /\ ~overflowed /\ Len(queue) < Size
    /\ queue' = Append(queue, e)
    /\ UNCHANGED <<overflowed, result>>

Overflow ==
    /\ ~overflowed /\ Len(queue) = Size
    /\ overflowed' = TRUE
    /\ UNCHANGED <<queue, result>>

Get ==
    /\ ~overflowed /\ queue # <<>>
    /\ result' = Head(queue)
    /\ queue' = Tail(queue)
    /\ UNCHANGED overflowed

GetNothing ==
    /\ queue = <<>>
    /\ result' = Nothing
    /\ UNCHANGED <<queue, overflowed>>

Unordered ==
    /\ overflowed /\ UNCHANGED overflowed
    /\ exclusive =>
         \/ Len(queue') - Len(queue) \in {0, 1} /\ Len(queue') <= Size /\ UNCHANGED result
         \/ Len(queue) = Size /\ Len(queue') = Size - 1 /\ UNCHANGED result
         \/ queue # <<>> /\ Len(queue') = Len(queue) - 1 /\ result' \in Elements

FifoNext ==
    /\ UNCHANGED exclusive
    /\ (\E e \in Elements : Put(e)) \/ Overflow \/ Get \/ GetNothing \/ Unordered

FifoSpec == FifoInit /\ [][FifoNext]_fvars
=============================================================================
