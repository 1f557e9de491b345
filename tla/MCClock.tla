------------------------------ MODULE MCClock ------------------------------
(* Instances of Clock for TLC: times that differ in every field, with the
   largest values of two digits. *)
EXTENDS Clock

MCTimes == {
    [tm_sec |-> 59, tm_min |-> 9, tm_hour |-> 23, tm_mday |-> 31, tm_mon |-> 12, tm_year |-> 79],
    [tm_sec |-> 0, tm_min |-> 53, tm_hour |-> 14, tm_mday |-> 17, tm_mon |-> 6, tm_year |-> 16]}
=============================================================================
