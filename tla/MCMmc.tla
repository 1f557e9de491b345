------------------------------- MODULE MCMmc -------------------------------
(***************************************************************************)
(* A card of version 1 with blocks of two bytes, one of version 2, one     *)
(* whose write blocks are smaller, and one of an unknown structure; every  *)
(* single wrong bit, and some bursts.                                      *)
(***************************************************************************)
EXTENDS Mmc

MCCard(structure, spec_vers, write_bl_len, c_size) ==
    [structure |-> structure, spec_vers |-> spec_vers, read_bl_len |-> 1,
     write_bl_len |-> write_bl_len, c_size |-> c_size, c_mult |-> 7]

MCCards == {MCCard(0, 0, 1, 4095), MCCard(1, 0, 1, 1535), MCCard(2, 4, 0, 1535), MCCard(2, 0, 1, 1)}
MCOneCard == {MCCard(0, 0, 1, 4095)}

MCFlips == {{n} : n \in 0..127} \cup {{n, n + 2, n + 6} : n \in {10, 40, 64, 119}}

(* What the theorems of MmcProofs take for granted. *)
ASSUME DamagesDetected == DamageDetected
=============================================================================
