------------------------------ MODULE MCStream ------------------------------
(***************************************************************************)
(* A stream with words of four bits.                                       *)
(***************************************************************************)
EXTENDS Stream

FarGaps == {1, 15}
PlusMinus == {-1, 1}
=============================================================================
