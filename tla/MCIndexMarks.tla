---------------------------- MODULE MCIndexMarks ----------------------------
(***************************************************************************)
(* A small instance of a stream and of the sound made of it, for TLC, with *)
(* words of ten.                                                           *)
(***************************************************************************)
EXTENDS IndexMarks

(* The longer is as far as half a word goes.                               *)
NearGaps == {1, 4}
PlusMinus == {-2, 1}

(* Neither ends on a whole frame, and the second is asked for one moment   *)
(* beyond the first.                                                       *)
Asked == {4, 5}
=============================================================================
