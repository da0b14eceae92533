------------------------------ MODULE MCDriver ------------------------------
(***************************************************************************)
(* Two utterances.  The first is a buffer that only the mark behind it     *)
(* pushes out, and a mark that has no sound in front of it, so that it     *)
(* ends with nothing in hand.  The second is three pieces: one with        *)
(* nothing to say, one that is a mark alone, which a drain may drop from   *)
(* between the others, and one of two buffers, a full one and one that     *)
(* only the end pushes out.                                                *)
(***************************************************************************)
EXTENDS Driver

Two == << << <<Short, Mark(1), Mark(2)>> >>, << <<>>, <<Mark(3)>>, <<Full, Short>> >> >>

=============================================================================
