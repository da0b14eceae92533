---------------------------- MODULE MCQueueThread ----------------------------
(***************************************************************************)
(* Small instances of QueueThread for TLC.  No bound is put on any run:    *)
(* message cells are used again, so the state space is finite.             *)
(***************************************************************************)
EXTENDS QueueThread, TLC

CONSTANTS c1, c2, c3

(* Two senders, one of them also posting, against the thread's owner, who  *)
(* stops it and ends it.                                                   *)
OwnerMix == c1 :> {"post", "send"} @@ c2 :> {"send"} @@ c3 :> {"stop", "end"}
=============================================================================
