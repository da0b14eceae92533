----------------------------- MODULE MCSynthesis -----------------------------
(***************************************************************************)
(* Small instances of Synthesis for TLC.                                   *)
(***************************************************************************)
EXTENDS Synthesis, TLC

CONSTANTS c1, c2

(* One thread that queues, polls, pauses and stops.                        *)
PollMix == c1 :> {"text", "mark", "change", "synth", "poll", "pause", "stop",
                  "later", "clear"}

(* One thread that queues, polls, synchronizes and stops.                  *)
SyncMix == c1 :> {"text", "mark", "change", "synth", "poll", "sync", "stop"}

(* One thread that keeps text back and speaks by polling, and one that     *)
(* stops it.                                                               *)
StopperMix == c1 :> {"later", "synth", "poll"} @@ c2 :> {"stop"}
=============================================================================
