----------------------------- MODULE IndexMarks -----------------------------
(***************************************************************************)
(* Index marks and the sound they stand in (src/src/klatt_run.c over       *)
(* src/src/eci_ixqueue.c), on top of the frames the array generator sends. *)
(*                                                                         *)
(* A mark the rules come to behind sound that is asked for and not made    *)
(* waits in a queue, with the number of samples that come between it and   *)
(* the mark in front of it.  The samples of a frame are handed over in     *)
(* pieces that end where the next mark is due.                             *)
(*                                                                         *)
(* The samples go to a callback, as eci_synth* has them, and no device is  *)
(* held.  Rate/Second is how many samples go to a moment: neither a frame  *)
(* nor the sound between two marks need come to a whole number of them.    *)
(***************************************************************************)
EXTENDS ArrayGenerator, FiniteSets

CONSTANTS
  Rate,     \* DL_RATE
  Second,   \* MS_PER_SECOND
  Asks,     \* how far the rules ask for sound
  MaxMarks, \* bound: how many marks wait at a time
  MaxShort \* bound: how far short the frames may have fallen when one is put in

ASSUME RateAssumption == Rate \in Nat /\ Second \in Nat \ {0}
ASSUME MarkAssumption == MaxMarks \in Nat /\ MaxShort \in Nat
(* Nobody asks for sound so late that a window's last step is beyond the   *)
(* last moment there is.                                                   *)
ASSUME AskAssumption ==
  \A to \in Asks \cup {0} : to \in Nat /\ to + Step <= Word * Word

VARIABLES
  marks,     \* SD_QUEUE: what each mark waits for behind the one in front,
             \* and, history, what is to be heard before it by rights
  handing,   \* how many samples of the frame are not handed over yet
  interrupt, \* the machine's interrupt flag
  short,     \* history: by how much the frames made since the queue was last
             \* empty fell short of the moments they cover
  cut,       \* history: what was cut off the waits put in since then
  stale,     \* history: one of those was put in between two utterances
  told       \* history: what was still to be heard before the marks the last
             \* step reported

historyVars == <<short, cut, stale>>
soundVars == <<marks, handing, historyVars>>
indexVars == <<soundVars, interrupt, told>>
allVars == <<streamVars, generatorVars, indexVars>>

(* By rights is in seconds' parts of a sample: a moment is Rate of them    *)
(* and a sample is Second.                                                 *)
Samples(moments) == (moments * Rate) \div Second
Rest(moments) == (moments * Rate) % Second

MarksTypeOK ==
  /\ TypeOK /\ GeneratorTypeOK
  /\ marks \in Seq([lead : Nat, place : Int]) /\ Len(marks) <= MaxMarks
  /\ handing \in Nat
  /\ interrupt \in BOOLEAN /\ stale \in BOOLEAN
  /\ {short, cut} \subseteq Nat
  /\ told \subseteq Int

IndexInit ==
  /\ marks = <<>>
  /\ handing = 0
  /\ interrupt = FALSE /\ stale = FALSE
  /\ short = 0 /\ cut = 0
  /\ told = {}

-----------------------------------------------------------------------------
(* The further of two totals; and a slip that keeps the second.            *)
FurtherIsSecond(a, b) == b
Further(a, b) == IF a > b THEN a ELSE b

(* The counts begin anew when nothing waits.                               *)
Since(count) == IF marks = <<>> THEN 0 ELSE count

NoneWait ==
  /\ marks' = <<>>
  /\ short' = 0 /\ cut' = 0 /\ stale' = FALSE

(* insertDelayedSynthIndex, where the rules come to a mark: the three      *)
(* totals are brought forward, and if they do not agree the mark waits.    *)
InsertMark ==
  LET m == Further(marked, end)
      q == Further(limit, m)
      ahead == IF playing THEN limit - end ELSE 0
  IN  /\ phase = "rules" /\ ~interrupt
      /\ limit' = q
      /\ IF m = q /\ m = end
           THEN /\ marked' = m
                /\ told' = {ahead * Rate}
                /\ UNCHANGED soundVars
           ELSE /\ Len(marks) < MaxMarks /\ short <= MaxShort
                /\ marked' = q
                /\ marks' = Append(marks, [lead |-> Samples(q - m),
                                           place |-> ahead * Rate])
                /\ short' = Since(short)
                /\ cut' = Since(cut) + Rest(q - m)
                /\ stale' = ((marks # <<>> /\ stale) \/ ~playing)
                /\ told' = {}
                /\ UNCHANGED handing
      /\ UNCHANGED <<streamVars, end, walkVars, callVars, frame, line,
                     interrupt>>

(* flushDelayedSynthQueue, once everything has been said.                  *)
Flush ==
  /\ phase = "rules" /\ ~interrupt /\ said
  /\ marks # <<>>
  /\ NoneWait
  /\ told' = {}
  /\ UNCHANGED <<streamVars, generatorVars, handing, interrupt>>

-----------------------------------------------------------------------------
(* ourKlattCallback, once round its loop; and a slip that hands over the   *)
(* whole frame whatever waits in it.                                       *)
PieceWhole == handing
Piece == IF marks = <<>> \/ Head(marks).lead > handing THEN handing
                                                       ELSE Head(marks).lead

(* iq_reduceLeadTime                                                       *)
Reduced(piece) ==
  [i \in DOMAIN marks |->
     [lead |-> IF i = 1 THEN marks[i].lead - piece ELSE marks[i].lead,
      place |-> marks[i].place - piece * Second]]

(* The marks at the head that wait for nothing more.                       *)
DueOf(row) ==
  {i \in DOMAIN row : \A j \in 1..i : row[j].lead = 0}

HandPiece ==
  LET row == Reduced(Piece)
      n == Cardinality(DueOf(row))
      rest == SubSeq(row, n + 1, Len(row))
  IN  /\ handing > 0
      /\ handing' = handing - Piece
      /\ marks' = rest
      /\ told' = {row[i].place : i \in 1..n}
      /\ UNCHANGED <<streamVars, generatorVars, interrupt, historyVars>>

-----------------------------------------------------------------------------
(* The frames, and the sound they make.                                    *)

SendFrame ==
  /\ ~interrupt
  /\ MakeFrame
  /\ handing' = Samples(frame'.length)
  /\ told' = {}
  /\ UNCHANGED <<marks, interrupt, historyVars>>

FrameMade ==
  LET asked == Covered * Rate
      made == Samples(frame.length) * Second
  IN  /\ handing = 0
      /\ NextFrame
      /\ short' = Since(short + (Further(asked, made) - made))
      /\ cut' = Since(cut)
      /\ stale' = (marks # <<>> /\ stale)
      /\ told' = {}
      /\ UNCHANGED <<marks, handing, interrupt>>

(* The interrupt is looked for between frames: what was fetched for one    *)
(* that is not made goes with the restart.                                 *)
WindowEnds ==
  /\ at >= end \/ interrupt
  /\ EndWindow
  /\ told' = {}
  /\ UNCHANGED <<soundVars, interrupt>>

Rules(action) ==
  /\ ~interrupt
  /\ action
  /\ told' = {}
  /\ UNCHANGED <<soundVars, interrupt>>

(* stopSynthesizing from another thread, with a call in progress.          *)
Interrupt ==
  /\ phase # "rules" /\ ~interrupt
  /\ interrupt' = TRUE
  /\ told' = {}
  /\ UNCHANGED <<streamVars, generatorVars, soundVars>>

(* es_engsynRestart, when the rules have been left: what they had written  *)
(* is cleared by whatever is said next.  The totals stay.                  *)
Restart ==
  /\ phase = "rules"
  /\ NoneWait
  /\ playing' = FALSE
  /\ said' = TRUE
  /\ interrupt' = FALSE
  /\ Forgotten
  /\ told' = {}
  /\ UNCHANGED <<streamVars, totals, at, phase, call, frame, line, handing>>

-----------------------------------------------------------------------------
MarksInit == Init /\ GeneratorInit /\ IndexInit

MarksNext ==
  \/ \E gap \in Gaps, value \in Values : Rules(WritePoint(gap, value))
  \/ Rules(StartOver)
  \/ \E to \in Asks, last, changed \in BOOLEAN :
       Rules(Synthesize(to, last, changed))
  \/ InsertMark
  \/ Flush
  \/ Rules(Walk)
  \/ SendFrame
  \/ HandPiece
  \/ FrameMade
  \/ WindowEnds
  \/ Interrupt
  \/ Restart

MarksSpec == MarksInit /\ [][MarksNext]_allVars

-----------------------------------------------------------------------------
(* A mark is reported where the sound that was asked for and not made when *)
(* it was put in has been heard, however the windows and the pieces are    *)
(* cut: no earlier than by what was cut off the waits, and no later than   *)
(* by what the frames fell short, since the queue was last empty.  After a *)
(* stop the totals still hold the speech that was dropped: a mark put in   *)
(* before the next one begins waits for that, and those behind it with it. *)
MarkKeepsItsPlace ==
  stale \/ \A place \in told : -short <= place /\ place <= cut
=============================================================================
