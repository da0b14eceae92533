--------------------------- MODULE ArrayGenerator ---------------------------
(***************************************************************************)
(* Turning a stream of points into frames for the synthesizer              *)
(* (src/src/eci_arraygen.c, called by synthesize in src/src/klatt_run.c).  *)
(*                                                                         *)
(* The rules write points and, now and then, ask for sound up to some      *)
(* moment.  The generator cuts what they ask for to what the stream is     *)
(* known to, on a whole step, and walks it a step at a time with a cursor  *)
(* between two points, the same one from window to window; the rest is     *)
(* made when they ask again, or asked for the last time.  One stream       *)
(* stands for the one of those feeding the frame that goes least far.      *)
(*                                                                         *)
(* `Lazy writing' is on, as the rules of every language have it.           *)
(***************************************************************************)
EXTENDS Stream

CONSTANT Step       \* a7: how much sound a frame makes

ASSUME StepAssumption == Step \in Nat \ {0}

VARIABLES
  playing,  \* SD_PLAYING: between the first call of an utterance and its last
  reached,  \* GEN_AT: where the next window goes on
  marked,   \* GEN_STARTED: how far the marks have been accounted for
  limit,    \* GEN_LIMIT: how far sound has been asked for
  end,      \* GEN_END and vs->to: how far the window goes
  phase,    \* where a call of synthesize is, "rules" if there is none
  call,     \* its arguments, while there is one
  at,       \* the moment its window has come to
  cursor,   \* the two points it is between
  said,     \* the rules have asked for the last time since they cleared
  frame,    \* the frame the synthesizer is making into sound: its moment,
            \* its value and its length
  line      \* history: the points since the last clear, at the moments they
            \* come back at, but for those too far back to matter

totals == <<marked, limit, end>>
walkVars == <<reached, at, cursor>>
callVars == <<playing, phase, call, said>>
streamVars == <<ring, written, read, got, points, skipped, due>>
generatorVars == <<totals, walkVars, callVars, frame, line>>

NoCall == [from |-> 0, to |-> 0, last |-> FALSE]
NoFrame == [at |-> -1, value |-> 0, length |-> 0]

(* at_r is -1 while a cursor is unstarted.                                 *)
Unstarted == [l |-> 0, vl |-> 0, r |-> -1, vr |-> 0]
Calls == [from : Moments, to : Moments, last : BOOLEAN]
Cursors == [l : Moments, vl : ShortInts, r : Moments \cup {-1}, vr : ShortInts]

GeneratorTypeOK ==
  /\ playing \in BOOLEAN /\ said \in BOOLEAN
  /\ {reached, marked, limit, end, at} \subseteq Moments
  /\ phase \in {"rules", "again", "speak"}
  /\ call \in Calls
  /\ cursor \in Cursors
  /\ frame \in [at : Moments \cup {-1}, value : ShortInts, length : Nat]
  /\ line \in Seq([moment : Moments, value : ShortInts])

GeneratorInit ==
  /\ playing = FALSE /\ said = FALSE
  /\ reached = 0 /\ marked = 0 /\ limit = 0 /\ end = 0
  /\ phase = "rules" /\ call = NoCall
  /\ at = 0 /\ cursor = Unstarted
  /\ frame = NoFrame /\ line = <<>>

-----------------------------------------------------------------------------
(* What the rules do between two calls.                                    *)

WritePoint(gap, value) ==
  /\ phase = "rules" /\ ~said
  /\ AppendValue(gap, value)
  /\ line' = IF points' = points THEN line
             ELSE Append(line, [moment |-> written' - skipped, value |-> value])
  /\ UNCHANGED <<totals, walkVars, callVars, frame>>

(* Every utterance begins with its streams cleared.                        *)
StartOver ==
  /\ phase = "rules" /\ ~playing
  /\ Clear
  /\ said' = FALSE
  /\ line' = <<>>
  /\ UNCHANGED <<totals, walkVars, playing, phase, call, frame>>

-----------------------------------------------------------------------------
(* A window: sendArrayParameters up to its loop.                           *)

(* definitionBoundary, and the cut to a whole step; and two slips, one     *)
(* that takes the rules at their word and one that leaves the rest in.     *)
BoundaryAsAsked(from, to) == to - ((to - from) % Step)
Boundary(from, to) ==
  LET known == IF written < to THEN written ELSE to
      there == IF known < from THEN from ELSE known
  IN  there - ((there - from) % Step)

(* Carrying on, the window begins where the last one left off, whatever    *)
(* from says, and the cursor is the last one's.                            *)
Window(from, to, continuing, exact) ==
  LET start == IF continuing THEN from ELSE reached
      stop == IF exact THEN to ELSE Boundary(start, to)
  IN  /\ marked' = IF from = 0 THEN 0 ELSE marked
      /\ limit' = to
      /\ end' = stop
      /\ reached' = stop
      /\ at' = start
      /\ cursor' = IF continuing THEN Unstarted ELSE cursor

(* synthesize, on an array.  A frame that has changed under the sound is   *)
(* preceded by an exact window up to where the new one begins.  The rules  *)
(* ask for one stretch after another, change the frame only where they     *)
(* have written all that comes before, and leave something for the last    *)
(* call, which else returns before it has done anything.                   *)
From == IF playing THEN limit ELSE 0

Synthesize(to, last, changed) ==
  /\ phase = "rules" /\ ~said
  /\ to >= From /\ (last => to > From)
  /\ changed => playing /\ From <= written
  /\ call' = [from |-> From, to |-> to, last |-> last]
  /\ playing' = TRUE
  /\ said' = last
  /\ IF changed
       THEN /\ phase' = "again"
            /\ Window(From, From, FALSE, TRUE)
       ELSE /\ phase' = "speak"
            /\ Window(From, to, ~playing, last)
  /\ UNCHANGED <<streamVars, frame, line>>

-----------------------------------------------------------------------------
(* A step of the window.                                                   *)

InWindow == phase # "rules" /\ at < end

(* valueSetValue, once round its loop: what was the right point becomes    *)
(* the left one.  A stream that has run out holds its last value, or       *)
(* nought, to the end of the window.                                       *)
Stepped(point) ==
  LET there == point # Nothing
      r == IF there THEN point.moment ELSE end
  IN  IF cursor.r = -1
      THEN LET v == IF there THEN point.value ELSE 0
           IN  [l |-> 0, vl |-> v, r |-> r, vr |-> v]
      ELSE [l |-> cursor.r, vl |-> cursor.vr, r |-> r,
            vr |-> IF there THEN point.value ELSE cursor.vr]

Walk ==
  /\ InWindow
  /\ at > cursor.r
  /\ FetchNext
  /\ cursor' = Stepped(got')
  /\ UNCHANGED <<totals, reached, at, callVars, frame, line>>

(* Division that drops the fraction, whichever side of nought.             *)
Quotient(a, b) == IF a >= 0 THEN a \div b ELSE -((-a) \div b)

Between(l, vl, r, vr, moment) ==
  IF vr = vl \/ r = l THEN vl
  ELSE vl + Quotient((moment - l) * (vr - vl), r - l)

(* How much of a window a frame covers; and how long it is, for the last   *)
(* one is as long as a whole one would have gone over.                     *)
Covered == IF at + Step > end THEN end - at ELSE Step
Length == IF at + Step > end THEN at + Step - end ELSE Step

(* The points a later moment may still need.                               *)
Needed(l, moment) ==
  LET past == {i \in 1..Len(l) : l[i].moment < moment}
  IN  IF past = {} THEN l
      ELSE SubSeq(l, CHOOSE i \in past : \A j \in past : j <= i, Len(l))

MakeFrame ==
  /\ InWindow
  /\ at <= cursor.r /\ frame = NoFrame
  /\ frame' = [at |-> at,
               value |-> Between(cursor.l, cursor.vl, cursor.r, cursor.vr, at),
               length |-> Length]
  /\ line' = Needed(line, at)
  /\ got' = Nothing /\ due' = Nothing
  /\ UNCHANGED <<ring, written, read, points, skipped, totals, walkVars,
                 callVars>>

(* The synthesizer has made the sound.                                     *)
NextFrame ==
  /\ frame # NoFrame
  /\ at' = at + Step
  /\ frame' = NoFrame
  /\ UNCHANGED <<streamVars, totals, reached, cursor, callVars, line>>

(* Where the last window got to is not looked at again once an utterance   *)
(* is over.                                                                *)
Forgotten == reached' = 0 /\ cursor' = Unstarted

(* The window has run out, or is interrupted: the one asked for follows    *)
(* the one that caught up, and behind it synthesize returns.               *)
EndWindow ==
  /\ phase # "rules" /\ frame = NoFrame
  /\ IF phase = "again"
       THEN /\ phase' = "speak"
            /\ Window(call.from, call.to, FALSE, call.last)
            /\ UNCHANGED <<playing, call>>
       ELSE /\ phase' = "rules"
            /\ playing' = ~call.last
            /\ call' = NoCall /\ at' = 0
            /\ IF call.last THEN Forgotten ELSE UNCHANGED <<reached, cursor>>
            /\ UNCHANGED totals
  /\ UNCHANGED <<streamVars, said, frame, line>>

-----------------------------------------------------------------------------
(* The straight line through the points, as eci_arraygen.c's head says it: *)
(* the first value up to the first point, the last one behind the last.    *)
OnTheLine(moment) ==
  LET right == {i \in 1..Len(line) : line[i].moment >= moment}
      i == CHOOSE k \in right : \A j \in right : k <= j
  IN  IF line = <<>> THEN 0
      ELSE IF right = {} THEN line[Len(line)].value
      ELSE IF i = 1 THEN line[1].value
      ELSE Between(line[i-1].moment, line[i-1].value,
                   line[i].moment, line[i].value, moment)

(* However the windows are cut, and whatever the rules had written when    *)
(* each was, a frame has the value of the line at its moment: the cursor   *)
(* is never run into a gap whose other end is not there yet.  A point that *)
(* found no room moves all that follow, so nothing is said once there is   *)
(* one.                                                                    *)
FrameIsOnTheLine ==
  frame # NoFrame /\ skipped = 0 => frame.value = OnTheLine(frame.at)
=============================================================================
