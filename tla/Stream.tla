------------------------------- MODULE Stream -------------------------------
(***************************************************************************)
(* One of the streams a language's rules write the synthesizer's           *)
(* parameters into (src/src/eci_stmarray.c over src/src/eci_tvqueue.c).    *)
(*                                                                         *)
(* The rules append points, each a value at a moment; the array generator  *)
(* fetches them in order; a reset starts the next utterance.  A point goes *)
(* into the ring as the gap from the last one, in half the width of a      *)
(* moment.  A gap that does not fit goes in as an escape, with the moment  *)
(* itself split across a second pair.                                      *)
(*                                                                         *)
(* Word is how many numbers the fields of a pair have, 2^16 in the code: a *)
(* moment has the square of that.                                          *)
(***************************************************************************)
EXTENDS Integers, Sequences, Ring

CONSTANTS
  Word,      \* 2^16
  Want,      \* QUEUE_ROOM, the room a stream starts with
  Gaps,      \* how far apart the rules put points
  Values,    \* the values they put there
  MaxMoment, \* bound: the last moment of an utterance
  MaxRoom    \* bound: the memory there is for a ring

ASSUME WordAssumption ==
  /\ Word \in Nat
  /\ \E half \in 1..Word : Word = 2 * half
ASSUME WantAssumption == Want \in Nat \ {0}
ASSUME GapAssumption == Gaps \subseteq Nat
ASSUME MomentAssumption == MaxMoment \in Nat /\ MaxMoment < Word * Word
ASSUME RoomAssumption == MaxRoom \in Nat /\ MaxRoom < Word

Signed(n) == IF n >= Word \div 2 THEN n - Word ELSE n
ShortInts == -(Word \div 2)..(Word \div 2 - 1)
Pairs == [time : ShortInts, value : ShortInts]

ASSUME ValueAssumption == Values \subseteq ShortInts
ASSUME JunkAssumption == Junk \notin Pairs

ESCAPE == Word - 1
Nothing == [moment |-> -1, value |-> 0]

VARIABLES
  ring,     \* s->queue
  written,  \* s->written, the last moment written
  read,     \* s->read, the last moment read back
  got,      \* what the last call, if it was a fetch, came back with
  points,   \* history: the points taken and not fetched, oldest first
  skipped,  \* history: how much of the time since the last reset went by in
            \* gaps to points that were refused
  due       \* history: the point that last fetch should have come back with

vars == <<ring, written, read, got, points, skipped, due>>

Moments == 0..(Word * Word - 1)
Answers == {Nothing} \cup [moment : Moments, value : ShortInts]
Points == [moment : Moments, value : Values, skipped : Moments]

TypeOK ==
  /\ ring.there => InOrder(ring, Pairs)
  /\ written \in Moments
  /\ read \in Moments
  /\ got \in Answers
  /\ points \in Seq(Points)
  /\ skipped \in Moments
  /\ due \in Points \cup {Nothing}

(* sal_build: a ring may find no memory.  The rules reset every stream     *)
(* before the first point, which is where written and read start.          *)
Init ==
  /\ ring \in {Fresh(Want), NoArray}
  /\ written = 0
  /\ read = 0
  /\ got = Nothing
  /\ points = <<>>
  /\ skipped = 0
  /\ due = Nothing

-----------------------------------------------------------------------------
(* Whether there is memory to double a ring.                               *)
MayDouble(q) == IF 2 * q.room <= MaxRoom THEN BOOLEAN ELSE {FALSE}

(* tvq_push of one pair: r is what it leaves, ok what it answers.          *)
Pushes(q, p, r, ok) ==
  \E memory \in MayDouble(q) : r = Push(q, p, memory) /\ ok = Takes(q, memory)

(* What tvq_pop leaves.                                                    *)
Pop(q) == Shrunk(Popped(q), Want)

Near(gap, value) == [time |-> Signed(gap), value |-> value]
Far(moment) ==
  [time |-> Signed(moment \div Word), value |-> Signed(moment % Word)]

(* The pairs a point goes in as.                                           *)
Encoded(moment, value) ==
  LET gap == moment - written IN
  IF gap < ESCAPE THEN <<Near(gap, value)>>
                  ELSE <<Near(ESCAPE, value), Far(moment)>>

(* The rings pushing a row of one or two pairs can leave, the second only  *)
(* if the first was taken.                                                 *)
PushAll(row, r, ok) ==
  \E memory \in MayDouble(ring) :
    LET q == Push(ring, row[1], memory) IN
    IF Takes(ring, memory) /\ Len(row) = 2
      THEN Pushes(q, row[2], r, ok)
      ELSE r = q /\ ok = Takes(ring, memory)

(* sa_appendValue.  The last moment written moves on whether or not there  *)
(* was room for the point.                                                 *)
AppendValue(gap, value) ==
  LET moment == written + gap IN
  /\ moment <= MaxMoment
  /\ \E ok \in BOOLEAN :
       /\ PushAll(Encoded(moment, value), ring', ok)
       /\ IF ok
            THEN /\ points' = Append(points, [moment |-> moment, value |-> value,
                                              skipped |-> skipped])
                 /\ UNCHANGED skipped
            ELSE /\ skipped' = skipped + gap
                 /\ UNCHANGED points
  /\ written' = moment
  /\ got' = Nothing
  /\ due' = Nothing
  /\ UNCHANGED read

(* sa_fetchNext.  The time of a pair is signed when it is compared with    *)
(* the escape, and when it is added to the last moment read.               *)
FetchOne(p) ==
  LET moment == (p.time + read) % (Word * Word) IN
  /\ ring' = Pop(ring)
  /\ got' = [moment |-> moment, value |-> p.value]
  /\ read' = moment

FetchEscaped(p) ==
  LET rest == Pop(ring)
      q == Oldest(rest)
      moment == ((q.time % Word) * Word) + (q.value % Word)
  IN
  IF IsEmpty(rest)
    THEN /\ ring' = rest
         /\ got' = Nothing
         /\ UNCHANGED read
    ELSE /\ ring' = Pop(rest)
         /\ got' = [moment |-> moment, value |-> p.value]
         /\ read' = moment

FetchNext ==
  /\ IF IsEmpty(ring)
       THEN got' = Nothing /\ UNCHANGED <<ring, read>>
       ELSE IF Oldest(ring).time = ESCAPE THEN FetchEscaped(Oldest(ring))
                                          ELSE FetchOne(Oldest(ring))
  /\ IF points = <<>>
       THEN due' = Nothing /\ UNCHANGED points
       ELSE due' = Head(points) /\ points' = Tail(points)
  /\ UNCHANGED <<written, skipped>>

(* sal_clear.  What was in the ring is gone whether or not there is memory *)
(* for another one.                                                        *)
Clear ==
  /\ ring' \in {Fresh(Want), NoneOf(ring)}
  /\ written' = 0
  /\ read' = 0
  /\ got' = Nothing
  /\ points' = <<>>
  /\ skipped' = 0
  /\ due' = Nothing

Next ==
  \/ \E gap \in Gaps, value \in Values : AppendValue(gap, value)
  \/ FetchNext
  \/ Clear

Spec == Init /\ [][Next]_vars

-----------------------------------------------------------------------------
(* What the array generator fetches is what the rules put there: every     *)
(* point that was taken, in order, with its value, whatever the ring did   *)
(* under it.  A point that found no room is the writer's to know of, but   *)
(* the points after it come back early, by the gap it was to have spanned: *)
(* the clock the gaps are counted from moved on without it.                *)
PointsComeBack ==
  /\ got = Nothing <=> due = Nothing
  /\ due # Nothing => /\ got.value = due.value
                      /\ got.moment = due.moment - due.skipped

(* The ring is never smaller than it was asked for, however often it grew  *)
(* and shrank, and holds one pair for every point not yet fetched: it is   *)
(* empty only when nothing is owed, and never because it filled up.        *)
RingHoldsWhatIsOwed ==
  ring.there => ring.room >= Want /\ Size(ring) = Len(points)

(* The head of eci_stmarray.c: `A gap that still will not fit is written   *)
(* as all-ones followed by the whole moment split across the next pair,    *)
(* and reading knows to put it back together.'  So a point taken while     *)
(* nothing has been refused comes back as it went in.                      *)
ReadingPutsItBackTogether ==
  due # Nothing /\ due.skipped = 0 =>
    /\ got # Nothing
    /\ got.moment = due.moment
    /\ got.value = due.value
=============================================================================
