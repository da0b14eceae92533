---------------------------- MODULE StreamProofs ----------------------------
(***************************************************************************)
(* Theorems about Ring, for any ring in order, and about Stream, for any   *)
(* width of word, room, values and memory, where no two points are half a  *)
(* word or more apart.                                                     *)
(***************************************************************************)
EXTENDS Stream, TLAPS

-----------------------------------------------------------------------------
(* A ring is first in, first out, whatever its room and wherever its ends  *)
(* are: what the models of the queues that stand on it take for granted.   *)

(* The cells in use are in the array.                                      *)
LEMMA SizeFits == ASSUME NEW V, NEW q, InOrder(q, V)
                  PROVE  Size(q) \in Nat /\ Size(q) \in 0..(q.room - 1)
  BY DEF InOrder, Size

(* Its ends are numbers below its room.                                    *)
LEMMA Ends == ASSUME NEW V, NEW q, InOrder(q, V)
              PROVE  /\ q.room \in Nat /\ q.room > 0
                     /\ q.head \in Nat /\ q.head < q.room
                     /\ q.tail \in Nat /\ q.tail < q.room
  BY DEF InOrder

(* Writing at the tail disturbs nothing that is in the ring.               *)
LEMMA WrittenCells ==
  ASSUME NEW V, NEW q, NEW p \in V, InOrder(q, V)
  PROVE  /\ InOrder(Written(q, p), V)
         /\ Written(q, p).room = q.room
         /\ Written(q, p).head = q.head
         /\ Written(q, p).tail = After(q, q.tail)
         /\ \A i \in 0..(Size(q) - 1) : Cell(Written(q, p), i) = Cell(q, i)
         /\ Cell(Written(q, p), Size(q)) = p
<1> DEFINE w == Written(q, p)
<1>1. /\ w.there = TRUE
      /\ w.room = q.room
      /\ w.head = q.head
      /\ w.tail = After(q, q.tail)
      /\ w.buf = [q.buf EXCEPT ![q.tail] = p]
  BY DEF RingOf, Written
<1>2. After(q, q.tail) \in 0..(q.room - 1)
  BY DEF InOrder, After
<1>3. InOrder(w, V)
  BY <1>1, <1>2 DEF InOrder
<1>4. \A j \in 0..(q.room - 1) : w.buf[j] = IF j = q.tail THEN p ELSE q.buf[j]
  BY <1>1 DEF InOrder
<1>5. \A i \in 0..(Size(q) - 1) : Cell(w, i) = Cell(q, i)
  BY <1>1, <1>4 DEF InOrder, Size, Cell
<1>6. Cell(w, Size(q)) = p
  BY <1>1, <1>4 DEF InOrder, Size, Cell
<1> QED BY <1>1, <1>3, <1>5, <1>6

(* Straightening out keeps the order of the n first cells.                 *)
LEMMA StraightCells ==
  ASSUME NEW V, NEW q, InOrder(q, V), NEW r \in Nat \ {0}, NEW n \in 0..(r - 1),
         n <= q.room
  PROVE  LET s == Straight(q, n, r) IN
         /\ InOrder(s, V)
         /\ s.room = r
         /\ Size(s) = n
         /\ \A i \in 0..(n - 1) : Cell(s, i) = Cell(q, i)
<1> DEFINE s == Straight(q, n, r)
<1>1. /\ s.there = TRUE
      /\ s.room = r
      /\ s.head = 0
      /\ s.tail = n
      /\ s.buf = [i \in 0..(r - 1) |-> IF i < n THEN Cell(q, i) ELSE Junk]
  BY DEF RingOf, Straight
<1>2. \A i \in 0..(q.room - 1) : Cell(q, i) \in V \cup {Junk}
  BY DEF InOrder, Cell
<1>3. s.buf \in [0..(r - 1) -> V \cup {Junk}]
  BY <1>1, <1>2 DEF InOrder
<1>4. InOrder(s, V)
  BY <1>1, <1>3 DEF InOrder
<1>5. Size(s) = n
  BY <1>1 DEF Size
<1>6. \A i \in 0..(n - 1) : Cell(s, i) = s.buf[i]
  BY <1>1 DEF Cell
<1>7. ASSUME NEW i \in 0..(n - 1) PROVE Cell(s, i) = Cell(q, i)
  <2>1. i \in 0..(r - 1) /\ i < n
    OBVIOUS
  <2>2. s.buf[i] = Cell(q, i)
    BY <1>1, <2>1
  <2> QED BY <1>6, <2>2
<1> QED BY <1>1, <1>4, <1>5, <1>7

(* What a push leaves in the cells.                                        *)
LEMMA PushCells ==
  ASSUME NEW V, NEW q, NEW p \in V, NEW memory \in BOOLEAN, InOrder(q, V)
  PROVE  LET r == Push(q, p, memory) IN
         /\ InOrder(r, V)
         /\ q.room <= r.room
         /\ \A i \in 0..(Size(q) - 1) : Cell(r, i) = Cell(q, i)
         /\ IF Takes(q, memory)
              THEN Size(r) = Size(q) + 1 /\ Cell(r, Size(q)) = p
              ELSE Size(r) = Size(q)
<1> DEFINE w == Written(q, p)
           r == Push(q, p, memory)
<1>1. /\ InOrder(w, V)
      /\ w.room = q.room
      /\ w.head = q.head
      /\ w.tail = After(q, q.tail)
      /\ \A i \in 0..(Size(q) - 1) : Cell(w, i) = Cell(q, i)
      /\ Cell(w, Size(q)) = p
  BY WrittenCells
<1>2. q.there = TRUE
  BY DEF InOrder
<1>3. Size(q) \in 0..(q.room - 1)
  BY SizeFits
<1>4. CASE w.tail # w.head
  <2>1. r = w /\ Takes(q, memory)
    BY <1>1, <1>2, <1>4 DEF Push, Takes
  <2>2. Size(w) = Size(q) + 1
    <3>1. After(q, q.tail) # q.head
      BY <1>1, <1>4
    <3> QED BY <1>1, <3>1, Ends DEF Size, After
  <2> QED BY <1>1, <2>1, <2>2 DEF InOrder
<1>5. CASE w.tail = w.head
  <2>1. Size(q) = q.room - 1
    <3>1. After(q, q.tail) = q.head
      BY <1>1, <1>5
    <3> QED BY <3>1, Ends DEF Size, After
  <2>2. CASE memory
    <3>1. r = Doubled(w) /\ Takes(q, memory)
      BY <1>1, <1>2, <1>5, <2>2 DEF Push, Takes
    <3>2. q.room \in Nat \ {0}
      BY DEF InOrder
    <3>3. /\ InOrder(r, V)
          /\ r.room = 2 * q.room
          /\ Size(r) = q.room
          /\ \A i \in 0..(q.room - 1) : Cell(r, i) = Cell(w, i)
      BY <1>1, <3>1, <3>2, StraightCells DEF Doubled
    <3> QED BY <1>1, <1>3, <2>1, <3>1, <3>2, <3>3
  <2>3. CASE ~memory
    <3>1. /\ r = RingOf(w.buf, w.room, w.head, Before(w, w.tail))
          /\ ~Takes(q, memory)
      BY <1>1, <1>2, <1>5, <2>3 DEF Push, Takes
    <3>2. Before(w, w.tail) = q.tail
      BY <1>1 DEF InOrder, Before, After
    <3>3. /\ r.there = TRUE
          /\ r.room = q.room
          /\ r.head = q.head
          /\ r.tail = q.tail
          /\ r.buf = w.buf
      BY <1>1, <3>1, <3>2 DEF RingOf
    <3>4. InOrder(r, V)
      BY <1>1, <3>3 DEF InOrder
    <3>5. Size(r) = Size(q)
      BY <3>3 DEF Size
    <3>6. \A i : Cell(r, i) = Cell(w, i)
      BY <1>1, <3>3 DEF Cell
    <3> QED BY <1>1, <3>1, <3>3, <3>4, <3>5, <3>6 DEF InOrder
  <2> QED BY <2>2, <2>3
<1> QED BY <1>4, <1>5

(* And a pop.                                                              *)
LEMMA PopCells ==
  ASSUME NEW V, NEW q, InOrder(q, V), ~IsEmpty(q)
  PROVE  LET r == Popped(q) IN
         /\ InOrder(r, V)
         /\ r.room = q.room
         /\ Size(q) \in Nat \ {0}
         /\ Size(r) = Size(q) - 1
         /\ Oldest(q) = Cell(q, 0)
         /\ \A i \in 0..(Size(q) - 2) : Cell(r, i) = Cell(q, i + 1)
<1> DEFINE r == Popped(q)
<1>1. /\ r.there = TRUE
      /\ r.room = q.room
      /\ r.head = After(q, q.head)
      /\ r.tail = q.tail
      /\ r.buf = q.buf
  BY DEF RingOf, Popped
<1>2. q.head # q.tail
  BY DEF InOrder, IsEmpty
<1>3. InOrder(r, V)
  BY <1>1 DEF InOrder, After
<1>4. Size(q) \in Nat \ {0} /\ Size(r) = Size(q) - 1
  BY <1>1, <1>2, Ends DEF After, Size
<1>5. Oldest(q) = Cell(q, 0)
  BY DEF InOrder, Oldest, Cell
<1>6. ASSUME NEW i \in 0..(Size(q) - 2) PROVE Cell(r, i) = Cell(q, i + 1)
  <2>1. q.head + i + 1 < 2 * q.room
    BY <1>4, SizeFits, Ends
  <2>2. CASE q.head + 1 = q.room
    <3>1. r.head = 0
      BY <1>1, <2>2 DEF After
    <3>2. i < q.room /\ i \in Nat
      BY <1>4, SizeFits, Ends
    <3> QED BY <1>1, <2>2, <3>1, <3>2, Ends DEF Cell
  <2>3. CASE q.head + 1 # q.room
    <3>1. r.head = q.head + 1
      BY <1>1, <2>3 DEF After
    <3> QED BY <1>1, <3>1, Ends DEF Cell
  <2> QED BY <2>2, <2>3
<1> QED BY <1>1, <1>3, <1>4, <1>5, <1>6

(* Shrinking leaves what is in the ring alone, and never takes it below    *)
(* what was asked for if it came there by doubling.                        *)
LEMMA ShrunkCells ==
  ASSUME NEW V, NEW q, InOrder(q, V), NEW want
  PROVE  LET r == Shrunk(q, want) IN
         /\ InOrder(r, V)
         /\ Size(r) = Size(q)
         /\ \A i \in 0..(Size(q) - 1) : Cell(r, i) = Cell(q, i)
<1> DEFINE r == Shrunk(q, want)
           half == q.room \div 2
<1>1. CASE r = q
  BY <1>1
<1>2. CASE r # q
  <2>1. /\ r = Straight(q, Size(q), half)
        /\ Size(q) < half
    BY <1>2 DEF Shrunk
  <2>2. Size(q) \in 0..(q.room - 1)
    BY SizeFits
  <2>3. half \in Nat \ {0} /\ Size(q) \in 0..(half - 1) /\ Size(q) <= q.room
    BY <2>1, <2>2 DEF InOrder
  <2> QED BY <2>1, <2>3, StraightCells
<1> QED BY <1>1, <1>2

-----------------------------------------------------------------------------
(* A push that is taken goes on the end of what is in the ring, and one    *)
(* that is refused leaves what is in it alone (eq_push, tvq_push).         *)
THEOREM PushAppends ==
  ASSUME NEW V, NEW q, NEW p \in V, NEW memory \in BOOLEAN, InOrder(q, V)
  PROVE  /\ InOrder(Push(q, p, memory), V)
         /\ Contents(Push(q, p, memory)) =
              IF Takes(q, memory) THEN Append(Contents(q), p) ELSE Contents(q)
<1> DEFINE r == Push(q, p, memory)
           n == Size(q)
<1>1. /\ InOrder(r, V)
      /\ \A i \in 0..(n - 1) : Cell(r, i) = Cell(q, i)
      /\ IF Takes(q, memory)
           THEN Size(r) = n + 1 /\ Cell(r, n) = p
           ELSE Size(r) = n
  BY PushCells
<1>2. n \in Nat
  BY SizeFits
<1>3. /\ Contents(q) = [i \in 1..n |-> Cell(q, i - 1)]
      /\ Contents(r) = [i \in 1..Size(r) |-> Cell(r, i - 1)]
  BY <1>1 DEF InOrder, Contents
<1>4. \A i \in 1..n : Cell(r, i - 1) = Cell(q, i - 1)
  BY <1>1, <1>2
<1>5. CASE Takes(q, memory)
  <2>1. Len(Contents(q)) = n
    BY <1>2, <1>3
  <2>2. Append(Contents(q), p) =
          [i \in 1..(n + 1) |-> IF i <= n THEN Cell(q, i - 1) ELSE p]
    BY <1>2, <1>3, <2>1
  <2>3. Contents(r) = [i \in 1..(n + 1) |-> Cell(r, i - 1)]
    BY <1>1, <1>3, <1>5
  <2>4. \A i \in 1..(n + 1) :
          Cell(r, i - 1) = IF i <= n THEN Cell(q, i - 1) ELSE p
    BY <1>1, <1>2, <1>4, <1>5
  <2> QED BY <1>1, <1>5, <2>2, <2>3, <2>4
<1>6. CASE ~Takes(q, memory)
  BY <1>1, <1>3, <1>4, <1>6
<1> QED BY <1>5, <1>6

(* A pop hands out the oldest thing in the ring and leaves the rest, with  *)
(* or without the shrinking that follows it in a ring of times and values  *)
(* (eq_pop, tvq_pop).                                                      *)
THEOREM PopTakesOldest ==
  ASSUME NEW V, NEW q, InOrder(q, V), ~IsEmpty(q), NEW want
  PROVE  /\ Contents(q) # <<>>
         /\ Oldest(q) = Head(Contents(q))
         /\ Contents(Popped(q)) = Tail(Contents(q))
         /\ Contents(Shrunk(Popped(q), want)) = Tail(Contents(q))
<1> DEFINE r == Popped(q)
           s == Shrunk(r, want)
           n == Size(q)
<1>1. /\ InOrder(r, V)
      /\ n \in Nat \ {0}
      /\ Size(r) = n - 1
      /\ Oldest(q) = Cell(q, 0)
      /\ \A i \in 0..(n - 2) : Cell(r, i) = Cell(q, i + 1)
  BY PopCells
<1>2. /\ InOrder(s, V)
      /\ Size(s) = n - 1
      /\ \A i \in 0..(n - 2) : Cell(s, i) = Cell(r, i)
  BY <1>1, ShrunkCells
<1>3. /\ Contents(q) = [i \in 1..n |-> Cell(q, i - 1)]
      /\ Contents(r) = [i \in 1..(n - 1) |-> Cell(r, i - 1)]
      /\ Contents(s) = [i \in 1..(n - 1) |-> Cell(s, i - 1)]
  BY <1>1, <1>2 DEF InOrder, Contents
<1>4. Len(Contents(q)) = n
  BY <1>1, <1>3
<1>5. Contents(q) # <<>> /\ Head(Contents(q)) = Cell(q, 0)
  BY <1>1, <1>3, <1>4
<1>6. Tail(Contents(q)) = [i \in 1..(n - 1) |-> Cell(q, i)]
  BY <1>1, <1>3, <1>4
<1>7. \A i \in 1..(n - 1) : Cell(r, i - 1) = Cell(q, i)
  BY <1>1
<1>8. \A i \in 1..(n - 1) : Cell(s, i - 1) = Cell(q, i)
  BY <1>1, <1>2, <1>7
<1> QED BY <1>1, <1>3, <1>5, <1>6, <1>7, <1>8

-----------------------------------------------------------------------------
(* The stream over it.                                                     *)

HalfWordGaps == Gaps \subseteq 0..(Word \div 2 - 1)

(* The arithmetic of words, once.                                          *)
LEMMA Words ==
  /\ Word \in Nat
  /\ Word \div 2 \in Nat
  /\ Word \div 2 >= 1
  /\ Word = 2 * (Word \div 2)
<1>1. PICK half \in 1..Word : Word = 2 * half
  BY WordAssumption
<1>2. half \in Nat /\ half >= 1 /\ Word \in Nat
  BY <1>1, WordAssumption
<1>3. Word \div 2 = half
  BY <1>1, <1>2
<1> QED BY <1>1, <1>2, <1>3

LEMMA NearPair ==
  ASSUME HalfWordGaps, NEW gap \in Gaps, NEW value \in Values
  PROVE  /\ gap \in Nat
         /\ gap < ESCAPE
         /\ Near(gap, value) \in Pairs
         /\ Near(gap, value).time = gap
         /\ Near(gap, value).value = value
<1>1. gap \in Nat /\ gap < Word \div 2
  BY Words DEF HalfWordGaps
<1>2. Signed(gap) = gap
  BY <1>1, Words DEF Signed
<1>3. gap \in ShortInts /\ value \in ShortInts
  BY <1>1, Words, ValueAssumption DEF ShortInts
<1>4. gap < ESCAPE
  BY <1>1, Words DEF ESCAPE
<1> QED BY <1>1, <1>2, <1>3, <1>4 DEF Near, Pairs

(* A pair of a half word's time or less is not taken for an escape.        *)
LEMMA NoEscape == ASSUME NEW p \in Pairs PROVE p.time # ESCAPE
<1>1. p.time \in ShortInts
  BY DEF Pairs
<1> QED BY <1>1, Words DEF ShortInts, ESCAPE

LEMMA InMoments == 0..MaxMoment \subseteq Moments
<1>1. Word * Word \in Nat
  BY Words
<1> QED BY <1>1, MomentAssumption DEF Moments

(* A moment of an utterance does not wrap.                                 *)
LEMMA NoWrap == ASSUME NEW m \in 0..MaxMoment
                PROVE  m % (Word * Word) = m
<1>1. Word * Word \in Nat
  BY Words
<1>2. ASSUME NEW w \in Nat, m < w PROVE m % w = m
  BY <1>2
<1>3. m < Word * Word
  BY <1>1, MomentAssumption
<1> QED BY <1>1, <1>2, <1>3

(* A sequence without its first element, and one over a larger set.        *)
LEMMA TailFacts ==
  ASSUME NEW S, NEW s \in Seq(S), s # <<>>
  PROVE  /\ Tail(s) \in Seq(S)
         /\ Len(Tail(s)) = Len(s) - 1
         /\ \A i \in 1..(Len(s) - 1) : Tail(s)[i] = s[i + 1]
         /\ Head(s) = s[1]
         /\ s[1] \in S
  OBVIOUS

LEMMA WiderSeq == ASSUME NEW S, NEW T, S \subseteq T, NEW s \in Seq(S)
                  PROVE  s \in Seq(T)
  OBVIOUS

-----------------------------------------------------------------------------
(* The invariant: the ring is the line of the points not yet fetched, each *)
(* as its value and the gap from the one before, counted on the clock that *)
(* stands still for what was refused.                                      *)

(* The moment the i-th point will come back at, and the nought-th has.     *)
Back(i) == IF i = 0 THEN read ELSE points[i].moment - points[i].skipped

Clocks ==
  /\ written \in 0..MaxMoment
  /\ skipped \in 0..written
  /\ read \in 0..MaxMoment
  /\ points \in Seq([moment : 0..MaxMoment, value : Values,
                     skipped : 0..MaxMoment])
  /\ \A i \in 1..Len(points) : points[i].skipped <= points[i].moment

Held == Contents(ring)

Line ==
  /\ ring.there \in BOOLEAN
  /\ ring.there => InOrder(ring, Pairs)
  /\ Held \in Seq(Pairs)
  /\ Len(Held) = Len(points)
  /\ \A i \in 1..Len(points) : /\ Held[i].value = points[i].value
                               /\ Held[i].time = Back(i) - Back(i - 1)
  /\ Back(Len(points)) = written - skipped

LastCall ==
  /\ got \in {Nothing} \cup [moment : 0..MaxMoment, value : ShortInts]
  /\ due \in {Nothing} \cup [moment : 0..MaxMoment, value : Values,
                             skipped : 0..MaxMoment]
  /\ PointsComeBack

StreamInv == Clocks /\ Line /\ LastCall

(* A fresh ring holds nothing.                                             *)
LEMMA FreshRing == /\ InOrder(Fresh(Want), Pairs)
                   /\ Contents(Fresh(Want)) = <<>>
                   /\ Fresh(Want).there = TRUE
<1>1. InOrder(Fresh(Want), Pairs)
  BY WantAssumption DEF InOrder, Fresh, RingOf
<1>2. Size(Fresh(Want)) = 0
  BY DEF Size, Fresh, RingOf
<1>3. Fresh(Want).there = TRUE
  BY DEF Fresh, RingOf
<1>4. Contents(Fresh(Want)) = [i \in 1..0 |-> Cell(Fresh(Want), i - 1)]
  BY <1>2, <1>3 DEF Contents
<1> QED BY <1>1, <1>3, <1>4

(* An empty line holds whatever the clocks say they start from.            *)
LEMMA StreamInit == Init => StreamInv
<1> SUFFICES ASSUME Init PROVE StreamInv
  OBVIOUS
<1>1. /\ ring.there \in BOOLEAN
      /\ ring.there => InOrder(ring, Pairs)
      /\ Held = <<>>
  <2>1. CASE ring = Fresh(Want)
    BY <2>1, FreshRing DEF Held
  <2>2. CASE ring = NoArray
    <3>1. ring.there = FALSE
      BY <2>2 DEF NoArray, NoneOf
    <3> QED BY <3>1 DEF Held, Contents
  <2> QED BY <2>1, <2>2 DEF Init
<1>2. Line
  BY <1>1 DEF Init, Line, Back
<1>3. Clocks
  BY MomentAssumption DEF Init, Clocks
<1>4. LastCall
  BY DEF Init, LastCall, PointsComeBack
<1> QED BY <1>2, <1>3, <1>4 DEF StreamInv

LEMMA StreamClear == Clear => StreamInv'
<1> SUFFICES ASSUME Clear PROVE StreamInv'
  OBVIOUS
<1>1. /\ ring'.there \in BOOLEAN
      /\ ring'.there => InOrder(ring', Pairs)
      /\ Held' = <<>>
  <2>1. CASE ring' = Fresh(Want)
    BY <2>1, FreshRing DEF Held
  <2>2. CASE ring' = NoneOf(ring)
    <3>1. ring'.there = FALSE
      BY <2>2 DEF NoneOf
    <3> QED BY <3>1 DEF Held, Contents
  <2> QED BY <2>1, <2>2 DEF Clear
<1>2. Line'
  BY <1>1 DEF Clear, Line, Back
<1>3. Clocks'
  BY MomentAssumption DEF Clear, Clocks
<1>4. LastCall'
  BY DEF Clear, LastCall, PointsComeBack
<1> QED BY <1>2, <1>3, <1>4 DEF StreamInv

(* What an append does to the ring.                                        *)
LEMMA AppendHeld ==
  ASSUME HalfWordGaps, Line, NEW gap \in Gaps, NEW value \in Values,
         NEW ok \in BOOLEAN, PushAll(Encoded(written + gap, value), ring', ok),
         Clocks
  PROVE  /\ ring'.there \in BOOLEAN
         /\ ring'.there => InOrder(ring', Pairs)
         /\ Held' = IF ok THEN Append(Held, Near(gap, value)) ELSE Held
<1> DEFINE p == Near(gap, value)
<1>1. gap \in Nat /\ gap < ESCAPE /\ p \in Pairs
  BY NearPair
<1>2. (written + gap) - written = gap
  BY <1>1 DEF Clocks
<1>3. Encoded(written + gap, value) = <<p>>
  BY <1>1, <1>2 DEF Encoded
<1>4. PICK memory \in BOOLEAN : /\ ring' = Push(ring, p, memory)
                                /\ ok = Takes(ring, memory)
  <2>1. PushAll(<<p>>, ring', ok)
    BY <1>3
  <2>2. <<p>>[1] = p /\ Len(<<p>>) # 2
    OBVIOUS
  <2>3. MayDouble(ring) \subseteq BOOLEAN
    BY DEF MayDouble
  <2> QED BY <2>1, <2>2, <2>3 DEF PushAll
<1>5. CASE ring.there
  <2>1. /\ InOrder(ring', Pairs)
        /\ Held' = IF ok THEN Append(Held, p) ELSE Held
    BY <1>1, <1>4, <1>5, PushAppends DEF Line, Held
  <2> QED BY <2>1 DEF InOrder
<1>6. CASE ~ring.there
  <2>1. ring' = ring /\ ok = FALSE
    BY <1>4, <1>6 DEF Push, Takes
  <2> QED BY <2>1, <1>6 DEF Held, Line
<1> QED BY <1>5, <1>6

(* A point goes on the end of the line, or time passes without it.         *)
LEMMA StreamAppend ==
  ASSUME HalfWordGaps, StreamInv, NEW gap \in Gaps, NEW value \in Values,
         AppendValue(gap, value)
  PROVE  StreamInv'
<1> DEFINE moment == written + gap
           point == [moment |-> moment, value |-> value, skipped |-> skipped]
           Record == [moment : 0..MaxMoment, value : Values,
                      skipped : 0..MaxMoment]
<1>1. PICK ok \in BOOLEAN :
        /\ PushAll(Encoded(moment, value), ring', ok)
        /\ IF ok THEN points' = Append(points, point) /\ skipped' = skipped
                 ELSE points' = points /\ skipped' = skipped + gap
  BY DEF AppendValue
<1>2. /\ moment <= MaxMoment
      /\ written' = moment
      /\ read' = read
      /\ got' = Nothing
      /\ due' = Nothing
  BY DEF AppendValue
<1>3. /\ ring'.there \in BOOLEAN
      /\ ring'.there => InOrder(ring', Pairs)
      /\ Held' = IF ok THEN Append(Held, Near(gap, value)) ELSE Held
  BY <1>1, AppendHeld DEF StreamInv
<1>4. /\ gap \in Nat
      /\ Near(gap, value) \in Pairs
      /\ Near(gap, value).time = gap
      /\ Near(gap, value).value = value
  BY NearPair
<1>5. /\ written \in Nat /\ skipped \in Nat /\ skipped <= written
      /\ MaxMoment \in Nat /\ moment \in 0..MaxMoment
      /\ skipped \in 0..MaxMoment /\ skipped <= moment
  BY <1>2, <1>4, MomentAssumption DEF StreamInv, Clocks
<1>6. LastCall'
  BY <1>2 DEF LastCall, PointsComeBack
<1>n. PICK n \in Nat : n = Len(points)
  BY DEF StreamInv, Clocks
<1>7. points \in Seq(Record) /\ Held \in Seq(Pairs) /\ Len(Held) = n
  BY <1>n DEF StreamInv, Clocks, Line
<1>8. CASE ok
  <2>1. points' = Append(points, point) /\ skipped' = skipped
    BY <1>1, <1>8
  <2>2. point \in Record
    BY <1>5
  <2>3. /\ points' \in Seq(Record)
        /\ Len(points') = n + 1
        /\ \A i \in 1..n : points'[i] = points[i]
        /\ points'[n + 1] = point
    BY <1>n, <1>7, <2>1, <2>2
  <2>4. Held' = Append(Held, Near(gap, value))
    BY <1>3, <1>8
  <2>5. /\ Held' \in Seq(Pairs)
        /\ Len(Held') = n + 1
        /\ \A i \in 1..n : Held'[i] = Held[i]
        /\ Held'[n + 1] = Near(gap, value)
    BY <1>4, <1>n, <1>7, <2>4
  <2>6. \A i \in 1..(n + 1) : points'[i].skipped <= points'[i].moment
    <3>1. point.skipped <= point.moment
      BY <1>5
    <3>2. ASSUME NEW i \in 1..(n + 1)
          PROVE  points'[i].skipped <= points'[i].moment
      <4>1. CASE i = n + 1
        BY <2>3, <3>1, <4>1
      <4>2. CASE i \in 1..n
        BY <1>n, <2>3, <4>2 DEF StreamInv, Clocks
      <4> QED BY <1>n, <4>1, <4>2
    <3> QED BY <3>2
  <2>7. Clocks'
    BY <1>2, <1>5, <2>1, <2>3, <2>6 DEF StreamInv, Clocks
  <2>8. \A i \in 0..n : Back(i)' = Back(i)
    BY <1>2, <1>n, <1>7, <2>3 DEF Back
  <2>9. Back(n + 1)' = moment - skipped
    BY <1>n, <1>7, <2>3 DEF Back
  <2>10. Back(n) = written - skipped
    BY <1>n DEF StreamInv, Line
  <2>11. \A i \in 1..(n + 1) : /\ Held'[i].value = points'[i].value
                               /\ Held'[i].time = Back(i)' - Back(i - 1)'
    <3>1. ASSUME NEW i \in 1..n
          PROVE  /\ Held'[i].value = points'[i].value
                 /\ Held'[i].time = Back(i)' - Back(i - 1)'
      <4>1. i \in 0..n /\ i - 1 \in 0..n
        BY <1>n, <1>7
      <4>2. Held[i].value = points[i].value /\ Held[i].time = Back(i) - Back(i - 1)
        BY <1>n DEF StreamInv, Line
      <4> QED BY <2>3, <2>5, <2>8, <4>1, <4>2
    <3>2. /\ Held'[n + 1].value = points'[n + 1].value
          /\ Held'[n + 1].time = Back(n + 1)' - Back((n + 1) - 1)'
      <4>1. (n + 1) - 1 = n /\ n \in 0..n
        BY <1>n, <1>7
      <4>2. Back(n)' = written - skipped
        BY <2>8, <2>10, <4>1
      <4>3. gap = (moment - skipped) - (written - skipped)
        BY <1>4, <1>5
      <4> QED BY <1>4, <2>3, <2>5, <2>9, <4>1, <4>2, <4>3
    <3>3. \A i \in 1..(n + 1) : i \in 1..n \/ i = n + 1
      BY <1>n
    <3> QED BY <3>1, <3>2, <3>3
  <2>12. Line'
    BY <1>2, <1>3, <2>1, <2>3, <2>5, <2>9, <2>11 DEF Line
  <2> QED BY <1>6, <2>7, <2>12 DEF StreamInv
<1>9. CASE ~ok
  <2>1. /\ points' = points
        /\ skipped' = skipped + gap
        /\ Held' = Held
    BY <1>1, <1>3, <1>9
  <2>2. Clocks'
    BY <1>2, <1>4, <1>5, <2>1 DEF StreamInv, Clocks
  <2>3. \A i : Back(i)' = Back(i)
    BY <1>2, <2>1 DEF Back
  <2>4. written' - skipped' = written - skipped
    BY <1>2, <1>4, <1>5, <2>1
  <2>5. Line'
    BY <1>3, <2>1, <2>3, <2>4 DEF StreamInv, Line
  <2> QED BY <1>6, <2>2, <2>5 DEF StreamInv
<1> QED BY <1>8, <1>9

(* What a fetch finds on an empty ring, and on any other.                  *)
LEMMA NoneHeld == ASSUME Line, IsEmpty(ring) PROVE points = <<>>
<1>1. Held = <<>>
  <2>1. CASE ~ring.there
    BY <2>1 DEF Held, Contents
  <2>2. CASE ring.there
    <3>1. ring.head = ring.tail
      BY <2>2 DEF IsEmpty
    <3>2. Size(ring) = 0
      BY <2>2, <3>1, Ends DEF Size, Line
    <3>3. Held = [i \in 1..0 |-> Cell(ring, i - 1)]
      BY <2>2, <3>2 DEF Held, Contents
    <3> QED BY <3>3
  <2> QED BY <2>1, <2>2
<1>2. Len(points) = 0
  BY <1>1 DEF Line
<1> QED BY <1>2

LEMMA FetchHeld ==
  ASSUME Clocks, Line, ~IsEmpty(ring), FetchNext
  PROVE  /\ Held # <<>>
         /\ InOrder(ring', Pairs)
         /\ Held' = Tail(Held)
         /\ got' = [moment |-> (Head(Held).time + read) % (Word * Word),
                    value |-> Head(Held).value]
         /\ read' = (Head(Held).time + read) % (Word * Word)
<1>1. ring.there /\ InOrder(ring, Pairs)
  BY DEF IsEmpty, Line
<1>2. /\ Held # <<>>
      /\ Oldest(ring) = Head(Held)
      /\ Contents(Pop(ring)) = Tail(Held)
  BY <1>1, PopTakesOldest DEF Held, Pop
<1>3. InOrder(Pop(ring), Pairs)
  <2>1. InOrder(Popped(ring), Pairs)
    BY <1>1, PopCells
  <2> QED BY <2>1, ShrunkCells DEF Pop
<1>4. Head(Held) \in Pairs
  BY <1>2 DEF Line
<1>5. FetchOne(Head(Held))
  BY <1>2, <1>4, NoEscape DEF FetchNext
<1> QED BY <1>2, <1>3, <1>5 DEF FetchOne, Held

(* The first point of the line comes back, at its moment.                  *)
LEMMA StreamFetch == StreamInv /\ FetchNext => StreamInv'
<1> SUFFICES ASSUME StreamInv, FetchNext PROVE StreamInv'
  OBVIOUS
<1> DEFINE Record == [moment : 0..MaxMoment, value : Values,
                      skipped : 0..MaxMoment]
<1>1. written' = written /\ skipped' = skipped
  BY DEF FetchNext
<1>2. CASE IsEmpty(ring)
  <2>1. points = <<>>
    BY <1>2, NoneHeld DEF StreamInv
  <2>2. /\ ring' = ring /\ read' = read /\ points' = points
        /\ got' = Nothing /\ due' = Nothing
    BY <1>2, <2>1 DEF FetchNext
  <2>3. Clocks' /\ Line'
    BY <1>1, <2>2 DEF StreamInv, Clocks, Line, Held, Back
  <2>4. LastCall'
    BY <2>2 DEF LastCall, PointsComeBack
  <2> QED BY <2>3, <2>4 DEF StreamInv
<1>3. CASE ~IsEmpty(ring)
  <2>n. PICK n \in Nat : n = Len(points)
    BY DEF StreamInv, Clocks
  <2>1. points \in Seq(Record) /\ Held \in Seq(Pairs) /\ Len(Held) = n
    BY <2>n DEF StreamInv, Clocks, Line
  <2>2. /\ Held # <<>>
        /\ InOrder(ring', Pairs)
        /\ Held' = Tail(Held)
        /\ got' = [moment |-> (Head(Held).time + read) % (Word * Word),
                   value |-> Head(Held).value]
        /\ read' = (Head(Held).time + read) % (Word * Word)
    BY <1>3, FetchHeld DEF StreamInv
  <2>3. n >= 1 /\ points # <<>>
    BY <2>n, <2>1, <2>2
  <2>4. points' = Tail(points) /\ due' = Head(points)
    BY <2>3 DEF FetchNext
  <2>5. /\ points' \in Seq(Record)
        /\ Len(points') = n - 1
        /\ \A i \in 1..(n - 1) : points'[i] = points[i + 1]
        /\ due' = points[1]
        /\ due' \in Record
    BY <2>n, <2>1, <2>3, <2>4, TailFacts
  <2>6. /\ Held' \in Seq(Pairs)
        /\ Len(Held') = n - 1
        /\ \A i \in 1..(n - 1) : Held'[i] = Held[i + 1]
        /\ Head(Held) = Held[1]
        /\ Held[1] \in Pairs
    BY <2>n, <2>1, <2>2, <2>3
  <2>7. /\ Held[1].value = points[1].value
        /\ Held[1].time = Back(1) - Back(0)
    <3>1. 1 \in 1..n /\ 1 - 1 = 0
      BY <2>3
    <3> QED BY <2>n, <3>1 DEF StreamInv, Line
  <2>8. /\ points[1].skipped <= points[1].moment
        /\ points[1].moment \in 0..MaxMoment
        /\ points[1].skipped \in 0..MaxMoment
    BY <2>n, <2>3, <2>5 DEF StreamInv, Clocks
  <2>9. /\ Back(1) = points[1].moment - points[1].skipped
        /\ Back(0) = read
        /\ Back(1) \in 0..MaxMoment
    BY <2>8, MomentAssumption DEF Back
  <2>10. Held[1].time + read = Back(1)
    BY <2>7, <2>9 DEF StreamInv, Clocks
  <2>11. got' = [moment |-> Back(1), value |-> points[1].value] /\ read' = Back(1)
    BY <2>2, <2>6, <2>7, <2>9, <2>10, NoWrap
  <2>12. Clocks'
    <3>1. ASSUME NEW i \in 1..(n - 1)
          PROVE  points'[i].skipped <= points'[i].moment
      <4>1. i + 1 \in 1..n
        BY <2>n
      <4> QED BY <2>n, <2>5, <4>1 DEF StreamInv, Clocks
    <3> QED BY <1>1, <2>5, <2>9, <2>11, <3>1 DEF StreamInv, Clocks
  <2>13. \A i \in 0..(n - 1) : Back(i)' = Back(i + 1)
    <3>1. Back(0)' = Back(1)
      BY <2>11 DEF Back
    <3>2. ASSUME NEW i \in 1..(n - 1) PROVE Back(i)' = Back(i + 1)
      BY <2>n, <2>5 DEF Back
    <3>3. \A i \in 0..(n - 1) : i = 0 \/ i \in 1..(n - 1)
      BY <2>n
    <3> QED BY <3>1, <3>2, <3>3
  <2>14. ASSUME NEW i \in 1..(n - 1)
         PROVE  /\ Held'[i].value = points'[i].value
                /\ Held'[i].time = Back(i)' - Back(i - 1)'
    <3>1. /\ i + 1 \in 1..n /\ (i + 1) - 1 = i
          /\ i \in 0..(n - 1) /\ i - 1 \in 0..(n - 1) /\ (i - 1) + 1 = i
      BY <2>n
    <3>2. /\ Held[i + 1].value = points[i + 1].value
          /\ Held[i + 1].time = Back(i + 1) - Back(i)
      BY <2>n, <3>1 DEF StreamInv, Line
    <3>3. Back(i)' = Back(i + 1) /\ Back(i - 1)' = Back(i)
      BY <2>13, <3>1
    <3> QED BY <2>5, <2>6, <3>2, <3>3
  <2>15. Back(n - 1)' = written' - skipped'
    <3>1. n - 1 \in 0..(n - 1) /\ (n - 1) + 1 = n
      BY <2>n, <2>3
    <3> QED BY <1>1, <2>n, <2>13, <3>1 DEF StreamInv, Line
  <2>16. Line'
    <3>1. ring'.there = TRUE
      BY <2>2 DEF InOrder
    <3> QED BY <2>2, <2>5, <2>6, <2>14, <2>15, <3>1 DEF Line
  <2>17. LastCall'
    <3>1. got' \in [moment : 0..MaxMoment, value : ShortInts]
      BY <2>6, <2>7, <2>9, <2>11 DEF Pairs
    <3>2. got' # Nothing /\ due' # Nothing
      BY <2>5, <2>9, <2>11 DEF Nothing
    <3>3. got'.value = due'.value /\ got'.moment = due'.moment - due'.skipped
      BY <2>5, <2>9, <2>11
    <3> QED BY <2>5, <3>1, <3>2, <3>3 DEF LastCall, PointsComeBack
  <2> QED BY <2>12, <2>16, <2>17 DEF StreamInv
<1> QED BY <1>2, <1>3

LEMMA StreamNext == ASSUME HalfWordGaps PROVE StreamInv /\ [Next]_vars => StreamInv'
<1> SUFFICES ASSUME StreamInv, [Next]_vars PROVE StreamInv'
  OBVIOUS
<1>1. ASSUME NEW gap \in Gaps, NEW value \in Values, AppendValue(gap, value)
      PROVE  StreamInv'
  BY <1>1, StreamAppend
<1>2. CASE FetchNext BY <1>2, StreamFetch
<1>3. CASE Clear BY <1>3, StreamClear
<1>4. CASE UNCHANGED vars
  BY <1>4 DEF vars, StreamInv, Clocks, Line, Held, Back, LastCall,
              PointsComeBack
<1> QED BY <1>1, <1>2, <1>3, <1>4 DEF Next

-----------------------------------------------------------------------------
(* The ring is always the line of the points that were taken and not yet   *)
(* fetched, each with its value and its gap from the one before.           *)
THEOREM StreamCorrect == ASSUME HalfWordGaps PROVE Spec => []StreamInv
  BY StreamInit, StreamNext, PTL DEF Spec

LEMMA StreamIsTyped == StreamInv => TypeOK
<1> SUFFICES ASSUME StreamInv PROVE TypeOK
  OBVIOUS
<1>1. written \in Moments /\ read \in Moments /\ skipped \in Moments
  <2>1. /\ written \in 0..MaxMoment /\ read \in 0..MaxMoment
        /\ skipped \in 0..MaxMoment
    BY MomentAssumption DEF StreamInv, Clocks
  <2> QED BY <2>1, InMoments
<1>2. points \in Seq(Points) /\ due \in Points \cup {Nothing}
  <2>1. [moment : 0..MaxMoment, value : Values, skipped : 0..MaxMoment]
          \subseteq Points
    BY InMoments DEF Points
  <2>2. points \in Seq(Points)
    BY <2>1, WiderSeq DEF StreamInv, Clocks
  <2> QED BY <2>1, <2>2 DEF StreamInv, LastCall
<1>3. got \in Answers
  BY InMoments DEF StreamInv, LastCall, Answers
<1> QED BY <1>1, <1>2, <1>3 DEF StreamInv, Line, TypeOK

(* Every reachable state of a stream is of the declared shape.             *)
THEOREM StreamTypeCorrect == ASSUME HalfWordGaps PROVE Spec => []TypeOK
  BY StreamIsTyped, StreamCorrect, PTL

(* What is fetched is what was put there, in order, and early only by the  *)
(* gaps of the points that were refused.                                   *)
THEOREM PointsComeBackCorrect ==
  ASSUME HalfWordGaps PROVE Spec => []PointsComeBack
<1>1. StreamInv => PointsComeBack
  BY DEF StreamInv, LastCall
<1> QED BY <1>1, StreamCorrect, PTL

-----------------------------------------------------------------------------
(* The room of a ring is always the room it was asked for doubled some     *)
(* number of times: the smallest set of numbers that has Want and the      *)
(* double of each of its own.  It is what keeps halving above Want.        *)
Closed(S) == Want \in S /\ \A n \in S : 2 * n \in S
Rooms == {n \in Nat : \A S \in SUBSET Nat : Closed(S) => n \in S}

LEMMA RoomsClosed == Closed(Rooms)
<1>1. Want \in Rooms
  BY WantAssumption DEF Closed, Rooms
<1>2. ASSUME NEW n \in Rooms PROVE 2 * n \in Rooms
  <2>1. n \in Nat /\ 2 * n \in Nat
    BY DEF Rooms
  <2>2. ASSUME NEW S \in SUBSET Nat, Closed(S) PROVE 2 * n \in S
    <3>1. n \in S
      BY <2>2 DEF Rooms
    <3> QED BY <2>2, <3>1 DEF Closed
  <2> QED BY <2>1, <2>2 DEF Rooms
<1> QED BY <1>1, <1>2 DEF Closed

LEMMA RoomsLeast ==
  ASSUME NEW S \in SUBSET Nat, Closed(S), NEW n \in Rooms
  PROVE  n \in S
  BY DEF Rooms

LEMMA RoomsAboveWant == \A n \in Rooms : n \in Nat /\ n >= Want
<1> DEFINE Above == {n \in Nat : n >= Want}
<1>1. Closed(Above)
  BY WantAssumption DEF Closed
<1>2. ASSUME NEW n \in Rooms PROVE n \in Above
  <2>1. Above \in SUBSET Nat
    OBVIOUS
  <2> HIDE DEF Above
  <2> QED BY <1>1, <2>1, RoomsLeast
<1> QED BY <1>2

(* Every room but the first is the double of another.                      *)
LEMMA RoomsHalve == \A n \in Rooms : n > Want => n \div 2 \in Rooms
<1> DEFINE Doubles == {n \in Rooms : n = Want \/ \E h \in Rooms : n = 2 * h}
<1>1. Closed(Doubles)
  <2>1. Want \in Doubles
    BY RoomsClosed DEF Closed
  <2>2. ASSUME NEW n \in Doubles PROVE 2 * n \in Doubles
    BY RoomsClosed DEF Closed
  <2> QED BY <2>1, <2>2 DEF Closed
<1>2. ASSUME NEW n \in Rooms PROVE n \in Doubles
  <2>1. Doubles \in SUBSET Nat
    BY DEF Rooms
  <2> HIDE DEF Doubles
  <2> QED BY <1>1, <2>1, RoomsLeast
<1>3. ASSUME NEW n \in Rooms, n > Want PROVE n \div 2 \in Rooms
  <2>1. n # Want
    BY <1>3, WantAssumption, RoomsAboveWant
  <2>2. PICK h \in Rooms : n = 2 * h
    BY <1>2, <2>1
  <2>3. h \in Nat
    BY RoomsAboveWant
  <2>4. n \div 2 = h
    BY <2>2, <2>3
  <2> QED BY <2>4
<1> QED BY <1>3

LEMMA FreshRoom == Fresh(Want).room \in Rooms
  BY RoomsClosed DEF Closed, Fresh, RingOf

LEMMA PushRoom ==
  ASSUME NEW q, NEW p, NEW memory, q.room \in Rooms
  PROVE  Push(q, p, memory).room \in Rooms
<1> DEFINE w == Written(q, p)
<1>1. w.room = q.room
  BY DEF Written, RingOf
<1>2. Doubled(w).room = 2 * q.room
  BY <1>1 DEF Doubled, Straight, RingOf
<1>3. 2 * q.room \in Rooms
  BY RoomsClosed DEF Closed
<1>4. RingOf(w.buf, w.room, w.head, Before(w, w.tail)).room = q.room
  BY <1>1 DEF RingOf
<1> HIDE DEF w
<1>5. CASE ~q.there
  <2>1. Push(q, p, memory) = q
    BY <1>5 DEF Push
  <2> QED BY <2>1
<1>6. CASE q.there /\ w.tail # w.head
  <2>1. Push(q, p, memory) = w
    BY <1>6 DEF Push, w
  <2> QED BY <1>1, <2>1
<1>7. CASE q.there /\ w.tail = w.head /\ memory
  <2>1. Push(q, p, memory) = Doubled(w)
    BY <1>7 DEF Push, w
  <2> QED BY <1>2, <1>3, <2>1
<1>8. CASE q.there /\ w.tail = w.head /\ ~memory
  <2>1. Push(q, p, memory) = RingOf(w.buf, w.room, w.head, Before(w, w.tail))
    BY <1>8 DEF Push, w
  <2> QED BY <1>4, <2>1
<1> QED BY <1>5, <1>6, <1>7, <1>8

LEMMA PopRoom == ASSUME NEW q, q.room \in Rooms PROVE Pop(q).room \in Rooms
<1> DEFINE r == Popped(q)
<1>1. r.room = q.room
  BY DEF Popped, RingOf
<1>2. Straight(r, Size(r), r.room \div 2).room = q.room \div 2
  BY <1>1 DEF Straight, RingOf
<1> HIDE DEF r
<1>3. CASE r.head # r.tail /\ Roomy(r, Want) /\ Size(r) < r.room \div 2
  <2>1. Pop(q) = Straight(r, Size(r), r.room \div 2)
    BY <1>3 DEF Pop, Shrunk, r
  <2>2. q.room > Want
    BY <1>1, <1>3 DEF Roomy
  <2>3. q.room \div 2 \in Rooms
    BY <2>2, RoomsHalve
  <2> QED BY <1>2, <2>1, <2>3
<1>4. CASE ~(r.head # r.tail /\ Roomy(r, Want) /\ Size(r) < r.room \div 2)
  <2>1. Pop(q) = r
    BY <1>4 DEF Pop, Shrunk, r
  <2> QED BY <1>1, <2>1
<1> QED BY <1>3, <1>4

(* The invariant with the room.                                            *)
Roomed == ring.there => ring.room \in Rooms

LEMMA RoomedAppend ==
  ASSUME HalfWordGaps, Roomed, NEW gap \in Gaps, NEW value \in Values,
         AppendValue(gap, value), StreamInv
  PROVE  Roomed'
<1> DEFINE p == Near(gap, value)
<1>1. PICK ok \in BOOLEAN : PushAll(Encoded(written + gap, value), ring', ok)
  BY DEF AppendValue
<1>2. gap \in Nat /\ gap < ESCAPE /\ (written + gap) - written = gap
  BY NearPair DEF StreamInv, Clocks
<1>3. Encoded(written + gap, value) = <<p>>
  BY <1>2 DEF Encoded
<1>4. PushAll(<<p>>, ring', ok)
  BY <1>1, <1>3
<1>5. <<p>>[1] = p /\ Len(<<p>>) # 2
  OBVIOUS
<1>6. PICK memory \in MayDouble(ring) : ring' = Push(ring, p, memory)
  BY <1>4, <1>5 DEF PushAll
<1>7. CASE ring.there
  BY <1>6, <1>7, PushRoom DEF Roomed
<1>8. CASE ~ring.there
  <2>1. ring' = ring
    BY <1>6, <1>8 DEF Push
  <2> QED BY <1>8, <2>1 DEF Roomed
<1> QED BY <1>7, <1>8

LEMMA RoomedFetch ==
  ASSUME Roomed, StreamInv, FetchNext
  PROVE  Roomed'
<1>1. CASE IsEmpty(ring)
  <2>1. ring' = ring
    BY <1>1 DEF FetchNext
  <2> QED BY <2>1 DEF Roomed
<1>2. CASE ~IsEmpty(ring)
  <2>1. ring.there /\ InOrder(ring, Pairs)
    BY <1>2 DEF IsEmpty, StreamInv, Line
  <2>2. Oldest(ring) = Head(Held) /\ Held # <<>>
    BY <1>2, <2>1, PopTakesOldest DEF Held
  <2>3. Head(Held) \in Pairs
    BY <2>2 DEF StreamInv, Line
  <2>4. FetchOne(Oldest(ring))
    BY <1>2, <2>2, <2>3, NoEscape DEF FetchNext
  <2>5. ring' = Pop(ring)
    BY <2>4 DEF FetchOne
  <2> QED BY <2>1, <2>5, PopRoom DEF Roomed
<1> QED BY <1>1, <1>2

LEMMA RoomedNext ==
  ASSUME HalfWordGaps
  PROVE  StreamInv /\ Roomed /\ [Next]_vars => Roomed'
<1> SUFFICES ASSUME StreamInv, Roomed, [Next]_vars PROVE Roomed'
  OBVIOUS
<1>1. ASSUME NEW gap \in Gaps, NEW value \in Values, AppendValue(gap, value)
      PROVE  Roomed'
  BY <1>1, RoomedAppend
<1>2. CASE FetchNext BY <1>2, RoomedFetch
<1>3. CASE Clear
  BY <1>3, FreshRoom DEF Clear, Roomed, NoneOf
<1>4. CASE UNCHANGED vars
  BY <1>4 DEF vars, Roomed
<1> QED BY <1>1, <1>2, <1>3, <1>4 DEF Next

(* However often it grew and shrank, a ring is never smaller than it was   *)
(* asked for, and holds one pair for every point that is owed.             *)
THEOREM RingHoldsCorrect ==
  ASSUME HalfWordGaps PROVE Spec => []RingHoldsWhatIsOwed
<1>1. Init => Roomed
  BY FreshRoom DEF Init, Roomed, NoArray, NoneOf
<1>2. StreamInv /\ Roomed => RingHoldsWhatIsOwed
  <2> SUFFICES ASSUME StreamInv, Roomed, ring.there
               PROVE  ring.room >= Want /\ Size(ring) = Len(points)
    BY DEF RingHoldsWhatIsOwed
  <2>1. ring.room >= Want
    BY RoomsAboveWant DEF Roomed
  <2>2. Size(ring) \in Nat
    BY SizeFits DEF StreamInv, Line
  <2>3. Len(Held) = Size(ring)
    BY <2>2 DEF Held, Contents
  <2> QED BY <2>1, <2>3 DEF StreamInv, Line
<1> QED BY <1>1, <1>2, StreamInit, StreamNext, RoomedNext, PTL DEF Spec
=============================================================================
