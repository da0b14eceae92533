----------------------------- MODULE MarksProofs -----------------------------
(***************************************************************************)
(* What holds of the frames made of a stream and of the marks that stand   *)
(* between them, for any points, requests, steps and rates.                *)
(***************************************************************************)
EXTENDS IndexMarks, StreamProofs, FiniteSetTheorems, WellFoundedInduction, TLAPS

(* A step of the generator that only forgets the last fetch.               *)
LEMMA StreamForgets ==
  ASSUME StreamInv, got' = Nothing, due' = Nothing,
         UNCHANGED <<ring, written, read, points, skipped>>
  PROVE  StreamInv'
<1>1. Clocks' /\ Line'
  BY DEF StreamInv, Clocks, Line, Held, Back
<1>2. LastCall'
  BY DEF LastCall, PointsComeBack
<1> QED
  BY <1>1, <1>2 DEF StreamInv

LEMMA StreamStands == StreamInv /\ UNCHANGED streamVars => StreamInv'
  BY DEF streamVars, StreamInv, Clocks, Line, Held, Back, LastCall, PointsComeBack

(* What a fetch comes back with, and what it leaves.                       *)
LEMMA Fetched ==
  ASSUME StreamInv, FetchNext
  PROVE  /\ StreamInv' /\ written' = written /\ skipped' = skipped
         /\ points = <<>> => got' = Nothing /\ points' = <<>>
         /\ points # <<>> =>
              /\ points' = Tail(points)
              /\ got' = [moment |-> Back(1), value |-> points[1].value]
              /\ got' # Nothing
              /\ \A i \in 1..Len(points') : Back(i)' = Back(i + 1)
<1>1. StreamInv'
  BY StreamFetch
<1>2. written' = written /\ skipped' = skipped
  BY DEF FetchNext
<1>3. /\ got' \in {Nothing} \cup [moment : 0..MaxMoment, value : ShortInts]
      /\ got' = Nothing <=> due' = Nothing
      /\ due' # Nothing => /\ got'.value = due'.value
                           /\ got'.moment = due'.moment - due'.skipped
  BY <1>1 DEF StreamInv, LastCall, PointsComeBack
<1>4. ASSUME points = <<>>
      PROVE  got' = Nothing /\ points' = <<>>
  BY <1>3, <1>4 DEF FetchNext
<1>5. ASSUME points # <<>>
      PROVE  /\ points' = Tail(points)
             /\ got' = [moment |-> Back(1), value |-> points[1].value]
             /\ got' # Nothing
             /\ \A i \in 1..Len(points') : Back(i)' = Back(i + 1)
  <2>1. points \in Seq([moment : 0..MaxMoment, value : Values, skipped : 0..MaxMoment])
    BY DEF StreamInv, Clocks
  <2>2. points' = Tail(points) /\ due' = points[1]
    BY <1>5, <2>1, TailFacts DEF FetchNext
  <2>3. points[1] \in [moment : 0..MaxMoment, value : Values, skipped : 0..MaxMoment]
    BY <1>5, <2>1, TailFacts
  <2>4. due' # Nothing
    BY <2>2, <2>3, MomentAssumption DEF Nothing
  <2>5. got' = [moment |-> Back(1), value |-> points[1].value]
    BY <1>3, <2>2, <2>4 DEF Back
  <2>6. ASSUME NEW i \in 1..Len(points')
        PROVE  Back(i)' = Back(i + 1)
    <3>1. points'[i] = points[i + 1] /\ i + 1 # 0 /\ i # 0
      BY <1>5, <2>1, <2>2, TailFacts
    <3> QED
      BY <3>1 DEF Back
  <2> QED
    BY <1>3, <2>2, <2>4, <2>5, <2>6
<1> QED
  BY <1>1, <1>2, <1>4, <1>5

-----------------------------------------------------------------------------
(* The arithmetic of windows and frames.                                   *)

LEMMA Division ==
  ASSUME NEW a \in Nat, NEW d \in Nat \ {0}
  PROVE  /\ a \div d \in Nat /\ a % d \in 0..(d - 1)
         /\ a = d * (a \div d) + (a % d)
  BY SMTT(30)

(* A share of something is no more than the whole of it.                   *)
LEMMA Share ==
  ASSUME NEW w \in Nat, NEW d \in Nat \ {0}, NEW x \in 0..d
  PROVE  (x * w) \div d \in 0..w
<1>1. x * w \in Nat /\ x * w <= d * w /\ d * w \in Nat
  BY SMTT(30)
<1>2. PICK y \in Nat : y = x * w
  BY <1>1
<1>3. y \div d \in Nat /\ y % d \in 0..(d - 1) /\ y = d * (y \div d) + (y % d)
  BY Division
<1>4. PICK q \in Nat : q = y \div d
  BY <1>3
<1>5. d * q \in Nat
  BY SMTT(30)
<1>6. d * q <= d * w
  BY <1>1, <1>2, <1>3, <1>4, <1>5
<1>7. q <= w
  <2>1. CASE q >= w + 1
    <3>1. d * q >= d * (w + 1)
      BY <2>1, SMTT(30)
    <3>2. d * (w + 1) = d * w + d
      OBVIOUS
    <3> QED
      BY <1>1, <1>5, <1>6, <3>1, <3>2
  <2> QED
    BY <2>1
<1> QED
  BY <1>2, <1>4, <1>7

(* Between two values of a width there is no value that is wider.          *)
LEMMA BetweenFits ==
  ASSUME NEW l \in Nat, NEW r \in Nat, NEW moment \in l..r,
         NEW vl \in ShortInts, NEW vr \in ShortInts
  PROVE  Between(l, vl, r, vr, moment) \in ShortInts
<1>1. /\ Word \div 2 \in Int
      /\ \A v \in Int : v \in ShortInts <=> -(Word \div 2) <= v /\ v <= Word \div 2 - 1
  BY WordAssumption DEF ShortInts
<1>2. vl \in Int /\ vr \in Int
  BY <1>1 DEF ShortInts
<1>3. CASE vr = vl \/ r = l
  BY <1>3 DEF Between
<1>4. CASE ~(vr = vl \/ r = l)
  <2>1. PICK d \in Nat \ {0} : d = r - l
    BY <1>4
  <2>2. PICK x \in 0..d : x = moment - l
    BY <2>1
  <2>3. Between(l, vl, r, vr, moment) = vl + Quotient(x * (vr - vl), d)
    BY <1>4, <2>1, <2>2 DEF Between
  <2>4. CASE vr > vl
    <3>1. PICK w \in Nat : w = vr - vl
      BY <1>2, <2>4
    <3>2. x * w >= 0
      BY <3>1, SMTT(30)
    <3>3. Quotient(x * (vr - vl), d) = (x * w) \div d
      BY <3>1, <3>2 DEF Quotient
    <3>4. PICK q \in 0..w : q = (x * w) \div d
      BY <3>1, Share
    <3> QED
      BY <1>1, <1>2, <2>3, <3>1, <3>3, <3>4
  <2>5. CASE vr < vl
    <3>1. PICK w \in Nat \ {0} : w = vl - vr
      BY <1>2, <2>5
    <3>2. x * (vr - vl) = -(x * w)
      BY <1>2, <3>1, SMTT(30)
    <3>3. PICK y \in Nat : y = x * w
      BY <3>1, SMTT(30)
    <3>4. Quotient(-y, d) = -(y \div d)
      <4>1. CASE y = 0
        <5>1. 0 \div d = 0
          BY <2>1
        <5> QED
          BY <4>1, <5>1 DEF Quotient
      <4>2. CASE y > 0
        <5>1. -(-y) = y /\ ~(-y >= 0)
          BY <3>3, <4>2
        <5> QED
          BY <5>1 DEF Quotient
      <4> QED
        BY <3>3, <4>1, <4>2
    <3>5. PICK q \in 0..w : q = y \div d
      BY <3>1, <3>3, Share
    <3> QED
      BY <1>1, <1>2, <2>3, <3>1, <3>2, <3>3, <3>4, <3>5
  <2> QED
    BY <1>2, <1>4, <2>4, <2>5
<1> QED
  BY <1>3, <1>4

(* The moments a window may end at: the clock goes a step beyond them.     *)
Reach == {m \in Nat : m + Step <= Word * Word}

LEMMA Reached ==
  /\ 0 \in Reach /\ Asks \subseteq Reach
  /\ \A m \in Reach : /\ m \in Nat /\ m \in Moments
                      /\ \A k \in Nat : k < m + Step => k \in Moments
                      /\ \A k \in Nat : k <= m => k \in Reach
<1>1. PICK square \in Nat : square = Word * Word
  BY WordAssumption, SMTT(30)
<1>2. Step \in Nat \ {0}
  BY StepAssumption
<1>3. Moments = 0..(square - 1)
  BY <1>1 DEF Moments
<1> QED
  BY <1>1, <1>2, <1>3, AskAssumption DEF Reach

(* A window that is not exact ends where the points are known to, on a     *)
(* whole step from where it begins, and no later than was asked for.       *)
LEMMA BoundaryCuts ==
  ASSUME NEW from \in Nat, NEW to \in Nat, from <= to, written \in Nat
  PROVE  /\ Boundary(from, to) \in Nat
         /\ from <= Boundary(from, to) /\ Boundary(from, to) <= to
         /\ Boundary(from, to) <= written \/ Boundary(from, to) = from
         /\ \E j \in Nat : Boundary(from, to) = from + j * Step
<1> DEFINE known == IF written < to THEN written ELSE to
           there == IF known < from THEN from ELSE known
<1>1. PICK a \in Nat : /\ a = there /\ from <= a /\ a <= to
                       /\ a <= written \/ a = from
  OBVIOUS
<1>2. PICK b \in Nat : b = a - from
  BY <1>1
<1>3. Boundary(from, to) = a - (b % Step)
  BY <1>1, <1>2 DEF Boundary
<1>4. PICK j \in Nat, rest \in Nat :
        rest = b % Step /\ b = Step * j + rest
  <2>1. b \div Step \in Nat /\ b % Step \in 0..(Step - 1)
        /\ b = Step * (b \div Step) + (b % Step)
    BY Division, StepAssumption
  <2>2. b % Step \in Nat
    BY <2>1, StepAssumption
  <2> QED
    BY <2>1, <2>2
<1>5. Step * j \in Nat /\ Step * j = j * Step
  BY <1>4, StepAssumption
<1> HIDE DEF known, there
<1>6. Boundary(from, to) = from + j * Step
  BY <1>1, <1>2, <1>3, <1>4, <1>5
<1> QED
  BY <1>1, <1>2, <1>4, <1>5, <1>6

-----------------------------------------------------------------------------
(* The course of the windows.                                              *)

Spots == [moment : 0..MaxMoment, value : Values]
Frames == [at : Moments, value : ShortInts, length : Nat]

Timed ==
  /\ reached \in Reach /\ marked \in Reach /\ limit \in Reach /\ end \in Reach
  /\ at \in Nat
  /\ call \in [from : Reach, to : Reach, last : BOOLEAN]
  /\ playing \in BOOLEAN /\ said \in BOOLEAN
  /\ phase \in {"rules", "again", "speak"}
  /\ cursor \in Cursors
  /\ line \in Seq(Spots)

(* A window goes on where the last one ended, and neither it nor the marks *)
(* go beyond what was asked for; the cursor is not ahead of it.            *)
Course ==
  /\ phase = "rules" => at = 0 /\ frame = NoFrame
  /\ phase # "rules" => playing /\ said = call.last /\ at < end + Step
  /\ playing => reached = end /\ end <= limit /\ marked <= limit
  /\ phase = "again" => call.from = limit /\ limit = end /\ limit <= call.to
  /\ phase = "speak" /\ call.last => end = limit
  /\ playing => cursor.l <= reached
  /\ phase # "rules" => cursor.l <= at
  /\ frame # NoFrame =>
       frame \in Frames /\ at < end /\ frame.at = at /\ frame.length = Length

(* The points of a window are known, unless it is the last; and it is of   *)
(* whole steps, unless it is of all that was asked for.                    *)
Known ==
  /\ phase # "rules" /\ at < end => end <= written \/ (phase = "speak" /\ call.last)
  /\ phase # "rules" => marked <= end \/ \E j \in Nat : end = at + j * Step

Gen == Timed /\ Course /\ Known

LEMMA Clocked ==
  ASSUME Timed
  PROVE  /\ reached \in Nat /\ marked \in Nat /\ limit \in Nat /\ end \in Nat
         /\ at \in Nat /\ Step \in Nat \ {0}
         /\ cursor.l \in Nat /\ cursor.vl \in ShortInts /\ cursor.vr \in ShortInts
         /\ cursor.r \in Nat \cup {-1}
         /\ call.from \in Nat /\ call.to \in Nat /\ call.last \in BOOLEAN
<1>1. Moments \subseteq Nat
  BY DEF Moments
<1>2. Step \in Nat \ {0}
  BY StepAssumption
<1> QED
  BY <1>1, <1>2, Reached DEF Timed, Cursors

LEMMA ClockedNext ==
  ASSUME Timed'
  PROVE  /\ reached' \in Nat /\ marked' \in Nat /\ limit' \in Nat /\ end' \in Nat
         /\ at' \in Nat /\ Step \in Nat \ {0}
         /\ cursor'.l \in Nat /\ cursor'.vl \in ShortInts /\ cursor'.vr \in ShortInts
         /\ cursor'.r \in Nat \cup {-1}
         /\ call'.from \in Nat /\ call'.to \in Nat /\ call'.last \in BOOLEAN
<1>1. Moments \subseteq Nat
  BY DEF Moments
<1>2. Step \in Nat \ {0}
  BY StepAssumption
<1> QED
  BY <1>1, <1>2, Reached DEF Timed, Cursors

LEMMA GenInitially == GeneratorInit => Gen
<1> SUFFICES ASSUME GeneratorInit PROVE Gen
  OBVIOUS
<1>1. cursor \in Cursors /\ cursor.l = 0
  <2>1. 0 \in ShortInts
    BY WordAssumption DEF ShortInts
  <2> QED
    BY <2>1, Reached DEF GeneratorInit, Unstarted, Cursors
<1>2. call \in [from : Reach, to : Reach, last : BOOLEAN]
  BY Reached DEF GeneratorInit, NoCall
<1>3. Timed
  <2>1. <<>> \in Seq(Spots)
    OBVIOUS
  <2> QED
    BY <1>1, <1>2, <2>1, Reached DEF GeneratorInit, Timed
<1> QED
  BY <1>1, <1>3 DEF GeneratorInit, Gen, Course, Known

(* A step of the rules that is no call, or of somebody else.               *)
LEMMA GenStands ==
  ASSUME Gen,
         UNCHANGED <<totals, walkVars, playing, phase, call, frame>>,
         said' \in BOOLEAN, phase # "rules" => said' = said /\ written' = written,
         line' \in Seq(Spots)
  PROVE  Gen'
<1>1. Timed'
  BY DEF Gen, Timed, totals, walkVars
<1>2. Course'
  BY DEF Gen, Course, Length, totals, walkVars
<1>3. Known'
  BY DEF Gen, Known, totals, walkVars
<1> QED
  BY <1>1, <1>2, <1>3 DEF Gen

LEMMA GenWrite ==
  ASSUME StreamInv, Gen, NEW gap \in Gaps, NEW value \in Values,
         WritePoint(gap, value), StreamInv'
  PROVE  Gen'
<1>1. /\ UNCHANGED <<totals, walkVars, playing, phase, call, frame, said>>
      /\ phase = "rules"
  BY DEF WritePoint, callVars
<1>2. line \in Seq(Spots) /\ said \in BOOLEAN
  BY DEF Gen, Timed
<1>3. [moment |-> written' - skipped, value |-> value] \in Spots
  <2>1. MaxMoment \in Nat
    BY MomentAssumption
  <2>2. /\ written \in 0..MaxMoment /\ written' \in 0..MaxMoment
        /\ skipped \in 0..written
    BY DEF StreamInv, Clocks
  <2>3. written' = written + gap /\ gap \in Nat
    BY GapAssumption DEF WritePoint, AppendValue
  <2>4. written' - skipped \in 0..MaxMoment
    BY <2>1, <2>2, <2>3
  <2> QED
    BY <2>4 DEF Spots
<1>4. line' \in Seq(Spots)
  BY <1>2, <1>3 DEF WritePoint
<1> QED
  BY <1>1, <1>2, <1>4, GenStands

(* A window is begun, where the one before ended or where it was asked     *)
(* for.                                                                    *)
LEMMA WindowFits ==
  ASSUME NEW from \in Reach, NEW to \in Reach,
         NEW continuing \in BOOLEAN, NEW exact \in BOOLEAN,
         Window(from, to, continuing, exact),
         Timed, written \in Nat,
         (IF continuing THEN from ELSE reached) <= to,
         continuing \/ cursor.l <= reached
  PROVE  /\ reached' \in Reach /\ marked' \in Reach
         /\ limit' \in Reach /\ end' \in Reach
         /\ reached' = end' /\ limit' = to /\ end' <= to
         /\ at' = (IF continuing THEN from ELSE reached) /\ at' <= end'
         /\ at' \in Nat
         /\ marked' = IF from = 0 THEN 0 ELSE marked
         /\ cursor' \in Cursors /\ cursor'.l <= at'
         /\ exact => end' = to
         /\ ~exact => /\ end' <= written \/ end' = at'
                      /\ \E j \in Nat : end' = at' + j * Step
<1>1. PICK start \in Nat : /\ start = IF continuing THEN from ELSE reached
                           /\ start \in Reach /\ start <= to
  BY Reached DEF Timed
<1>2. PICK stop : stop = IF exact THEN to ELSE Boundary(start, to)
  OBVIOUS
<1>3. /\ stop \in Nat /\ start <= stop /\ stop <= to
      /\ ~exact => /\ stop <= written \/ stop = start
                   /\ \E j \in Nat : stop = start + j * Step
  <2>1. to \in Nat
    BY Reached
  <2>2. CASE exact
    BY <1>1, <1>2, <2>1, <2>2
  <2>3. CASE ~exact
    BY <1>1, <1>2, <2>1, <2>3, BoundaryCuts
  <2> QED
    BY <2>2, <2>3
<1>4. stop \in Reach
  BY <1>3, Reached
<1>5. /\ marked' = IF from = 0 THEN 0 ELSE marked
      /\ limit' = to /\ end' = stop /\ reached' = stop /\ at' = start
      /\ cursor' = IF continuing THEN Unstarted ELSE cursor
  BY <1>1, <1>2 DEF Window
<1>6. cursor' \in Cursors /\ cursor'.l <= start
  <2>1. 0 \in ShortInts /\ 0 \in Moments
    BY Reached, WordAssumption DEF ShortInts
  <2>2. Unstarted \in Cursors /\ Unstarted.l = 0
    BY <2>1 DEF Unstarted, Cursors
  <2> QED
    BY <1>1, <1>5, <2>2 DEF Timed
<1>7. marked' \in Reach
  BY <1>5, Reached DEF Timed
<1> QED
  BY <1>1, <1>2, <1>3, <1>4, <1>5, <1>6, <1>7

LEMMA GenSynthesize ==
  ASSUME StreamInv, Gen, NEW to \in Asks, NEW last \in BOOLEAN, NEW changed \in BOOLEAN,
         Synthesize(to, last, changed)
  PROVE  Gen'
<1>1. PICK from \in Reach :
        /\ from = From /\ from <= to /\ to \in Reach
        /\ call' = [from |-> from, to |-> to, last |-> last]
        /\ playing => from = limit
        /\ ~playing => from = 0
  BY Reached DEF Gen, Timed, From, Synthesize
<1>2. /\ phase = "rules" /\ playing' = TRUE /\ said' = last
      /\ changed => playing /\ from <= written
      /\ UNCHANGED <<streamVars, frame, line>>
      /\ frame = NoFrame
  BY <1>1 DEF Synthesize, Gen, Course
<1>3. /\ Timed /\ written \in Nat /\ from \in Nat /\ to \in Nat
      /\ call' \in [from : Reach, to : Reach, last : BOOLEAN]
      /\ written' = written
  BY <1>1, <1>2, Reached, MomentAssumption DEF Gen, StreamInv, Clocks, streamVars
<1>4. CASE changed
  <2>1. Window(from, from, FALSE, TRUE) /\ phase' = "again" /\ playing
    BY <1>1, <1>2, <1>4 DEF Synthesize
  <2>2. /\ reached' \in Reach /\ marked' \in Reach
        /\ limit' \in Reach /\ end' \in Reach
        /\ reached' = end' /\ limit' = from /\ end' = from
        /\ at' <= end' /\ at' \in Nat
        /\ marked' = IF from = 0 THEN 0 ELSE marked
        /\ cursor' \in Cursors /\ cursor'.l <= at'
    <3>1. /\ (IF FALSE THEN from ELSE reached) <= from
          /\ FALSE \/ cursor.l <= reached
      BY <1>1, <1>3, <2>1, Reached DEF Gen, Timed, Course
    <3> QED
      BY <1>1, <1>3, <2>1, <3>1, WindowFits
  <2>3. Timed'
    BY <1>2, <1>3, <2>1, <2>2 DEF Timed
  <2>4. /\ marked' <= limit' /\ limit' \in Nat /\ marked' \in Nat /\ end' \in Nat
        /\ cursor'.l \in Nat /\ Step \in Nat \ {0}
    <3>1. marked <= limit /\ limit = from
      BY <1>1, <2>1 DEF Gen, Course
    <3> QED
      BY <1>1, <1>3, <2>2, <2>3, <3>1, ClockedNext
  <2>5. Course'
    BY <1>1, <1>2, <1>3, <2>1, <2>2, <2>4, StepAssumption DEF Course
  <2>6. Known'
    <3>1. end' <= written'
      BY <1>2, <1>3, <1>4, <2>2
    <3>2. marked' <= end'
      BY <2>2, <2>4
    <3> QED
      BY <3>1, <3>2 DEF Known
  <2> QED
    BY <2>3, <2>5, <2>6 DEF Gen
<1>5. CASE ~changed
  <2>1. PICK anew \in BOOLEAN :
          Window(from, to, anew, last) /\ (anew <=> ~playing)
    <3>1. Window(from, to, ~playing, last)
      BY <1>1, <1>5 DEF Synthesize
    <3>2. CASE playing
      <4>1. Window(from, to, FALSE, last)
        BY <3>1, <3>2
      <4> QED
        BY <3>2, <4>1, Zenon
    <3>3. CASE ~playing
      <4>1. Window(from, to, TRUE, last)
        BY <3>1, <3>3
      <4> QED
        BY <3>3, <4>1, Zenon
    <3> QED
      BY <3>2, <3>3, Zenon
  <2>2. phase' = "speak"
    BY <1>5 DEF Synthesize
  <2>3. /\ (IF anew THEN from ELSE reached) <= to
        /\ anew \/ cursor.l <= reached
    BY <1>1, <1>3, <2>1, Clocked DEF Gen, Course
  <2>4. /\ reached' \in Reach /\ marked' \in Reach
        /\ limit' \in Reach /\ end' \in Reach
        /\ reached' = end' /\ limit' = to /\ end' <= to
        /\ at' <= end' /\ at' \in Nat
        /\ marked' = IF from = 0 THEN 0 ELSE marked
        /\ cursor' \in Cursors /\ cursor'.l <= at'
        /\ last => end' = to
        /\ ~last => /\ end' <= written \/ end' = at'
                    /\ \E j \in Nat : end' = at' + j * Step
    BY <1>1, <1>3, <2>1, <2>3, WindowFits
  <2>5. Timed'
    BY <1>2, <1>3, <2>2, <2>4 DEF Timed
  <2>6. /\ marked' <= limit' /\ limit' \in Nat /\ marked' \in Nat /\ end' \in Nat
        /\ cursor'.l \in Nat /\ Step \in Nat \ {0}
    <3>1. playing => marked <= limit /\ limit = from
      BY <1>1 DEF Gen, Course
    <3> QED
      BY <1>1, <1>3, <2>4, <2>5, <3>1, ClockedNext
  <2>7. Course'
    <3>1. call'.last = last /\ phase' # "again" /\ frame' = NoFrame
      BY <1>1, <1>2, <2>2
    <3>2. /\ at' <= end' /\ at' \in Nat /\ cursor'.l <= at'
          /\ reached' = end' /\ limit' = to /\ end' <= to
          /\ last => end' = to
      BY <2>4, Zenon
    <3>3. at' < end' + Step
      <4>1. \A a, e \in Nat, d \in Nat \ {0} : a <= e => a < e + d
        OBVIOUS
      <4> QED
        BY <2>6, <3>2, <4>1, Zenon
    <3>4. cursor'.l <= reached'
      BY <2>6, <3>2
    <3>5. last => end' = limit'
      BY <3>2
    <3> QED
      BY <1>2, <2>2, <2>6, <3>1, <3>2, <3>3, <3>4, <3>5 DEF Course
  <2>8. Known'
    <3>1. call'.last = last
      BY <1>1
    <3>2. at' < end' => end' <= written' \/ last
      <4>1. /\ at' \in Nat /\ written' = written
            /\ ~last => end' <= written \/ end' = at'
        BY <1>3, <2>4, Zenon
      <4> QED
        BY <2>6, <4>1
    <3>3. marked' <= end' \/ \E j \in Nat : end' = at' + j * Step
      <4>1. CASE last
        BY <2>4, <2>6, <4>1
      <4>2. CASE ~last
        BY <2>4, <4>2
      <4> QED
        BY <4>1, <4>2
    <3> QED
      BY <2>2, <3>1, <3>2, <3>3 DEF Known
  <2> QED
    BY <2>5, <2>7, <2>8 DEF Gen
<1> QED
  BY <1>4, <1>5

LEMMA GenWalk ==
  ASSUME StreamInv, Gen, Walk
  PROVE  Gen'
<1>1. /\ at < end /\ at > cursor.r /\ phase # "rules"
      /\ FetchNext /\ cursor' = Stepped(got')
      /\ UNCHANGED <<totals, reached, at, callVars, frame, line>>
  BY DEF Walk, InWindow
<1>2. StreamInv' /\ written' = written
  BY <1>1, Fetched
<1>3. /\ reached \in Nat /\ end \in Nat /\ at \in Nat /\ reached = end
      /\ cursor.l \in Nat /\ cursor.r \in Nat \cup {-1}
      /\ end \in Moments /\ cursor \in Cursors
  BY <1>1, Clocked, Reached DEF Gen, Timed, Course
<1>4. \/ got' = Nothing
      \/ got' # Nothing /\ got'.moment \in Moments /\ got'.value \in ShortInts
  <2>1. got' \in {Nothing} \cup [moment : 0..MaxMoment, value : ShortInts]
    BY <1>2 DEF StreamInv, LastCall
  <2> QED
    BY <2>1, InMoments
<1>5. 0 \in Moments /\ 0 \in ShortInts
  BY Reached, WordAssumption DEF ShortInts
<1>6. cursor' \in Cursors /\ cursor'.l \in Nat /\ cursor'.l <= at
  <2>1. CASE cursor.r = -1
    <3>1. PICK r \in Moments, v \in ShortInts :
            cursor' = [l |-> 0, vl |-> v, r |-> r, vr |-> v]
      BY <1>1, <1>3, <1>4, <1>5, <2>1 DEF Stepped
    <3> QED
      BY <1>3, <1>5, <3>1 DEF Cursors
  <2>2. CASE cursor.r # -1
    <3>1. PICK r \in Moments, v \in ShortInts :
            cursor' = [l |-> cursor.r, vl |-> cursor.vr, r |-> r, vr |-> v]
      BY <1>1, <1>3, <1>4, <1>5, <2>2 DEF Stepped, Cursors
    <3>2. cursor.r \in Moments /\ cursor.vr \in ShortInts /\ cursor.r \in Nat
      BY <1>3, <2>2 DEF Cursors
    <3> QED
      BY <1>1, <1>3, <3>1, <3>2 DEF Cursors
  <2> QED
    BY <2>1, <2>2
<1>7. Timed'
  BY <1>1, <1>6 DEF Gen, Timed, totals, callVars
<1>8. Course'
  <2>1. cursor'.l <= reached
    BY <1>1, <1>3, <1>6
  <2> QED
    BY <1>1, <1>6, <2>1 DEF Gen, Course, Length, totals, callVars
<1>9. Known'
  BY <1>1, <1>2 DEF Gen, Known, totals, callVars
<1> QED
  BY <1>7, <1>8, <1>9 DEF Gen

LEMMA LengthIsAStep ==
  ASSUME Gen, at < end
  PROVE  /\ Length \in Nat /\ Covered \in 1..Step
         /\ end \in Nat /\ at \in Nat
         /\ at + Step <= end => Length = Step /\ Covered = Step
         /\ at + Step > end => /\ Covered = end - at
                               /\ Length = Step - Covered
  BY Clocked DEF Gen, Length, Covered

(* The least and the greatest of some numbers.                             *)
LEMMA Least ==
  ASSUME NEW T \in SUBSET Nat, T # {}
  PROVE  \E x \in T : \A y \in T : x <= y
<1>1. PICK x \in T : \A y \in T : ~ (<<y, x>> \in OpToRel(<, Nat))
  BY NatLessThanWellFounded, WFMin
<1>2. ASSUME NEW y \in T PROVE x <= y
  <2>1. ~(y < x) /\ x \in Nat /\ y \in Nat
    BY <1>1 DEF OpToRel
  <2> QED
    BY <2>1
<1> QED
  BY <1>2

LEMMA Greatest ==
  ASSUME NEW n \in Nat, NEW T \in SUBSET (1..n), T # {}
  PROVE  \E x \in T : \A y \in T : y <= x
<1> DEFINE U == {k \in 0..n : n - k \in T}
<1>1. U \in SUBSET Nat /\ U # {}
  <2>1. PICK y \in T : y \in 1..n
    OBVIOUS
  <2>2. n - y \in 0..n /\ n - (n - y) = y
    BY <2>1
  <2>3. n - y \in U
    BY <2>1, <2>2
  <2>4. U \in SUBSET Nat
    OBVIOUS
  <2> QED
    BY <2>3, <2>4
<1>2. PICK k \in U : \A j \in U : k <= j
  <2> HIDE DEF U
  <2> QED
    BY <1>1, Least
<1>3. ASSUME NEW y \in T PROVE y <= n - k
  <2>1. y \in 1..n /\ n - (n - y) = y /\ n - y \in 0..n
    OBVIOUS
  <2>2. n - y \in U /\ k \in 0..n
    BY <2>1
  <2>3. k <= n - y
    BY <1>2, <2>2
  <2> QED
    BY <2>1, <2>2, <2>3
<1> QED
  BY <1>2, <1>3

(* What is left of a line: it is cut before the last point that is past.   *)
LEMMA NeededCuts ==
  ASSUME NEW S, NEW l \in Seq(S), NEW moment \in Nat,
         \A i \in 1..Len(l) : l[i].moment \in Nat
  PROVE  \E c \in 0..Len(l) :
           /\ Needed(l, moment) \in Seq(S)
           /\ Len(Needed(l, moment)) = Len(l) - c
           /\ \A i \in 1..(Len(l) - c) : Needed(l, moment)[i] = l[i + c]
           /\ \/ c = 0 /\ \A i \in 1..Len(l) : l[i].moment >= moment
              \/ /\ c < Len(l) /\ l[c + 1].moment < moment
                 /\ \A i \in 1..Len(l) : i > c + 1 => l[i].moment >= moment
<1> DEFINE past == {i \in 1..Len(l) : l[i].moment < moment}
<1>1. CASE past = {}
  <2>1. Needed(l, moment) = l
    BY <1>1 DEF Needed
  <2>2. \A i \in 1..Len(l) : l[i].moment >= moment
    BY <1>1
  <2>3. /\ 0 \in 0..Len(l) /\ Len(l) - 0 = Len(l)
        /\ \A i \in 1..Len(l) : i + 0 = i
    OBVIOUS
  <2> HIDE DEF past
  <2> QED
    BY <2>1, <2>2, <2>3
<1>2. CASE past # {}
  <2>1. PICK x \in past : \A j \in past : j <= x
    <3>1. past \in SUBSET (1..Len(l)) /\ Len(l) \in Nat
      OBVIOUS
    <3> HIDE DEF past
    <3> QED
      BY <1>2, <3>1, Greatest
  <2>2. x = CHOOSE i \in past : \A j \in past : j <= i
    <3>1. \A i \in past : (\A j \in past : j <= i) => i = x
      BY <2>1
    <3> HIDE DEF past
    <3> QED
      BY <2>1, <3>1
  <2>3. Needed(l, moment) = SubSeq(l, x, Len(l))
    BY <1>2, <2>2 DEF Needed
  <2>4. PICK c \in Nat : x = c + 1 /\ c < Len(l)
    <3>1. x - 1 \in Nat /\ x = (x - 1) + 1 /\ x - 1 < Len(l)
      OBVIOUS
    <3> QED
      BY <3>1
  <2>5. /\ SubSeq(l, x, Len(l)) \in Seq(S)
        /\ Len(SubSeq(l, x, Len(l))) = Len(l) - c
        /\ \A i \in 1..(Len(l) - c) : SubSeq(l, x, Len(l))[i] = l[i + c]
    BY <2>4
  <2>6. /\ l[c + 1].moment < moment
        /\ \A i \in 1..Len(l) : i > c + 1 => l[i].moment >= moment
    BY <2>1, <2>4
  <2> QED
    BY <2>3, <2>4, <2>5, <2>6
<1> QED
  BY <1>1, <1>2

LEMMA GenMakeFrame ==
  ASSUME Gen, MakeFrame
  PROVE  Gen'
<1>1. /\ phase # "rules" /\ at < end /\ at <= cursor.r
      /\ frame' = [at |-> at,
                   value |-> Between(cursor.l, cursor.vl, cursor.r, cursor.vr, at),
                   length |-> Length]
      /\ line' = Needed(line, at)
      /\ UNCHANGED <<written, totals, walkVars, callVars>>
  BY DEF MakeFrame, InWindow
<1>2. /\ at \in Nat /\ end \in Nat /\ end \in Reach /\ line \in Seq(Spots)
      /\ cursor.l \in Nat /\ cursor.vl \in ShortInts /\ cursor.vr \in ShortInts
      /\ cursor.r \in Nat \cup {-1} /\ cursor.l <= at
  BY <1>1, Clocked DEF Gen, Timed, Course
<1>3. frame' \in Frames
  <2>1. at \in Moments
    <3>1. at < end + Step
      BY <1>1 DEF Gen, Course
    <3> QED
      BY <1>2, <3>1, Reached
  <2>2. Between(cursor.l, cursor.vl, cursor.r, cursor.vr, at) \in ShortInts
    <3>1. cursor.r \in Nat /\ at \in cursor.l..cursor.r
      BY <1>1, <1>2
    <3> QED
      BY <1>2, <3>1, BetweenFits
  <2>3. Length \in Nat
    BY <1>1, LengthIsAStep
  <2> QED
    BY <1>1, <2>1, <2>2, <2>3 DEF Frames
<1>4. line' \in Seq(Spots)
  <2>1. \A i \in 1..Len(line) : line[i].moment \in Nat
    <3>1. ASSUME NEW i \in 1..Len(line) PROVE line[i] \in Spots
      BY <1>2
    <3> QED
      BY <3>1, MomentAssumption DEF Spots
  <2> QED
    BY <1>1, <1>2, <2>1, NeededCuts
<1>5. Timed'
  BY <1>1, <1>4 DEF Gen, Timed, totals, walkVars, callVars
<1>6. Course'
  <2>1. frame'.at = at' /\ frame'.length = Length' /\ at' < end'
    BY <1>1 DEF Length, totals, walkVars
  <2> QED
    BY <1>1, <1>3, <2>1 DEF Gen, Course, totals, walkVars, callVars
<1>7. Known'
  BY <1>1 DEF Gen, Known, totals, walkVars, callVars
<1> QED
  BY <1>5, <1>6, <1>7 DEF Gen

LEMMA GenNextFrame ==
  ASSUME Gen, NextFrame
  PROVE  Gen'
<1>1. /\ frame # NoFrame /\ at' = at + Step /\ frame' = NoFrame
      /\ UNCHANGED <<written, totals, reached, cursor, callVars, line>>
  BY DEF NextFrame, streamVars
<1>2. /\ at \in Nat /\ end \in Nat /\ Step \in Nat \ {0} /\ cursor.l \in Nat
      /\ at < end /\ phase # "rules" /\ cursor.l <= at
  BY <1>1, Clocked DEF Gen, Course
<1>3. at' \in Nat /\ at' < end + Step /\ cursor.l <= at' /\ (at' < end => at < end)
  BY <1>1, <1>2
<1>4. Timed'
  BY <1>1, <1>3 DEF Gen, Timed, totals, callVars
<1>5. Course'
  BY <1>1, <1>2, <1>3 DEF Gen, Course, totals, callVars
<1>6. Known'
  <2>1. ASSUME NEW j \in Nat, end = at + j * Step
        PROVE  \E k \in Nat : end = at' + k * Step
    <3>1. j # 0
      BY <1>2, <2>1
    <3>2. j - 1 \in Nat /\ j * Step = (j - 1) * Step + Step
      BY <1>2, <3>1, SMTT(30)
    <3>3. PICK k \in Nat : k * Step = j * Step - Step
      BY <1>2, <3>2, SMTT(30)
    <3>4. PICK x \in Nat, y \in Nat : x = j * Step /\ y = k * Step
      BY <1>2, SMTT(30)
    <3>5. end = at' + k * Step
      <4> HIDE <2>1
      <4>1. end = at + x /\ y = x - Step
        BY <2>1, <3>3, <3>4
      <4> QED
        BY <1>1, <1>2, <3>4, <4>1
    <3> QED
      BY <3>5
  <2>2. marked <= end \/ \E j \in Nat : end = at + j * Step
    BY <1>2 DEF Gen, Known
  <2>3. marked <= end \/ \E k \in Nat : end = at' + k * Step
    BY <2>1, <2>2, Zenon
  <2>4. at < end => end <= written \/ (phase = "speak" /\ call.last)
    BY <1>2 DEF Gen, Known
  <2> QED
    BY <1>1, <1>3, <2>3, <2>4 DEF Known, totals, callVars
<1> QED
  BY <1>4, <1>5, <1>6 DEF Gen

LEMMA GenEndWindow ==
  ASSUME StreamInv, Gen, EndWindow
  PROVE  Gen'
<1>1. /\ phase # "rules" /\ frame = NoFrame
      /\ UNCHANGED <<streamVars, said, frame, line>>
  BY DEF EndWindow
<1>2. /\ Timed /\ written \in Nat /\ playing /\ said = call.last
      /\ written' = written
  BY <1>1, MomentAssumption DEF Gen, Course, StreamInv, Clocks, streamVars
<1>3. CASE phase = "again"
  <2>1. /\ phase' = "speak" /\ Window(call.from, call.to, FALSE, call.last)
        /\ UNCHANGED <<playing, call>>
    BY <1>3 DEF EndWindow
  <2>2. PICK from \in Reach, to \in Reach, last \in BOOLEAN :
          /\ from = call.from /\ to = call.to /\ last = call.last
          /\ Window(from, to, FALSE, last)
          /\ from = limit /\ limit = end /\ limit <= to /\ reached = end
          /\ marked <= limit /\ cursor.l <= reached
    BY <1>1, <1>2, <1>3, <2>1 DEF Gen, Timed, Course
  <2>3. PICK anew \in BOOLEAN :
          /\ Window(from, to, anew, last)
          /\ (IF anew THEN from ELSE reached) <= to
          /\ anew \/ cursor.l <= reached
    <3>1. FALSE \in BOOLEAN /\ Window(from, to, FALSE, last)
      BY <2>2
    <3>2. (IF FALSE THEN from ELSE reached) <= to /\ (FALSE \/ cursor.l <= reached)
      BY <2>2
    <3> QED
      BY <3>1, <3>2, Zenon
  <2>4. /\ reached' \in Reach /\ marked' \in Reach
        /\ limit' \in Reach /\ end' \in Reach
        /\ reached' = end' /\ limit' = to /\ end' <= to
        /\ at' <= end' /\ at' \in Nat
        /\ marked' = IF from = 0 THEN 0 ELSE marked
        /\ cursor' \in Cursors /\ cursor'.l <= at'
        /\ last => end' = to
        /\ ~last => /\ end' <= written \/ end' = at'
                    /\ \E j \in Nat : end' = at' + j * Step
    BY <1>2, <2>3, WindowFits
  <2>5. Timed'
    BY <1>1, <1>2, <2>1, <2>4 DEF Timed
  <2>6. /\ limit' \in Nat /\ marked' \in Nat /\ end' \in Nat /\ to \in Nat
        /\ cursor'.l \in Nat /\ Step \in Nat \ {0} /\ limit \in Nat /\ marked \in Nat
    BY <1>2, <2>5, Clocked, ClockedNext, Reached
  <2>7. /\ at' <= end' /\ at' \in Nat /\ cursor'.l <= at' /\ limit' = to
        /\ reached' = end' /\ end' <= to
        /\ last => end' = to
        /\ marked' = IF from = 0 THEN 0 ELSE marked
    BY <2>4, Zenon
  <2>8. Course'
    <3>1. at' < end' + Step
      <4>1. \A a, e \in Nat, d \in Nat \ {0} : a <= e => a < e + d
        OBVIOUS
      <4> QED
        BY <2>6, <2>7, <4>1, Zenon
    <3>2. cursor'.l <= reached' /\ end' <= limit'
      BY <2>6, <2>7
    <3>3. marked' <= limit'
      BY <2>2, <2>6, <2>7
    <3>4. call'.last = last /\ phase' # "again" /\ frame' = NoFrame
      BY <1>1, <2>1, <2>2
    <3>5. last => end' = limit'
      BY <2>7
    <3> QED
      BY <1>1, <1>2, <2>1, <2>2, <2>7, <3>1, <3>2, <3>3, <3>4, <3>5 DEF Course
  <2>9. Known'
    <3>1. call'.last = last
      BY <2>1, <2>2
    <3>2. at' < end' => end' <= written' \/ last
      <4>1. /\ at' \in Nat /\ written' = written
            /\ ~last => end' <= written \/ end' = at'
        BY <1>2, <2>4, Zenon
      <4> QED
        BY <2>6, <4>1
    <3>3. marked' <= end' \/ \E j \in Nat : end' = at' + j * Step
      <4>1. CASE last
        <5>1. marked <= limit /\ limit <= to /\ end' = to
          BY <2>2, <2>7, <4>1
        <5>2. marked' <= end'
          BY <2>6, <2>7, <5>1
        <5> QED
          BY <5>2
      <4>2. CASE ~last
        BY <2>4, <4>2
      <4> QED
        BY <4>1, <4>2
    <3> QED
      BY <2>1, <3>1, <3>2, <3>3 DEF Known
  <2> QED
    BY <2>5, <2>8, <2>9 DEF Gen
<1>4. CASE phase # "again"
  <2>1. /\ phase' = "rules" /\ playing' = ~call.last
        /\ call' = NoCall /\ at' = 0
        /\ IF call.last THEN Forgotten ELSE UNCHANGED <<reached, cursor>>
        /\ UNCHANGED totals
    BY <1>4 DEF EndWindow
  <2>2. 0 \in Reach /\ Unstarted \in Cursors /\ NoCall \in [from : Reach, to : Reach, last : BOOLEAN]
    <3>1. 0 \in ShortInts /\ 0 \in Moments
      BY Reached, WordAssumption DEF ShortInts
    <3> QED
      BY <3>1, Reached DEF Unstarted, Cursors, NoCall
  <2>3. reached' \in Reach /\ cursor' \in Cursors
    BY <1>2, <2>1, <2>2 DEF Timed, Forgotten
  <2>4. playing' \in BOOLEAN
    BY <2>1
  <2>5. Timed'
    BY <1>1, <1>2, <2>1, <2>2, <2>3, <2>4 DEF Timed, totals
  <2>6. playing' => ~call.last /\ UNCHANGED <<reached, cursor>>
    BY <2>1
  <2>7. Course'
    BY <1>1, <1>2, <2>1, <2>6 DEF Gen, Course, totals
  <2>8. Known'
    BY <2>1 DEF Known
  <2> QED
    BY <2>5, <2>7, <2>8 DEF Gen
<1> QED
  BY <1>3, <1>4

LEMMA FurtherIs ==
  ASSUME NEW a \in Nat, NEW b \in Nat
  PROVE  /\ Further(a, b) \in {a, b} /\ Further(a, b) \in Nat
         /\ Further(a, b) >= a /\ Further(a, b) >= b
  BY DEF Further

LEMMA GenInsertMark ==
  ASSUME Gen, InsertMark
  PROVE  Gen'
<1>1. /\ reached \in Nat /\ marked \in Nat /\ limit \in Nat /\ end \in Nat
  BY Clocked DEF Gen
<1>2. PICK m \in Reach, q \in Reach :
        /\ m = Further(marked, end) /\ q = Further(limit, m)
        /\ m \in Nat /\ q \in Nat /\ m <= q /\ limit <= q
  <2>1. /\ Further(marked, end) \in Reach /\ Further(marked, end) \in Nat
    BY <1>1, FurtherIs DEF Gen, Timed
  <2>2. PICK m \in Reach : m = Further(marked, end) /\ m \in Nat
    BY <2>1
  <2>3. /\ Further(limit, m) \in Reach /\ Further(limit, m) \in Nat
        /\ Further(limit, m) >= m /\ Further(limit, m) >= limit
    BY <1>1, <2>2, FurtherIs DEF Gen, Timed
  <2> QED
    BY <2>2, <2>3
<1>3. /\ phase = "rules" /\ limit' = q
      /\ marked' = m \/ marked' = q
      /\ UNCHANGED <<streamVars, end, walkVars, callVars, frame, line>>
  BY <1>2 DEF InsertMark
<1>4. marked' \in Reach /\ marked' <= limit' /\ (end <= limit => end <= limit')
  BY <1>1, <1>2, <1>3
<1>5. Timed'
  BY <1>2, <1>3, <1>4 DEF Gen, Timed, walkVars, callVars
<1>6. Course'
  BY <1>3, <1>4 DEF Gen, Course, walkVars, callVars
<1>7. Known'
  BY <1>3 DEF Known, callVars
<1> QED
  BY <1>5, <1>6, <1>7 DEF Gen

LEMMA GenRestart ==
  ASSUME Gen, Restart
  PROVE  Gen'
<1>1. /\ phase = "rules" /\ playing' = FALSE /\ said' = TRUE
      /\ reached' = 0 /\ cursor' = Unstarted
      /\ UNCHANGED <<totals, at, phase, call, frame, line>>
  BY DEF Restart, Forgotten
<1>2. Unstarted \in Cursors /\ 0 \in Reach
  <2>1. 0 \in ShortInts /\ 0 \in Moments
    BY Reached, WordAssumption DEF ShortInts
  <2> QED
    BY <2>1, Reached DEF Unstarted, Cursors
<1>3. Timed'
  BY <1>1, <1>2 DEF Gen, Timed, totals
<1>4. Course'
  BY <1>1 DEF Gen, Course
<1>5. Known'
  BY <1>1 DEF Known
<1> QED
  BY <1>3, <1>4, <1>5 DEF Gen

-----------------------------------------------------------------------------
(* The marks.                                                              *)

Waits == [lead : Nat, place : Int]

Sound ==
  /\ marks \in Seq(Waits) /\ Len(marks) <= MaxMarks
  /\ handing \in Nat
  /\ interrupt \in BOOLEAN /\ stale \in BOOLEAN
  /\ short \in Nat /\ cut \in Nat
  /\ told \subseteq Int

(* What a count of moments makes, and what is lost on it.                  *)
LEMMA SamplesFit ==
  ASSUME NEW moments \in Nat
  PROVE  /\ Samples(moments) \in Nat /\ Rest(moments) \in Nat
         /\ Rest(moments) < Second /\ moments * Rate \in Nat
         /\ Samples(moments) * Second \in Nat
         /\ moments * Rate = Samples(moments) * Second + Rest(moments)
<1>1. PICK x \in Nat : x = moments * Rate
  BY RateAssumption, SMTT(30)
<1>2. PICK d \in Nat \ {0} : d = Second
  BY RateAssumption
<1>3. x \div d \in Nat /\ x % d \in 0..(d - 1) /\ x = d * (x \div d) + (x % d)
  BY Division
<1>4. PICK q \in Nat, rest \in 0..(d - 1) :
        q = x \div d /\ rest = x % d /\ x = d * q + rest
  BY <1>3
<1>5. q * d = d * q /\ q * d \in Nat
  BY SMTT(30)
<1> QED
  BY <1>1, <1>2, <1>4, <1>5 DEF Samples, Rest

(* The marks due are those at the head that wait for nothing.              *)
LEMMA DueIsAPrefix ==
  ASSUME NEW row \in Seq(Waits)
  PROVE  \E n \in 0..Len(row) :
           /\ Cardinality(DueOf(row)) = n
           /\ \A i \in 1..n : row[i].lead = 0
           /\ n < Len(row) => row[n + 1].lead # 0
<1> DEFINE Still == {i \in 1..Len(row) : row[i].lead # 0}
<1>1. PICK n \in 0..Len(row) :
        /\ \A i \in 1..n : row[i].lead = 0
        /\ n < Len(row) => row[n + 1].lead # 0
  <2>1. CASE Still = {}
    <3>1. \A i \in 1..Len(row) : row[i].lead = 0
      BY <2>1
    <3>2. Len(row) \in 0..Len(row) /\ ~(Len(row) < Len(row))
      OBVIOUS
    <3> QED
      BY <3>1, <3>2
  <2>2. CASE Still # {}
    <3>1. PICK k \in Still : \A j \in Still : k <= j
      <4>1. Still \in SUBSET Nat
        OBVIOUS
      <4> HIDE DEF Still
      <4> QED
        BY <2>2, <4>1, Least
    <3>2. k - 1 \in 0..Len(row) /\ (k - 1) + 1 = k /\ row[k].lead # 0
      OBVIOUS
    <3>3. \A i \in 1..(k - 1) : row[i].lead = 0
      <4>1. ASSUME NEW i \in 1..(k - 1), row[i].lead # 0 PROVE FALSE
        <5>1. i \in 1..Len(row) /\ k \in Nat /\ i < k
          OBVIOUS
        <5>2. i \in Still
          BY <4>1, <5>1
        <5>3. k <= i
          BY <3>1, <5>2
        <5> QED
          BY <5>1, <5>3
      <4> QED
        BY <4>1
    <3> QED
      BY <3>2, <3>3
  <2> QED
    BY <2>1, <2>2
<1>2. DueOf(row) = 1..n
  <2>1. ASSUME NEW i \in DueOf(row) PROVE i \in 1..n
    <3>1. i \in 1..Len(row) /\ \A j \in 1..i : row[j].lead = 0
      BY DEF DueOf
    <3>2. CASE i <= n
      BY <3>1, <3>2
    <3>3. CASE n < i
      <4>1. n < Len(row) /\ n + 1 \in 1..i
        BY <3>1, <3>3
      <4> QED
        BY <1>1, <3>1, <4>1
    <3> QED
      BY <3>1, <3>2, <3>3
  <2>2. ASSUME NEW i \in 1..n PROVE i \in DueOf(row)
    <3>1. i \in 1..Len(row) /\ \A j \in 1..i : j \in 1..n
      OBVIOUS
    <3> QED
      BY <1>1, <3>1 DEF DueOf
  <2> QED
    BY <2>1, <2>2
<1>3. Cardinality(1..n) = n
  <2>1. 1 \in Int /\ n \in Int /\ (IF 1 > n THEN 0 ELSE n - 1 + 1) = n
    OBVIOUS
  <2> QED
    BY <2>1, FS_Interval
<1> QED
  BY <1>1, <1>2, <1>3

LEMMA SoundInitially == IndexInit => Sound
<1> SUFFICES ASSUME IndexInit PROVE Sound
  OBVIOUS
<1>1. marks \in Seq(Waits)
  <2>1. <<>> \in Seq(Waits)
    OBVIOUS
  <2> QED
    BY <2>1 DEF IndexInit
<1>2. Len(marks) <= MaxMarks
  <2>1. Len(marks) = 0
    BY DEF IndexInit
  <2> QED
    BY <2>1, MarkAssumption
<1>3. /\ interrupt \in BOOLEAN /\ stale \in BOOLEAN
      /\ handing \in Nat /\ short \in Nat /\ cut \in Nat
  BY DEF IndexInit
<1>4. told \subseteq Int
  BY DEF IndexInit
<1> QED
  BY <1>1, <1>2, <1>3, <1>4 DEF Sound

LEMMA SinceIs ==
  ASSUME NEW count \in Nat
  PROVE  /\ Since(count) \in Nat
         /\ marks = <<>> => Since(count) = 0
         /\ marks # <<>> => Since(count) = count
  BY DEF Since

LEMMA SoundInsertMark ==
  ASSUME Gen, Sound, InsertMark
  PROVE  Sound'
<1>1. /\ reached \in Nat /\ marked \in Nat /\ limit \in Nat /\ end \in Nat
      /\ Rate \in Nat
  BY Clocked, RateAssumption DEF Gen
<1>2. PICK m \in Nat, q \in Nat :
        m = Further(marked, end) /\ q = Further(limit, m) /\ m <= q
  <2>1. PICK m \in Nat : m = Further(marked, end)
    BY <1>1, FurtherIs
  <2>2. Further(limit, m) \in Nat /\ Further(limit, m) >= m
    BY <1>1, FurtherIs
  <2> QED
    BY <2>1, <2>2
<1>3. PICK ahead \in Int : ahead = IF playing THEN limit - end ELSE 0
  <2>1. limit - end \in Int /\ 0 \in Int
    BY <1>1
  <2> QED
    BY <2>1, Zenon
<1>4. PICK place \in Int : place = ahead * Rate
  BY <1>1, SMTT(30)
<1>5. interrupt' = interrupt /\ handing' = handing
  BY DEF InsertMark, soundVars
<1>6. CASE m = q /\ m = end
  <2>1. told' = {place} /\ UNCHANGED soundVars
    BY <1>2, <1>3, <1>4, <1>6 DEF InsertMark
  <2> QED
    BY <1>4, <1>5, <2>1 DEF Sound, soundVars, historyVars
<1>7. CASE ~(m = q /\ m = end)
  <2>1. /\ Len(marks) < MaxMarks
        /\ marks' = Append(marks, [lead |-> Samples(q - m), place |-> place])
        /\ short' = Since(short)
        /\ cut' = Since(cut) + Rest(q - m)
        /\ stale' = ((marks # <<>> /\ stale) \/ ~playing)
        /\ told' = {}
    BY <1>2, <1>3, <1>4, <1>7 DEF InsertMark
  <2>2. q - m \in Nat
    BY <1>2
  <2>3. Samples(q - m) \in Nat /\ Rest(q - m) \in Nat
    BY <2>2, SamplesFit
  <2>4. [lead |-> Samples(q - m), place |-> place] \in Waits
    BY <1>4, <2>3 DEF Waits
  <2>5. marks' \in Seq(Waits) /\ Len(marks') <= MaxMarks
    BY <2>1, <2>4, MarkAssumption DEF Sound
  <2>6. short' \in Nat /\ Since(cut) \in Nat
    BY <2>1, SinceIs DEF Sound
  <2>7. cut' \in Nat
    BY <2>1, <2>3, <2>6
  <2>8. stale' \in BOOLEAN
    BY <2>1
  <2> QED
    BY <1>5, <2>1, <2>5, <2>6, <2>7, <2>8 DEF Sound
<1> QED
  BY <1>6, <1>7

(* A piece, and the row of marks it leaves.                                *)
LEMMA Pieces ==
  ASSUME Sound, handing > 0
  PROVE  /\ Piece \in Nat /\ Piece <= handing
         /\ marks # <<>> => Piece <= marks[1].lead
         /\ marks # <<>> /\ Piece # handing => Piece = marks[1].lead
         /\ Reduced(Piece) \in Seq(Waits)
         /\ Len(Reduced(Piece)) = Len(marks)
         /\ \A i \in 1..Len(marks) :
              /\ Reduced(Piece)[i].lead =
                   IF i = 1 THEN marks[i].lead - Piece ELSE marks[i].lead
              /\ Reduced(Piece)[i].place = marks[i].place - Piece * Second
<1>1. marks \in Seq(Waits) /\ handing \in Nat /\ Second \in Nat
  BY RateAssumption DEF Sound
<1>2. marks # <<>> => /\ Head(marks) = marks[1]
                      /\ marks[1].lead \in Nat
  <2> SUFFICES ASSUME marks # <<>>
               PROVE  Head(marks) = marks[1] /\ marks[1].lead \in Nat
    OBVIOUS
  <2>1. Head(marks) = marks[1] /\ marks[1] \in Waits
    BY <1>1, TailFacts
  <2> QED
    BY <2>1 DEF Waits
<1>3. PICK p \in Nat :
        /\ p = Piece /\ p <= handing
        /\ marks # <<>> => p <= marks[1].lead
        /\ marks # <<>> /\ p # handing => p = marks[1].lead
  BY <1>1, <1>2 DEF Piece
<1>4. PICK away \in Nat : away = p * Second
  BY <1>1, SMTT(30)
<1>5. Reduced(p) = [i \in 1..Len(marks) |->
                      [lead |-> IF i = 1 THEN marks[i].lead - p ELSE marks[i].lead,
                       place |-> marks[i].place - away]]
  <2>1. DOMAIN marks = 1..Len(marks)
    BY <1>1
  <2> QED
    BY <1>4, <2>1 DEF Reduced
<1>6. ASSUME NEW i \in 1..Len(marks)
      PROVE  [lead |-> IF i = 1 THEN marks[i].lead - p ELSE marks[i].lead,
              place |-> marks[i].place - away] \in Waits
  <2>1. marks[i] \in Waits /\ marks # <<>>
    BY <1>1, <1>6
  <2>2. marks[i].lead \in Nat /\ marks[i].place \in Int
    BY <2>1 DEF Waits
  <2>3. i = 1 => marks[i].lead - p \in Nat
    BY <1>3, <2>1, <2>2
  <2>4. marks[i].place - away \in Int
    BY <1>4, <2>2
  <2> QED
    BY <2>2, <2>3, <2>4 DEF Waits
<1>7. Reduced(p) \in Seq(Waits) /\ Len(Reduced(p)) = Len(marks)
  <2>1. Reduced(p) \in [1..Len(marks) -> Waits]
    BY <1>5, <1>6
  <2>2. Len(marks) \in Nat
    BY <1>1
  <2> QED
    BY <2>1, <2>2
<1>8. ASSUME NEW i \in 1..Len(marks)
      PROVE  /\ Reduced(p)[i].lead = IF i = 1 THEN marks[i].lead - p ELSE marks[i].lead
             /\ Reduced(p)[i].place = marks[i].place - p * Second
  BY <1>4, <1>5
<1> QED
  BY <1>3, <1>7, <1>8

(* What is handed over, and the marks that were due with it.               *)
LEMMA HandedPiece ==
  ASSUME Sound, HandPiece
  PROVE  \E n \in 0..Len(marks) :
           /\ handing' = handing - Piece /\ handing' \in Nat
           /\ marks' \in Seq(Waits) /\ Len(marks') = Len(marks) - n
           /\ \A i \in 1..(Len(marks) - n) : marks'[i] = Reduced(Piece)[i + n]
           /\ told' = {Reduced(Piece)[i].place : i \in 1..n}
           /\ \A i \in 1..n : Reduced(Piece)[i].lead = 0
           /\ n < Len(marks) => Reduced(Piece)[n + 1].lead # 0
<1>1. /\ Piece \in Nat /\ Piece <= handing /\ handing \in Nat
      /\ Reduced(Piece) \in Seq(Waits)
      /\ Len(Reduced(Piece)) = Len(marks)
  BY Pieces DEF HandPiece, Sound
<1>2. PICK row \in Seq(Waits) : row = Reduced(Piece) /\ Len(row) = Len(marks)
  BY <1>1
<1>3. PICK n \in 0..Len(row) :
        /\ Cardinality(DueOf(row)) = n
        /\ \A i \in 1..n : row[i].lead = 0
        /\ n < Len(row) => row[n + 1].lead # 0
  BY DueIsAPrefix
<1>4. /\ handing' = handing - Piece
      /\ marks' = SubSeq(row, n + 1, Len(row))
      /\ told' = {row[i].place : i \in 1..n}
  BY <1>2, <1>3 DEF HandPiece
<1>5. /\ marks' \in Seq(Waits) /\ Len(marks') = Len(row) - n
      /\ \A i \in 1..(Len(row) - n) : marks'[i] = row[i + n]
  BY <1>4
<1> QED
  BY <1>1, <1>2, <1>3, <1>4, <1>5

LEMMA SoundHandPiece ==
  ASSUME Sound, HandPiece
  PROVE  Sound'
<1>1. PICK n \in 0..Len(marks) :
        /\ handing' \in Nat
        /\ marks' \in Seq(Waits) /\ Len(marks') = Len(marks) - n
        /\ told' = {Reduced(Piece)[i].place : i \in 1..n}
  BY HandedPiece
<1>2. Reduced(Piece) \in Seq(Waits) /\ Len(Reduced(Piece)) = Len(marks)
  BY Pieces DEF HandPiece
<1>3. told' \subseteq Int
  <2>1. ASSUME NEW i \in 1..n PROVE Reduced(Piece)[i].place \in Int
    <3>1. i \in 1..Len(marks)
      BY DEF Sound
    <3>2. Reduced(Piece)[i] \in Waits
      BY <1>2, <3>1
    <3> QED
      BY <3>2 DEF Waits
  <2> QED
    BY <1>1, <2>1
<1>4. Len(marks') <= MaxMarks
  BY <1>1, MarkAssumption DEF Sound
<1> QED
  BY <1>1, <1>3, <1>4 DEF Sound, HandPiece, historyVars

LEMMA SoundFrameMade ==
  ASSUME Gen, Sound, FrameMade
  PROVE  Sound'
<1>1. frame # NoFrame /\ UNCHANGED <<marks, handing, interrupt>>
      /\ stale' = (marks # <<>> /\ stale) /\ told' = {} /\ cut' = Since(cut)
  BY DEF FrameMade, NextFrame
<1>2. frame.length \in Nat /\ at < end
  BY <1>1 DEF Gen, Course, Frames
<1>3. Covered \in Nat /\ Rate \in Nat /\ Second \in Nat
  BY <1>2, LengthIsAStep, RateAssumption
<1>4. PICK asked \in Nat : asked = Covered * Rate
  BY <1>3, SMTT(30)
<1>5. PICK made \in Nat : made = Samples(frame.length) * Second
  BY <1>2, SamplesFit
<1>6. PICK more \in Nat : more = Further(asked, made) - made
  <2>1. Further(asked, made) \in Nat /\ Further(asked, made) >= made
    BY FurtherIs
  <2> QED
    BY <2>1
<1>7. short + more \in Nat /\ cut \in Nat
  BY DEF Sound
<1>8. short' = Since(short + more)
  BY <1>4, <1>5, <1>6 DEF FrameMade
<1>9. short' \in Nat /\ cut' \in Nat
  BY <1>1, <1>7, <1>8, SinceIs
<1>10. stale' \in BOOLEAN
  BY <1>1
<1> QED
  BY <1>1, <1>9, <1>10 DEF Sound

LEMMA SoundSendFrame ==
  ASSUME Gen, Sound, SendFrame
  PROVE  Sound'
<1>1. Gen' /\ frame' # NoFrame /\ frame'.length = Length
  <2>1. Gen'
    BY GenMakeFrame DEF SendFrame
  <2>2. frame'.length = Length /\ frame'.at = at /\ at < end
    BY DEF SendFrame, MakeFrame, InWindow
  <2>3. at \in Nat
    BY DEF Gen, Timed
  <2>4. frame' # NoFrame
    BY <2>2, <2>3 DEF NoFrame
  <2> QED
    BY <2>1, <2>2, <2>4
<1>2. frame'.length \in Nat
  BY <1>1 DEF Gen, Course, Frames
<1>3. handing' \in Nat
  <2>1. handing' = Samples(frame'.length)
    BY DEF SendFrame
  <2> QED
    BY <1>2, <2>1, SamplesFit
<1> QED
  BY <1>3 DEF Sound, SendFrame, historyVars

LEMMA SoundStands ==
  ASSUME Sound, UNCHANGED <<soundVars, interrupt>>, told' \subseteq Int
  PROVE  Sound'
  BY DEF Sound, soundVars, historyVars

LEMMA SoundNone ==
  ASSUME NoneWait, UNCHANGED handing, told' = {}, handing \in Nat,
         interrupt' \in BOOLEAN
  PROVE  Sound'
<1>1. <<>> \in Seq(Waits) /\ Len(<<>>) <= MaxMarks
  BY MarkAssumption
<1>2. marks' \in Seq(Waits) /\ Len(marks') <= MaxMarks
  BY <1>1 DEF NoneWait
<1>3. short' \in Nat /\ cut' \in Nat /\ stale' \in BOOLEAN
  BY DEF NoneWait
<1>4. told' \subseteq Int
  OBVIOUS
<1> QED
  BY <1>2, <1>3, <1>4 DEF Sound

-----------------------------------------------------------------------------
(* All of it together.                                                     *)

MarksInv == StreamInv /\ Gen /\ Sound

LEMMA MarksInitially == MarksInit => MarksInv
  BY StreamInit, GenInitially, SoundInitially DEF MarksInit, MarksInv

LEMMA MarksStep ==
  ASSUME HalfWordGaps
  PROVE  MarksInv /\ [MarksNext]_allVars => MarksInv'
<1> SUFFICES ASSUME MarksInv, [MarksNext]_allVars PROVE MarksInv'
  OBVIOUS
<1> USE DEF MarksInv
<1>1. ASSUME NEW gap \in Gaps, NEW value \in Values, Rules(WritePoint(gap, value))
      PROVE  MarksInv'
  <2>1. /\ WritePoint(gap, value) /\ told' = {}
        /\ UNCHANGED <<soundVars, interrupt>>
    BY <1>1 DEF Rules
  <2>2. StreamInv'
    BY <2>1, StreamAppend DEF WritePoint
  <2>3. Gen'
    BY <2>1, <2>2, GenWrite
  <2> QED
    BY <2>1, <2>2, <2>3, SoundStands
<1>2. CASE Rules(StartOver)
  <2>1. /\ StartOver /\ told' = {} /\ UNCHANGED <<soundVars, interrupt>>
    BY <1>2 DEF Rules
  <2>2. StreamInv'
    BY <2>1, StreamClear DEF StartOver
  <2>3. Gen'
    <3>1. /\ UNCHANGED <<totals, walkVars, playing, phase, call, frame>>
          /\ said' \in BOOLEAN /\ line' = <<>> /\ phase = "rules"
      BY <2>1 DEF StartOver
    <3>2. line' \in Seq(Spots)
      <4>1. <<>> \in Seq(Spots)
        OBVIOUS
      <4> QED
        BY <3>1, <4>1
    <3> QED
      BY <3>1, <3>2, GenStands
  <2> QED
    BY <2>1, <2>2, <2>3, SoundStands
<1>3. ASSUME NEW to \in Asks, NEW last \in BOOLEAN, NEW changed \in BOOLEAN,
             Rules(Synthesize(to, last, changed))
      PROVE  MarksInv'
  <2>1. /\ Synthesize(to, last, changed) /\ told' = {}
        /\ UNCHANGED <<soundVars, interrupt>>
    BY <1>3 DEF Rules
  <2>2. StreamInv'
    BY <2>1, StreamStands DEF Synthesize
  <2>3. Gen'
    BY <2>1, GenSynthesize
  <2> QED
    BY <2>1, <2>2, <2>3, SoundStands
<1>4. CASE InsertMark
  <2>1. StreamInv'
    BY <1>4, StreamStands DEF InsertMark
  <2> QED
    BY <1>4, <2>1, GenInsertMark, SoundInsertMark
<1>5. CASE Flush
  <2>1. /\ UNCHANGED <<streamVars, generatorVars, handing, interrupt>>
        /\ NoneWait /\ told' = {}
    BY <1>5 DEF Flush
  <2>2. StreamInv'
    BY <2>1, StreamStands
  <2>3. Gen'
    BY <2>1, GenStands DEF Gen, Timed, generatorVars, callVars, streamVars
  <2>4. Sound'
    BY <2>1, SoundNone DEF Sound
  <2> QED
    BY <2>2, <2>3, <2>4
<1>6. CASE Rules(Walk)
  <2>1. /\ Walk /\ told' = {} /\ UNCHANGED <<soundVars, interrupt>>
    BY <1>6 DEF Rules
  <2>2. StreamInv'
    BY <2>1, StreamFetch DEF Walk
  <2>3. Gen'
    BY <2>1, GenWalk
  <2> QED
    BY <2>1, <2>2, <2>3, SoundStands
<1>7. CASE SendFrame
  <2>1. StreamInv'
    BY <1>7, StreamForgets DEF SendFrame, MakeFrame
  <2>2. Gen'
    BY <1>7, GenMakeFrame DEF SendFrame
  <2> QED
    BY <1>7, <2>1, <2>2, SoundSendFrame
<1>8. CASE HandPiece
  <2>1. UNCHANGED <<streamVars, generatorVars>>
    BY <1>8 DEF HandPiece
  <2>2. StreamInv'
    BY <2>1, StreamStands
  <2>3. Gen'
    BY <2>1, GenStands DEF Gen, Timed, generatorVars, callVars, streamVars
  <2> QED
    BY <1>8, <2>2, <2>3, SoundHandPiece
<1>9. CASE FrameMade
  <2>1. StreamInv'
    BY <1>9, StreamStands DEF FrameMade, NextFrame
  <2>2. Gen'
    BY <1>9, GenNextFrame DEF FrameMade
  <2> QED
    BY <1>9, <2>1, <2>2, SoundFrameMade
<1>10. CASE WindowEnds
  <2>1. EndWindow /\ told' = {} /\ UNCHANGED <<soundVars, interrupt>>
    BY <1>10 DEF WindowEnds
  <2>2. StreamInv'
    BY <2>1, StreamStands DEF EndWindow
  <2>3. Gen'
    BY <2>1, GenEndWindow
  <2> QED
    BY <2>1, <2>2, <2>3, SoundStands
<1>11. CASE Interrupt
  <2>1. /\ UNCHANGED <<streamVars, generatorVars, soundVars>>
        /\ told' = {} /\ interrupt' = TRUE
    BY <1>11 DEF Interrupt
  <2>2. StreamInv'
    BY <2>1, StreamStands
  <2>3. Gen'
    BY <2>1, GenStands DEF Gen, Timed, generatorVars, callVars, streamVars
  <2>4. Sound'
    BY <2>1 DEF Sound, soundVars, historyVars
  <2> QED
    BY <2>2, <2>3, <2>4
<1>12. CASE Restart
  <2>1. StreamInv'
    BY <1>12, StreamStands DEF Restart
  <2>2. Gen'
    BY <1>12, GenRestart
  <2>3. Sound'
    BY <1>12, SoundNone DEF Restart, Sound
  <2> QED
    BY <2>1, <2>2, <2>3
<1>13. CASE UNCHANGED allVars
  <2>1. UNCHANGED <<streamVars, generatorVars, indexVars>>
    BY <1>13 DEF allVars
  <2>2. StreamInv'
    BY <2>1, StreamStands
  <2>3. Gen'
    BY <2>1, GenStands DEF Gen, Timed, generatorVars, callVars, streamVars
  <2>4. Sound'
    BY <2>1 DEF Sound, indexVars, soundVars, historyVars
  <2> QED
    BY <2>2, <2>3, <2>4
<1> QED
  BY <1>1, <1>2, <1>3, <1>4, <1>5, <1>6, <1>7, <1>8, <1>9, <1>10, <1>11, <1>12,
     <1>13 DEF MarksNext

(* Whatever is written, asked for and interrupted: the stream holds what   *)
(* is owed, every moment fits in the word it is kept in, the windows       *)
(* follow each other to what was asked for, what a window needs of the     *)
(* stream is there unless it is the last, and no mark waits for less than  *)
(* nothing.                                                                *)
THEOREM MarksInvCorrect ==
  ASSUME HalfWordGaps PROVE MarksSpec => []MarksInv
  BY MarksInitially, MarksStep, PTL DEF MarksSpec

LEMMA MarksAreTyped == MarksInv => MarksTypeOK
<1> SUFFICES ASSUME MarksInv PROVE MarksTypeOK
  OBVIOUS
<1>1. TypeOK
  BY StreamIsTyped DEF MarksInv
<1>2. GeneratorTypeOK
  <2>1. /\ playing \in BOOLEAN /\ said \in BOOLEAN
        /\ phase \in {"rules", "again", "speak"} /\ cursor \in Cursors
    BY DEF MarksInv, Gen, Timed
  <2>2. /\ reached \in Moments /\ marked \in Moments
        /\ limit \in Moments /\ end \in Moments /\ call \in Calls
    <3>1. Reach \subseteq Moments
      BY Reached
    <3>2. [from : Reach, to : Reach, last : BOOLEAN] \subseteq Calls
      BY <3>1 DEF Calls
    <3> QED
      BY <3>1, <3>2 DEF MarksInv, Gen, Timed
  <2>3. at \in Moments
    <3>1. at \in Nat /\ end \in Reach /\ 0 \in Moments
      BY Reached DEF MarksInv, Gen, Timed
    <3>2. phase = "rules" => at = 0
      BY DEF MarksInv, Gen, Course
    <3>3. phase # "rules" => at < end + Step
      BY DEF MarksInv, Gen, Course
    <3> QED
      BY <3>1, <3>2, <3>3, Reached
  <2>4. frame \in [at : Moments \cup {-1}, value : ShortInts, length : Nat]
    <3>1. NoFrame \in [at : Moments \cup {-1}, value : ShortInts, length : Nat]
      BY WordAssumption DEF NoFrame, ShortInts
    <3>2. frame = NoFrame \/ frame \in Frames
      BY DEF MarksInv, Gen, Course
    <3> QED
      BY <3>1, <3>2 DEF Frames
  <2>5. line \in Seq([moment : Moments, value : ShortInts])
    <3>1. Spots \subseteq [moment : Moments, value : ShortInts]
      BY InMoments, ValueAssumption DEF Spots
    <3> QED
      BY <3>1, WiderSeq DEF MarksInv, Gen, Timed
  <2> QED
    BY <2>1, <2>2, <2>3, <2>4, <2>5 DEF GeneratorTypeOK
<1> QED
  BY <1>1, <1>2 DEF MarksInv, Sound, Waits, MarksTypeOK

(* Whatever is written, asked for and interrupted, every variable of the   *)
(* stream, of the generator and of the marks is of the shape it is         *)
(* declared with: no moment of a window and no value of a frame is wider   *)
(* than its field, and no mark waits for less than nothing.                *)
THEOREM MarksTypeCorrect ==
  ASSUME HalfWordGaps PROVE MarksSpec => []MarksTypeOK
  BY MarksInvCorrect, MarksAreTyped, PTL

-----------------------------------------------------------------------------
(* Where the cursor is on the line.  What has been taken of the line is    *)
(* what is not in the stream any more.                                     *)

Taken == Len(line) - Len(points)

(* The cursor is between the last two points taken, or before the first.   *)
Beside ==
  /\ Taken > 0 /\ line[Taken] = [moment |-> cursor.r, value |-> cursor.vr]
  /\ Taken = 1 => cursor.vl = cursor.vr
  /\ Taken # 1 => /\ line[Taken - 1] = [moment |-> cursor.l, value |-> cursor.vl]
                  /\ cursor.l < reached
                  /\ phase # "rules" => cursor.l < at

(* It is beyond the last, in the last window of the utterance.             *)
RunOut ==
  /\ points = <<>> /\ cursor.vl = cursor.vr
  /\ phase = "speak" /\ call.last /\ cursor.r = end
  /\ line = <<>> => cursor.vr = 0
  /\ line # <<>> => cursor.vr = line[Len(line)].value /\ written < at

OnLine ==
  /\ Taken \in Nat
  /\ \A i \in 1..Len(points) :
       line[Taken + i] = [moment |-> Back(i), value |-> points[i].value]
  /\ \A i, j \in 1..Len(line) : i <= j => line[i].moment <= line[j].moment
  /\ line = <<>> => written = 0
  /\ line # <<>> => line[Len(line)].moment = written
  /\ (~playing /\ ~said) \/ (playing /\ cursor.r = -1) => Taken = 0
  /\ playing /\ cursor.r # -1 => Beside \/ RunOut

LineInv == skipped = 0 => OnLine

LEMMA OnLineStands ==
  ASSUME OnLine,
         UNCHANGED <<line, points, written, playing, said, cursor, reached,
                     phase, at, call, end>>
  PROVE  OnLine'
  BY DEF OnLine, Taken, Beside, RunOut, Back

(* The points there are on the line, with their moments.                   *)
LEMMA Spotted ==
  ASSUME StreamInv, Gen
  PROVE  /\ Len(line) \in Nat /\ Len(points) \in Nat
         /\ \A i \in 1..Len(line) : line[i] \in Spots /\ line[i].moment \in Nat
         /\ written \in Nat
<1>1. line \in Seq(Spots) /\ MaxMoment \in Nat
  BY MomentAssumption DEF Gen, Timed
<1>2. \A i \in 1..Len(line) : line[i] \in Spots
  BY <1>1
<1>3. \A i \in 1..Len(line) : line[i].moment \in Nat
  BY <1>1, <1>2 DEF Spots
<1> QED
  BY <1>1, <1>2, <1>3 DEF StreamInv, Clocks

LEMMA LineInitially ==
  ASSUME Init, GeneratorInit
  PROVE  OnLine
<1>1. Len(line) = 0 /\ Len(points) = 0 /\ line = <<>> /\ written = 0 /\ ~playing
  BY DEF Init, GeneratorInit
<1>2. Taken = 0
  BY <1>1 DEF Taken
<1> QED
  BY <1>1, <1>2 DEF OnLine

LEMMA LineWrite ==
  ASSUME StreamInv, Gen, OnLine, skipped = 0,
         NEW gap \in Gaps, NEW value \in Values, WritePoint(gap, value),
         skipped' = 0
  PROVE  OnLine'
<1>1. /\ phase = "rules" /\ ~said /\ AppendValue(gap, value)
      /\ UNCHANGED <<totals, walkVars, callVars, frame>>
      /\ UNCHANGED <<playing, said, cursor, reached, phase, at, call, end>>
  BY DEF WritePoint, totals, walkVars, callVars
<1>2. PICK m \in Nat, n \in Nat :
        m = Len(line) /\ n = Len(points) /\ Taken = m - n /\ m >= n
        /\ line \in Seq(Spots)
        /\ points \in Seq([moment : 0..MaxMoment, value : Values, skipped : 0..MaxMoment])
        /\ written \in Nat /\ gap \in Nat
  BY GapAssumption, Spotted DEF OnLine, Taken, Gen, Timed, StreamInv, Clocks
<1>3. CASE points' = points
  <2>1. line' = line /\ written' = written + gap
    BY <1>1, <1>3 DEF WritePoint, AppendValue
  <2>2. skipped' = skipped + gap
    <3>1. \/ points' = Append(points, [moment |-> written + gap, value |-> value,
                                       skipped |-> skipped])
          \/ skipped' = skipped + gap
      BY <1>1 DEF AppendValue
    <3>2. points' # Append(points, [moment |-> written + gap, value |-> value,
                                    skipped |-> skipped])
      BY <1>2, <1>3
    <3> QED
      BY <3>1, <3>2
  <2>3. written' = written
    BY <1>2, <2>1, <2>2
  <2> QED
    BY <1>1, <1>3, <2>1, <2>3, OnLineStands
<1>4. CASE points' # points
  <2>1. /\ points' = Append(points, [moment |-> written + gap, value |-> value,
                                     skipped |-> skipped])
        /\ written' = written + gap
    BY <1>1, <1>4 DEF AppendValue
  <2>2. line' = Append(line, [moment |-> written', value |-> value])
    <3>1. written' - skipped = written'
      BY <1>2, <2>1
    <3> QED
      BY <1>4, <3>1 DEF WritePoint
  <2>3. /\ Len(line') = m + 1 /\ Len(points') = n + 1
        /\ \A i \in 1..m : line'[i] = line[i]
        /\ line'[m + 1] = [moment |-> written', value |-> value]
        /\ \A i \in 1..n : points'[i] = points[i]
        /\ points'[n + 1] = [moment |-> written + gap, value |-> value,
                             skipped |-> skipped]
    BY <1>2, <2>1, <2>2
  <2>4. Taken' = m - n /\ Taken' = Taken
    BY <1>2, <2>3 DEF Taken
  <2>5. ASSUME NEW i \in 1..Len(points')
        PROVE  line'[Taken' + i] = [moment |-> Back(i)', value |-> points'[i].value]
    <3>1. CASE i \in 1..n
      <4>1. m - n + i \in 1..m /\ i # 0
        BY <1>2, <3>1
      <4>2. Back(i)' = Back(i)
        BY <2>3, <3>1, <4>1 DEF Back
      <4>3. line[m - n + i] = [moment |-> Back(i), value |-> points[i].value]
        BY <1>2, <3>1 DEF OnLine
      <4> QED
        BY <2>3, <2>4, <3>1, <4>1, <4>2, <4>3
    <3>2. CASE i = n + 1
      <4>1. Back(i)' = written + gap
        <5>1. i # 0 /\ points'[i].moment = written + gap /\ points'[i].skipped = 0
          BY <1>2, <2>3, <3>2
        <5>2. Back(i)' = points'[i].moment - points'[i].skipped
          BY <5>1 DEF Back
        <5> QED
          BY <1>2, <5>1, <5>2
      <4>2. m - n + i = m + 1
        BY <1>2, <3>2
      <4> QED
        BY <2>1, <2>3, <2>4, <3>2, <4>1, <4>2
    <3> QED
      BY <1>2, <2>3, <3>1, <3>2
  <2>6. ASSUME NEW i \in 1..Len(line'), NEW j \in 1..Len(line'), i <= j
        PROVE  line'[i].moment <= line'[j].moment
    <3>1. CASE j \in 1..m
      <4>1. i \in 1..m
        BY <1>2, <2>6, <3>1
      <4> QED
        BY <1>2, <2>3, <2>6, <3>1, <4>1 DEF OnLine
    <3>2. CASE j = m + 1 /\ i = m + 1
      BY <2>1, <1>2, <2>3, <3>2
    <3>3. CASE j = m + 1 /\ i \in 1..m
      <4>1. line[i].moment <= line[m].moment /\ line[m].moment = written
        BY <1>2, <3>3 DEF OnLine
      <4>2. line[i].moment \in Nat
        BY <1>2, <3>3, Spotted
      <4> QED
        BY <1>2, <2>1, <2>3, <3>3, <4>1, <4>2
    <3> QED
      BY <1>2, <2>3, <3>1, <3>2, <3>3
  <2>7. line' # <<>> /\ line'[Len(line')].moment = written'
    BY <1>2, <2>3
  <2>8. playing' /\ cursor'.r # -1 => Beside'
    <3> SUFFICES ASSUME playing, cursor.r # -1 PROVE Beside'
      BY <1>1
    <3>1. Beside
      BY <1>1 DEF OnLine, RunOut
    <3>2. Taken \in 1..m
      BY <1>2, <3>1 DEF Beside
    <3>3. line'[Taken] = line[Taken]
      BY <2>3, <3>2
    <3>4. Taken # 1 => line'[Taken - 1] = line[Taken - 1]
      <4>1. Taken # 1 => Taken - 1 \in 1..m
        BY <1>2, <3>2
      <4> QED
        BY <2>3, <4>1
    <3> QED
      BY <1>1, <2>4, <3>1, <3>3, <3>4 DEF Beside
  <2>9. (~playing' /\ ~said') \/ (playing' /\ cursor'.r = -1) => Taken' = 0
    BY <1>1, <2>4 DEF OnLine
  <2>10. Taken' \in Nat
    BY <1>2, <2>4
  <2> QED
    BY <2>5, <2>6, <2>7, <2>8, <2>9, <2>10 DEF OnLine
<1> QED
  BY <1>3, <1>4

LEMMA LineStartOver ==
  ASSUME StartOver
  PROVE  OnLine'
<1>1. /\ line' = <<>> /\ points' = <<>> /\ written' = 0 /\ ~playing'
  BY DEF StartOver, Clear
<1>2. Len(line') = 0 /\ Len(points') = 0
  BY <1>1
<1>3. Taken' = 0
  BY <1>2 DEF Taken
<1> QED
  BY <1>1, <1>2, <1>3 DEF OnLine

(* A call of synthesize leaves the cursor where it is, unless it is the    *)
(* first, and the window it begins is ahead of it.                         *)
LEMMA LineSynthesize ==
  ASSUME StreamInv, Gen, OnLine, NEW to \in Asks, NEW last \in BOOLEAN,
         NEW changed \in BOOLEAN, Synthesize(to, last, changed), Gen'
  PROVE  OnLine'
<1>1. /\ phase = "rules" /\ ~said /\ playing' = TRUE /\ phase' # "rules"
      /\ UNCHANGED <<line, points, written>>
  BY DEF Synthesize, streamVars
<1>2. /\ Taken' = Taken
      /\ \A i \in 1..Len(points) : Back(i)' = Back(i)
  BY <1>1 DEF Taken, Back
<1>3. CASE ~playing
  <2>1. ~changed
    BY <1>3 DEF Synthesize
  <2>2. Window(From, to, ~playing, last)
    BY <2>1 DEF Synthesize
  <2>3. cursor' = Unstarted
    BY <1>3, <2>2 DEF Window
  <2>4. cursor'.r = -1
    BY <2>3 DEF Unstarted
  <2>5. Taken = 0
    BY <1>1, <1>3 DEF OnLine
  <2> QED
    BY <1>1, <1>2, <2>4, <2>5 DEF OnLine
<1>4. CASE playing
  <2>1. cursor' = cursor /\ at' = reached
    <3>1. CASE changed
      <4>1. Window(From, From, FALSE, TRUE)
        BY <3>1 DEF Synthesize
      <4> QED
        BY <4>1 DEF Window
    <3>2. CASE ~changed
      <4>1. Window(From, to, ~playing, last)
        BY <3>2 DEF Synthesize
      <4> QED
        BY <1>4, <4>1 DEF Window
    <3> QED
      BY <3>1, <3>2
  <2>2. at' <= reached'
    <3>1. /\ (IF playing THEN FALSE ELSE TRUE) = FALSE
          /\ reached \in Reach /\ reached \in Nat /\ limit \in Reach /\ limit \in Nat
          /\ reached <= limit /\ cursor.l <= reached /\ From = limit /\ written \in Nat
          /\ Timed
      BY <1>4, Clocked, Spotted DEF Gen, Timed, Course, From
    <3>2. to \in Reach /\ limit <= to /\ to \in Nat
      <4>1. to >= limit
        BY <3>1 DEF Synthesize
      <4> QED
        BY <3>1, <4>1, Reached
    <3>3. CASE changed
      <4>1. PICK anew \in BOOLEAN, exact \in BOOLEAN :
              /\ Window(limit, limit, anew, exact) /\ ~anew
        <5>1. Window(limit, limit, FALSE, TRUE)
          BY <3>1, <3>3 DEF Synthesize
        <5> QED
          BY <5>1, Zenon
      <4>2. (IF anew THEN limit ELSE reached) <= limit /\ (anew \/ cursor.l <= reached)
        BY <3>1, <4>1
      <4>3. at' <= end' /\ reached' = end'
        BY <3>1, <4>1, <4>2, WindowFits
      <4> QED
        BY <4>3
    <3>4. CASE ~changed
      <4>1. PICK anew \in BOOLEAN :
              /\ Window(limit, to, anew, last) /\ ~anew
        <5>1. Window(limit, to, FALSE, last)
          BY <1>4, <3>1, <3>4 DEF Synthesize
        <5> QED
          BY <5>1, Zenon
      <4>2. (IF anew THEN limit ELSE reached) <= to /\ (anew \/ cursor.l <= reached)
        BY <3>1, <3>2, <4>1
      <4>3. at' <= end' /\ reached' = end'
        BY <3>1, <3>2, <4>1, <4>2, WindowFits
      <4> QED
        BY <4>3
    <3> QED
      BY <3>3, <3>4
  <2>3. cursor.r # -1 => Beside'
    <3> SUFFICES ASSUME cursor.r # -1 PROVE Beside'
      OBVIOUS
    <3>1. Beside
      BY <1>1, <1>4 DEF OnLine, RunOut
    <3>2. Taken # 1 => cursor.l < at' /\ cursor.l < reached'
      <4>1. /\ cursor.l \in Nat /\ reached \in Nat /\ reached' \in Nat
        BY Clocked, ClockedNext DEF Gen
      <4>2. Taken # 1 => cursor.l < reached
        BY <3>1 DEF Beside
      <4> QED
        BY <2>1, <2>2, <4>1, <4>2
    <3> QED
      BY <1>1, <1>2, <2>1, <3>1, <3>2 DEF Beside
  <2>4. cursor.r = -1 => Taken = 0
    BY <1>4 DEF OnLine
  <2> QED
    BY <1>1, <1>2, <2>1, <2>3, <2>4 DEF OnLine
<1> QED
  BY <1>3, <1>4

(* The cursor takes the next point, or runs out.                           *)
LEMMA LineWalk ==
  ASSUME StreamInv, Gen, OnLine, Walk
  PROVE  OnLine'
<1>1. /\ at < end /\ at > cursor.r /\ phase # "rules"
      /\ FetchNext /\ cursor' = Stepped(got')
      /\ UNCHANGED <<totals, reached, at, callVars, frame, line>>
      /\ UNCHANGED <<line, playing, said, reached, phase, at, call, end>>
  BY DEF Walk, InWindow, totals, callVars
<1>2. PICK m \in Nat, n \in Nat :
        m = Len(line) /\ n = Len(points) /\ Taken = m - n /\ m >= n
        /\ line \in Seq(Spots)
        /\ points \in Seq([moment : 0..MaxMoment, value : Values, skipped : 0..MaxMoment])
        /\ written \in Nat
  BY Spotted DEF OnLine, Taken, Gen, Timed, StreamInv, Clocks
<1>3. /\ at \in Nat /\ end \in Nat /\ playing /\ reached = end
      /\ cursor.l \in Nat /\ cursor.r \in Nat \cup {-1}
  BY <1>1, Clocked DEF Gen, Course
<1>4. end <= written \/ (phase = "speak" /\ call.last)
  BY <1>1 DEF Gen, Known
<1>5. /\ written' = written
      /\ points = <<>> => got' = Nothing /\ points' = <<>>
      /\ points # <<>> =>
           /\ points' = Tail(points)
           /\ got' = [moment |-> Back(1), value |-> points[1].value]
           /\ got' # Nothing
           /\ \A i \in 1..Len(points') : Back(i)' = Back(i + 1)
  BY <1>1, Fetched
<1>6. /\ \A i, j \in 1..m : i <= j => line[i].moment <= line[j].moment
      /\ line = <<>> => written = 0
      /\ line # <<>> => line[m].moment = written
      /\ \A i \in 1..n : line[m - n + i] = [moment |-> Back(i), value |-> points[i].value]
  BY <1>2 DEF OnLine
<1>7. CASE points # <<>>
  <2>1. /\ n >= 1 /\ Len(points') = n - 1
        /\ \A i \in 1..(n - 1) : points'[i] = points[i + 1]
    <3>1. n >= 1 /\ points' = Tail(points)
      BY <1>2, <1>5, <1>7
    <3>2. /\ Len(Tail(points)) = Len(points) - 1
          /\ \A i \in 1..(Len(points) - 1) : Tail(points)[i] = points[i + 1]
      BY <1>2, <1>7, TailFacts
    <3> QED
      BY <1>2, <3>1, <3>2
  <2>2. Taken' = m - n + 1 /\ Taken' \in Nat /\ Taken' > 0
    BY <1>1, <1>2, <2>1 DEF Taken
  <2>3. ASSUME NEW i \in 1..Len(points')
        PROVE  line[Taken' + i] = [moment |-> Back(i)', value |-> points'[i].value]
    <3>1. i \in 1..(n - 1) /\ i + 1 \in 1..n /\ m - n + (i + 1) = m - n + 1 + i
      BY <1>2, <2>1
    <3>2. line[m - n + (i + 1)] = [moment |-> Back(i + 1), value |-> points[i + 1].value]
      BY <1>6, <3>1
    <3>3. Back(i)' = Back(i + 1)
      BY <1>5, <1>7
    <3> QED
      BY <2>1, <2>2, <3>1, <3>2, <3>3
  <2>4. line[Taken'] = [moment |-> Back(1), value |-> points[1].value]
    <3>1. 1 \in 1..n
      BY <2>1
    <3> QED
      BY <1>6, <2>2, <3>1
  <2>5. cursor'.r = Back(1) /\ cursor'.vr = points[1].value
    BY <1>1, <1>5, <1>7 DEF Stepped
  <2>6. CASE cursor.r = -1
    <3>1. Taken = 0 /\ Taken' = 1
      BY <1>2, <1>3, <2>2, <2>6 DEF OnLine
    <3>2. cursor'.vl = cursor'.vr
      BY <1>1, <1>5, <1>7, <2>6 DEF Stepped
    <3>3. Beside'
      BY <1>1, <2>2, <2>4, <2>5, <3>1, <3>2 DEF Beside
    <3>4. cursor'.r # -1
      <4>1. line[Taken'].moment \in Nat
        <5>1. Taken' \in 1..m
          BY <1>2, <2>1, <2>2
        <5> QED
          BY <1>2, <5>1, Spotted
      <4> QED
        BY <2>4, <2>5, <4>1
    <3> QED
      BY <1>1, <1>2, <1>3, <1>5, <1>6, <2>2, <2>3, <3>3, <3>4 DEF OnLine
  <2>7. CASE cursor.r # -1
    <3>1. Beside
      BY <1>3, <1>7, <2>7 DEF OnLine, RunOut
    <3>2. cursor'.l = cursor.r /\ cursor'.vl = cursor.vr
      BY <1>1, <1>5, <1>7, <2>7 DEF Stepped
    <3>3. Taken' # 1 /\ Taken' - 1 = Taken
      BY <1>2, <2>2, <3>1 DEF Beside
    <3>4. cursor'.l < at /\ cursor'.l < reached
      BY <1>1, <1>3, <2>7, <3>2
    <3>5. Beside'
      BY <1>1, <2>2, <2>4, <2>5, <3>1, <3>2, <3>3, <3>4 DEF Beside
    <3>6. cursor'.r # -1
      <4>1. line[Taken'].moment \in Nat
        <5>1. Taken' \in 1..m
          BY <1>2, <2>1, <2>2
        <5> QED
          BY <1>2, <5>1, Spotted
      <4> QED
        BY <2>4, <2>5, <4>1
    <3> QED
      BY <1>1, <1>2, <1>3, <1>5, <1>6, <2>2, <2>3, <3>5, <3>6 DEF OnLine
  <2> QED
    BY <2>6, <2>7
<1>8. CASE points = <<>>
  <2>1. /\ n = 0 /\ points' = <<>> /\ got' = Nothing /\ Taken' = Taken /\ Taken = m
    BY <1>1, <1>2, <1>5, <1>8 DEF Taken
  <2>2. cursor'.r = end
    BY <1>1, <2>1 DEF Stepped
  <2>3. CASE cursor.r = -1
    <3>1. m = 0 /\ line = <<>> /\ written = 0
      BY <1>2, <1>3, <2>1, <2>3 DEF OnLine
    <3>2. phase = "speak" /\ call.last
      BY <1>1, <1>3, <1>4, <3>1
    <3>3. cursor'.vl = 0 /\ cursor'.vr = 0
      BY <1>1, <2>1, <2>3 DEF Stepped
    <3>4. RunOut'
      BY <1>1, <2>1, <2>2, <3>1, <3>2, <3>3 DEF RunOut
    <3> QED
      BY <1>1, <1>2, <1>3, <1>5, <1>6, <2>1, <2>2, <3>4 DEF OnLine
  <2>4. CASE cursor.r # -1
    <3>1. Beside
      BY <1>1, <1>3, <2>4 DEF OnLine, RunOut
    <3>2. /\ m >= 1 /\ line # <<>> /\ line[m] = [moment |-> cursor.r, value |-> cursor.vr]
          /\ written = cursor.r
      BY <1>2, <1>6, <2>1, <3>1 DEF Beside
    <3>3. written < at /\ phase = "speak" /\ call.last
      BY <1>1, <1>2, <1>3, <1>4, <2>4, <3>2
    <3>4. cursor'.vl = cursor.vr /\ cursor'.vr = cursor.vr
      BY <1>1, <2>1, <2>4 DEF Stepped
    <3>5. RunOut'
      BY <1>1, <1>2, <1>5, <2>1, <2>2, <3>2, <3>3, <3>4 DEF RunOut
    <3> QED
      BY <1>1, <1>2, <1>3, <1>5, <1>6, <2>1, <2>2, <3>5 DEF OnLine
  <2> QED
    BY <2>3, <2>4
<1> QED
  BY <1>7, <1>8

(* A frame forgets what is behind the cursor, and has the value of the     *)
(* line.                                                                   *)
LEMMA LineMakeFrame ==
  ASSUME StreamInv, Gen, OnLine, MakeFrame
  PROVE  OnLine' /\ frame'.value = OnTheLine(at)'
<1>1. /\ phase # "rules" /\ at < end /\ at <= cursor.r
      /\ frame'.value = Between(cursor.l, cursor.vl, cursor.r, cursor.vr, at)
      /\ line' = Needed(line, at)
      /\ UNCHANGED <<points, written, playing, said, cursor, reached, phase, at,
                     call, end>>
  BY DEF MakeFrame, InWindow, totals, walkVars, callVars
<1>2. PICK m \in Nat, n \in Nat :
        m = Len(line) /\ n = Len(points) /\ Taken = m - n /\ m >= n
        /\ line \in Seq(Spots)
        /\ \A i \in 1..m : line[i].moment \in Nat
        /\ written \in Nat
  BY Spotted DEF OnLine, Taken, Gen, Timed
<1>3. /\ at \in Nat /\ end \in Nat /\ playing /\ reached = end
      /\ cursor.l \in Nat /\ cursor.r \in Nat
  BY <1>1, Clocked DEF Gen, Course
<1>4. /\ \A i, j \in 1..m : i <= j => line[i].moment <= line[j].moment
      /\ line = <<>> => written = 0
      /\ line # <<>> => line[m].moment = written
      /\ \A i \in 1..n : line[m - n + i] = [moment |-> Back(i), value |-> points[i].value]
      /\ Beside \/ RunOut
  BY <1>2, <1>3 DEF OnLine
<1>5. PICK c \in 0..m :
        /\ line' \in Seq(Spots) /\ Len(line') = m - c
        /\ \A i \in 1..(m - c) : line'[i] = line[i + c]
        /\ \/ c = 0 /\ \A i \in 1..m : line[i].moment >= at
           \/ /\ c < m /\ line[c + 1].moment < at
              /\ \A i \in 1..m : i > c + 1 => line[i].moment >= at
  BY <1>1, <1>2, <1>3, NeededCuts
<1>6. Taken' = m - c - n
  BY <1>1, <1>2, <1>5 DEF Taken
<1>7. /\ \A i, j \in 1..(m - c) : i <= j => line'[i].moment <= line'[j].moment
      /\ c < m => line # <<>> /\ line' # <<>> /\ line'[m - c].moment = written
  <2>1. ASSUME NEW i \in 1..(m - c), NEW j \in 1..(m - c), i <= j
        PROVE  line'[i].moment <= line'[j].moment
    <3>1. i + c \in 1..m /\ j + c \in 1..m /\ i + c <= j + c
      BY <1>2, <2>1
    <3> QED
      BY <1>4, <1>5, <3>1
  <2>2. ASSUME c < m PROVE line # <<>> /\ line' # <<>> /\ line'[m - c].moment = written
    <3>1. m - c \in 1..(m - c) /\ (m - c) + c = m /\ line # <<>> /\ line' # <<>>
      BY <1>2, <1>5, <2>2
    <3> QED
      BY <1>4, <1>5, <3>1
  <2> QED
    BY <2>1, <2>2
<1>8. c = m => m = 0 /\ line = <<>> /\ line' = <<>>
  BY <1>2, <1>5
<1>9. CASE Beside
  <2>1. PICK k \in Nat \ {0} :
          /\ k = m - n /\ k <= m
          /\ line[k] = [moment |-> cursor.r, value |-> cursor.vr]
          /\ k = 1 => cursor.vl = cursor.vr
          /\ k # 1 => line[k - 1] = [moment |-> cursor.l, value |-> cursor.vl]
          /\ k # 1 => cursor.l < at
          /\ k # 1 => cursor.l < reached
    BY <1>1, <1>2, <1>9 DEF Beside
  <2>2. \A i \in k..m : line[i].moment >= at
    <3>1. ASSUME NEW i \in k..m PROVE line[i].moment >= at
      <4>1. line[k].moment <= line[i].moment
        <5>1. k \in 1..m /\ i \in 1..m /\ k <= i
          BY <1>2, <2>1
        <5> QED
          BY <1>4, <5>1
      <4>2. line[i].moment \in Nat
        BY <1>2, <2>1
      <4> QED
        BY <1>1, <1>3, <2>1, <4>1, <4>2
    <3> QED
      BY <3>1
  <2>3. CASE k = 1
    <3>1. c = 0
      <4>1. ASSUME c # 0 PROVE FALSE
        <5>1. c + 1 \in k..m /\ line[c + 1].moment < at
          BY <1>2, <1>5, <2>3, <4>1
        <5>2. line[c + 1].moment >= at /\ line[c + 1].moment \in Nat
          BY <1>2, <2>1, <2>2, <5>1
        <5> QED
          BY <1>3, <5>1, <5>2
      <4> QED
        BY <4>1
    <3>2. line' = line
      BY <1>2, <1>5, <3>1
    <3>3. OnLine'
      BY <1>1, <3>2, OnLineStands
    <3>4. frame'.value = cursor.vl
      BY <1>1, <2>1, <2>3 DEF Between
    <3>5. OnTheLine(at)' = line[1].value
      <4> DEFINE right == {i \in 1..Len(line') : line'[i].moment >= at'}
                 first == CHOOSE x \in right : \A j \in right : x <= j
      <4>1. 1 \in right /\ line # <<>>
        BY <1>1, <1>2, <2>1, <2>2, <2>3, <3>2
      <4>2. \A j \in right : 1 <= j
        BY <1>2, <3>2
      <4>3. \A x \in right : (\A j \in right : x <= j) => x = 1
        <5>1. \A x \in right : x \in Nat
          BY <1>2, <3>2
        <5> HIDE DEF right
        <5> QED
          BY <4>1, <4>2, <5>1
      <4>4. first = 1
        <5> HIDE DEF right
        <5> QED
          BY <4>1, <4>2, <4>3
      <4>5. right # {}
        BY <4>1
      <4> QED
        BY <3>2, <4>1, <4>4, <4>5 DEF OnTheLine
    <3> QED
      BY <2>1, <2>3, <3>3, <3>4, <3>5
  <2>4. CASE k # 1
    <3>1. c = k - 2
      <4>1. k - 1 \in 1..m /\ line[k - 1].moment < at
        BY <1>2, <2>1, <2>4
      <4>2. line[k - 1].moment \in Nat
        BY <1>2, <4>1
      <4>3. ~(\A i \in 1..m : line[i].moment >= at)
        BY <1>3, <4>1, <4>2
      <4>4. ~(k - 1 > c + 1)
        BY <1>3, <1>5, <4>1, <4>2, <4>3
      <4>5. ~(c + 1 > k - 1)
        <5>1. ASSUME c + 1 > k - 1 PROVE FALSE
          <6>1. c + 1 \in k..m /\ line[c + 1].moment < at
            BY <1>2, <1>5, <2>1, <4>3, <5>1
          <6>2. line[c + 1].moment >= at /\ line[c + 1].moment \in Nat
            BY <1>2, <2>1, <2>2, <6>1
          <6> QED
            BY <1>3, <6>1, <6>2
        <5> QED
          BY <5>1
      <4> QED
        BY <1>2, <2>1, <4>4, <4>5
    <3>2. /\ Taken' = 2 /\ m - c >= 2
          /\ line'[1] = line[k - 1] /\ line'[2] = line[k]
      <4>1. /\ 1 \in 1..(m - c) /\ 2 \in 1..(m - c)
            /\ 1 + c = k - 1 /\ 2 + c = k
        BY <1>2, <2>1, <2>4, <3>1
      <4>2. Taken' = 2 /\ m - c >= 2
        BY <1>2, <1>6, <2>1, <2>4, <3>1
      <4> QED
        BY <1>5, <4>1, <4>2
    <3>3. Beside'
      <4>1. /\ line'[2] = [moment |-> cursor.r, value |-> cursor.vr]
            /\ line'[1] = [moment |-> cursor.l, value |-> cursor.vl]
            /\ cursor.l < at /\ cursor.l < reached
        BY <2>1, <2>4, <3>2
      <4>2. Taken' > 0 /\ Taken' # 1 /\ Taken' = 2 /\ Taken' - 1 = 1
        BY <3>2
      <4> QED
        BY <1>1, <4>1, <4>2 DEF Beside
    <3>4. ASSUME NEW i \in 1..n
          PROVE  line'[Taken' + i] = [moment |-> Back(i)', value |-> points'[i].value]
      <4>1. i # 0 /\ 2 + i \in 1..(m - c) /\ (2 + i) + c = m - n + i
        BY <1>2, <2>1, <2>4, <3>1
      <4>2. Back(i)' = Back(i)
        BY <1>1, <4>1 DEF Back
      <4>3. line'[2 + i] = line[m - n + i]
        BY <1>5, <4>1
      <4> QED
        BY <1>1, <1>4, <3>2, <4>2, <4>3
    <3>5. OnLine'
      <4>1. c < m
        BY <1>2, <3>2
      <4>2. Taken' \in Nat
        BY <3>2
      <4> QED
        BY <1>1, <1>2, <1>3, <1>5, <1>7, <3>3, <3>4, <4>1, <4>2 DEF OnLine
    <3>6. OnTheLine(at)' = Between(line'[1].moment, line'[1].value,
                                   line'[2].moment, line'[2].value, at)
      <4> DEFINE right == {i \in 1..Len(line') : line'[i].moment >= at'}
                 first == CHOOSE x \in right : \A j \in right : x <= j
      <4>1. 2 \in right /\ line' # <<>>
        <5>1. 2 \in 1..Len(line') /\ line'[2].moment = cursor.r /\ line' # <<>>
          BY <1>2, <1>5, <2>1, <3>2
        <5> QED
          BY <1>1, <1>3, <5>1
      <4>2. 1 \notin right
        <5>1. line'[1].moment = cursor.l /\ cursor.l < at
          BY <2>1, <2>4, <3>2
        <5> QED
          BY <1>1, <1>3, <5>1
      <4>3. right \subseteq 1..(m - c)
        BY <1>5
      <4>4. \A j \in right : j \in Nat /\ 2 <= j
        <5> HIDE DEF right
        <5>1. ASSUME NEW j \in right PROVE j \in Nat /\ 2 <= j
          <6>1. j \in 1..(m - c) /\ j # 1
            BY <4>2, <4>3
          <6> QED
            BY <1>2, <6>1
        <5> QED
          BY <5>1
      <4>5. first = 2
        <5> HIDE DEF right
        <5>1. \A x \in right : (\A j \in right : x <= j) => x = 2
          BY <4>1, <4>4
        <5> QED
          BY <4>1, <4>4, <5>1
      <4>6. right # {}
        BY <4>1
      <4>7. OnTheLine(at)' =
              IF line' = <<>> THEN 0
              ELSE IF right = {} THEN line'[Len(line')].value
              ELSE IF first = 1 THEN line'[1].value
              ELSE Between(line'[first - 1].moment, line'[first - 1].value,
                           line'[first].moment, line'[first].value, at')
        BY DEF OnTheLine
      <4> HIDE DEF first, right
      <4>8. first # 1 /\ first - 1 = 1
        BY <4>5
      <4> QED
        BY <1>1, <4>1, <4>5, <4>6, <4>7, <4>8
    <3> QED
      BY <1>1, <2>1, <2>4, <3>2, <3>5, <3>6
  <2> QED
    BY <2>3, <2>4
<1>10. CASE RunOut
  <2>1. /\ points = <<>> /\ n = 0 /\ cursor.vl = cursor.vr
        /\ frame'.value = cursor.vr
        /\ line = <<>> => cursor.vr = 0
        /\ line # <<>> => cursor.vr = line[m].value /\ written < at
    BY <1>1, <1>2, <1>10 DEF RunOut, Between
  <2>2. CASE line = <<>>
    <3>1. m = 0 /\ c = 0 /\ line' = line
      BY <1>2, <1>5, <2>2
    <3>2. OnLine'
      BY <1>1, <3>1, OnLineStands
    <3>3. OnTheLine(at)' = 0
      BY <2>2, <3>1 DEF OnTheLine
    <3> QED
      BY <2>1, <2>2, <3>2, <3>3
  <2>3. CASE line # <<>>
    <3>1. m >= 1 /\ line[m].moment = written /\ written < at
      BY <1>2, <1>4, <2>1, <2>3
    <3>2. c = m - 1
      BY <1>2, <1>3, <1>5, <3>1
    <3>3. /\ Len(line') = 1 /\ line'[1] = line[m] /\ line' # <<>> /\ Taken' = 1
      <4>1. /\ 1 \in 1..(m - c) /\ 1 + c = m /\ m - c = 1
            /\ Taken' = 1
        BY <1>2, <1>6, <2>1, <3>1, <3>2
      <4>2. line'[1] = line[m] /\ Len(line') = 1
        BY <1>5, <4>1
      <4> QED
        BY <4>1, <4>2
    <3>4. RunOut'
      BY <1>1, <1>10, <2>1, <2>3, <3>1, <3>3 DEF RunOut
    <3>5. OnLine'
      <4>1. c < m /\ Len(points') = 0
        BY <1>1, <1>2, <2>1, <3>1, <3>2
      <4>2. Taken' \in Nat
        BY <3>3
      <4> QED
        BY <1>1, <1>2, <1>3, <1>5, <1>7, <3>3, <3>4, <4>1, <4>2 DEF OnLine
    <3>6. OnTheLine(at)' = line'[1].value
      <4>1. {i \in 1..Len(line') : line'[i].moment >= at'} = {}
        <5>1. ~(line'[1].moment >= at')
          BY <1>1, <1>2, <1>3, <3>1, <3>3
        <5>2. 1..Len(line') = {1}
          BY <3>3
        <5> QED
          BY <5>1, <5>2
      <4> QED
        BY <3>3, <4>1 DEF OnTheLine
    <3> QED
      BY <2>1, <2>3, <3>3, <3>5, <3>6
  <2> QED
    BY <2>2, <2>3
<1> QED
  BY <1>4, <1>9, <1>10

LEMMA LineNextFrame ==
  ASSUME StreamInv, Gen, OnLine, NextFrame
  PROVE  OnLine'
<1>1. /\ frame # NoFrame /\ at' = at + Step
      /\ UNCHANGED <<line, points, written, playing, said, cursor, reached,
                     phase, call, end>>
  BY DEF NextFrame, streamVars, totals, callVars
<1>2. /\ at \in Nat /\ Step \in Nat \ {0} /\ cursor.l \in Nat /\ at < at'
  BY <1>1, Clocked DEF Gen
<1>3. Taken' = Taken /\ \A i : Back(i)' = Back(i) \/ i = 0
  BY <1>1 DEF Taken, Back
<1>4. Beside => Beside'
  <2>1. cursor.l < at => cursor.l < at'
    BY <1>1, <1>2
  <2> QED
    BY <1>1, <1>3, <2>1 DEF Beside
<1>5. ASSUME RunOut PROVE RunOut'
  <2>1. ASSUME line # <<>> PROVE written < at'
    <3>1. written < at
      BY <1>5, <2>1 DEF RunOut
    <3>2. written \in Nat /\ at' \in Nat
      BY <1>1, <1>2, Spotted
    <3> QED
      BY <1>2, <3>1, <3>2
  <2> QED
    BY <1>1, <1>5, <2>1 DEF RunOut
<1>6. \A i \in 1..Len(points) : Back(i)' = Back(i)
  BY <1>3
<1> QED
  BY <1>1, <1>3, <1>4, <1>5, <1>6 DEF OnLine

LEMMA LineEndWindow ==
  ASSUME StreamInv, Gen, OnLine, EndWindow, Gen'
  PROVE  OnLine'
<1>1. /\ phase # "rules" /\ playing /\ said = call.last
      /\ UNCHANGED <<line, points, written, said>>
  BY DEF EndWindow, streamVars, Gen, Course
<1>2. Taken' = Taken /\ \A i \in 1..Len(points) : Back(i)' = Back(i)
  BY <1>1 DEF Taken, Back
<1>3. CASE phase = "again"
  <2>1. /\ phase' = "speak" /\ Window(call.from, call.to, FALSE, call.last)
        /\ UNCHANGED <<playing, call>>
    BY <1>3 DEF EndWindow
  <2>2. cursor' = cursor /\ at' = reached
    BY <2>1 DEF Window
  <2>3. PICK from \in Reach, to \in Reach, anew \in BOOLEAN, last \in BOOLEAN :
          /\ Window(from, to, anew, last) /\ ~anew
          /\ reached <= to /\ cursor.l <= reached
    <3>1. PICK from \in Reach, to \in Reach, last \in BOOLEAN :
            /\ Window(from, to, FALSE, last)
            /\ reached <= to /\ cursor.l <= reached
      BY <1>1, <1>3, <2>1 DEF Gen, Timed, Course
    <3> QED
      BY <3>1, Zenon
  <2>4. at' <= reached'
    <3>1. (IF anew THEN from ELSE reached) <= to /\ (anew \/ cursor.l <= reached)
      BY <2>3
    <3>2. Timed /\ written \in Nat
      BY Spotted DEF Gen
    <3>3. at' <= end' /\ reached' = end'
      <4>1. Window(from, to, anew, last)
        BY <2>3
      <4> QED
        BY <3>1, <3>2, <4>1, WindowFits
    <3> QED
      BY <3>3
  <2>5. cursor.r # -1 => Beside'
    <3> SUFFICES ASSUME cursor.r # -1 PROVE Beside'
      OBVIOUS
    <3>1. Beside
      BY <1>1, <1>3 DEF OnLine, RunOut
    <3>2. Taken # 1 => cursor.l < at' /\ cursor.l < reached'
      <4>1. /\ cursor.l \in Nat /\ reached \in Nat /\ reached' \in Nat
        BY Clocked, ClockedNext DEF Gen
      <4>2. Taken # 1 => cursor.l < reached
        BY <3>1 DEF Beside
      <4> QED
        BY <2>2, <2>4, <4>1, <4>2
    <3> QED
      BY <1>1, <1>2, <2>2, <3>1, <3>2 DEF Beside
  <2> QED
    BY <1>1, <1>2, <2>1, <2>2, <2>5 DEF OnLine
<1>4. CASE phase # "again"
  <2>1. /\ phase' = "rules" /\ playing' = ~call.last
        /\ ~call.last => UNCHANGED <<reached, cursor>>
    BY <1>4 DEF EndWindow
  <2>2. CASE call.last
    <3>1. ~playing' /\ said'
      BY <1>1, <2>1, <2>2
    <3> QED
      BY <1>1, <1>2, <3>1 DEF OnLine
  <2>3. CASE ~call.last
    <3>1. playing' /\ UNCHANGED <<reached, cursor>>
      BY <2>1, <2>3
    <3>2. cursor.r # -1 => Beside
      BY <1>1, <2>3 DEF OnLine, RunOut
    <3>3. cursor.r # -1 => Beside'
      BY <1>1, <1>2, <2>1, <3>1, <3>2 DEF Beside
    <3> QED
      BY <1>1, <1>2, <3>1, <3>3 DEF OnLine
  <2> QED
    BY <2>2, <2>3
<1> QED
  BY <1>3, <1>4

LEMMA LineRestart ==
  ASSUME OnLine, Restart
  PROVE  OnLine'
<1>1. ~playing' /\ said' /\ UNCHANGED <<line, points, written>>
  BY DEF Restart, streamVars
<1>2. Taken' = Taken /\ \A i \in 1..Len(points) : Back(i)' = Back(i)
  BY <1>1 DEF Taken, Back
<1> QED
  BY <1>1, <1>2 DEF OnLine

(* The invariant, with the value a frame was given.                        *)
FrameInv == LineInv /\ FrameIsOnTheLine

LEMMA FrameInitially == MarksInit => FrameInv
<1> SUFFICES ASSUME MarksInit PROVE FrameInv
  OBVIOUS
<1>1. OnLine
  BY LineInitially DEF MarksInit
<1>2. frame = NoFrame
  BY DEF MarksInit, GeneratorInit
<1> QED
  BY <1>1, <1>2 DEF FrameInv, LineInv, FrameIsOnTheLine

LEMMA FrameStands ==
  ASSUME FrameIsOnTheLine,
         frame' = NoFrame \/ UNCHANGED <<frame, line, skipped>>
  PROVE  FrameIsOnTheLine'
  BY DEF FrameIsOnTheLine, OnTheLine

LEMMA FrameStep ==
  ASSUME HalfWordGaps
  PROVE  MarksInv /\ FrameInv /\ [MarksNext]_allVars => FrameInv'
<1> SUFFICES ASSUME MarksInv, FrameInv, [MarksNext]_allVars PROVE FrameInv'
  OBVIOUS
<1>0. StreamInv /\ Gen /\ Gen' /\ FrameIsOnTheLine /\ (skipped = 0 => OnLine)
  <2>1. MarksInv'
    BY MarksStep
  <2> QED
    BY <2>1 DEF MarksInv, FrameInv, LineInv
<1>1. ASSUME NEW gap \in Gaps, NEW value \in Values, Rules(WritePoint(gap, value))
      PROVE  FrameInv'
  <2>1. WritePoint(gap, value)
    BY <1>1 DEF Rules
  <2>2. skipped' = 0 => skipped = 0
    <3>1. skipped' = skipped \/ skipped' = skipped + gap
      BY <2>1 DEF WritePoint, AppendValue
    <3>2. skipped \in Nat /\ gap \in Nat
      BY <1>0, GapAssumption, MomentAssumption DEF StreamInv, Clocks
    <3> QED
      BY <3>1, <3>2
  <2>3. skipped' = 0 => OnLine'
    BY <1>0, <2>1, <2>2, LineWrite
  <2>4. frame' = NoFrame
    BY <1>0, <2>1 DEF WritePoint, Gen, Course
  <2> QED
    BY <1>0, <2>3, <2>4, FrameStands DEF FrameInv, LineInv
<1>2. CASE Rules(StartOver)
  <2>1. StartOver
    BY <1>2 DEF Rules
  <2>2. OnLine'
    BY <2>1, LineStartOver
  <2>3. frame' = NoFrame
    BY <1>0, <2>1 DEF StartOver, Gen, Course
  <2> QED
    BY <1>0, <2>2, <2>3, FrameStands DEF FrameInv, LineInv
<1>3. ASSUME NEW to \in Asks, NEW last \in BOOLEAN, NEW changed \in BOOLEAN,
             Rules(Synthesize(to, last, changed))
      PROVE  FrameInv'
  <2>1. Synthesize(to, last, changed)
    BY <1>3 DEF Rules
  <2>2. UNCHANGED <<frame, line, skipped>>
    BY <2>1 DEF Synthesize, streamVars
  <2>3. skipped = 0 => OnLine'
    BY <1>0, <2>1, LineSynthesize
  <2> QED
    BY <1>0, <2>2, <2>3, FrameStands DEF FrameInv, LineInv
<1>4. ASSUME UNCHANGED <<line, points, written, playing, said, cursor, reached,
                         phase, at, call, end>>,
             UNCHANGED <<frame, skipped>>
      PROVE  FrameInv'
  <2>1. skipped = 0 => OnLine'
    BY <1>0, <1>4, OnLineStands
  <2>2. FrameIsOnTheLine'
    BY <1>0, <1>4, FrameStands
  <2> QED
    BY <1>4, <2>1, <2>2 DEF FrameInv, LineInv
<1>5. CASE InsertMark
  BY <1>4, <1>5 DEF InsertMark, streamVars, walkVars, callVars
<1>6. CASE Flush
  BY <1>4, <1>6 DEF Flush, streamVars, generatorVars, totals, walkVars, callVars
<1>7. CASE Rules(Walk)
  <2>1. Walk
    BY <1>7 DEF Rules
  <2>2. UNCHANGED <<frame, line, skipped>>
    BY <2>1 DEF Walk, FetchNext
  <2>3. skipped = 0 => OnLine'
    BY <1>0, <2>1, LineWalk
  <2> QED
    BY <1>0, <2>2, <2>3, FrameStands DEF FrameInv, LineInv
<1>8. CASE SendFrame
  <2>1. MakeFrame
    BY <1>8 DEF SendFrame
  <2>2. skipped' = skipped /\ frame'.at = at /\ at' = at
    BY <2>1 DEF MakeFrame, walkVars
  <2>3. skipped = 0 => OnLine' /\ frame'.value = OnTheLine(at)'
    BY <1>0, <2>1, LineMakeFrame
  <2>4. OnTheLine(at)' = OnTheLine(frame.at)'
    BY <2>2 DEF OnTheLine
  <2>5. skipped' = 0 => frame'.value = OnTheLine(frame.at)'
    BY <2>2, <2>3, <2>4
  <2>6. FrameIsOnTheLine'
    BY <2>5 DEF FrameIsOnTheLine
  <2> QED
    BY <2>2, <2>3, <2>6 DEF FrameInv, LineInv
<1>9. CASE HandPiece
  BY <1>4, <1>9 DEF HandPiece, streamVars, generatorVars, totals, walkVars, callVars
<1>10. CASE FrameMade
  <2>1. NextFrame
    BY <1>10 DEF FrameMade
  <2>2. frame' = NoFrame /\ skipped' = skipped
    BY <2>1 DEF NextFrame, streamVars
  <2>3. skipped = 0 => OnLine'
    BY <1>0, <2>1, LineNextFrame
  <2> QED
    BY <1>0, <2>2, <2>3, FrameStands DEF FrameInv, LineInv
<1>11. CASE WindowEnds
  <2>1. EndWindow
    BY <1>11 DEF WindowEnds
  <2>2. UNCHANGED <<frame, line, skipped>>
    BY <2>1 DEF EndWindow, streamVars
  <2>3. skipped = 0 => OnLine'
    BY <1>0, <2>1, LineEndWindow
  <2> QED
    BY <1>0, <2>2, <2>3, FrameStands DEF FrameInv, LineInv
<1>12. CASE Interrupt
  BY <1>4, <1>12 DEF Interrupt, streamVars, generatorVars, totals, walkVars, callVars
<1>13. CASE Restart
  <2>1. UNCHANGED <<frame, line, skipped>>
    BY <1>13 DEF Restart, streamVars
  <2>2. skipped = 0 => OnLine'
    BY <1>0, <1>13, LineRestart
  <2> QED
    BY <1>0, <2>1, <2>2, FrameStands DEF FrameInv, LineInv
<1>14. CASE UNCHANGED allVars
  BY <1>4, <1>14 DEF allVars, streamVars, generatorVars, totals, walkVars, callVars
<1> QED
  BY <1>1, <1>2, <1>3, <1>5, <1>6, <1>7, <1>8, <1>9, <1>10, <1>11, <1>12, <1>13,
     <1>14 DEF MarksNext

(* A frame has the value of the straight line through the points at its    *)
(* moment, as eci_arraygen.c's head promises it, however the rules cut     *)
(* what they ask for and whatever they had written when they did: the      *)
(* cursor a window leaves is always between two points of the line, or     *)
(* before the first, or, in the last window of all, beyond the last.       *)
THEOREM FrameCorrect ==
  ASSUME HalfWordGaps PROVE MarksSpec => []FrameIsOnTheLine
<1>1. FrameInv => FrameIsOnTheLine
  BY DEF FrameInv
<1> QED
  BY <1>1, MarksInvCorrect, FrameInitially, FrameStep, PTL DEF MarksSpec

-----------------------------------------------------------------------------
(* Where the marks are.  A frame makes as many samples as its moments do   *)
(* one by one, and no moment makes none: so it is at each rate the program *)
(* has, for frames of less than twenty moments.                            *)
WholeSteps == Rate >= Second /\ Samples(Step) = Step * Samples(1)

LEMMA Scaled ==
  ASSUME NEW a \in Int, NEW b \in Int, NEW c \in Nat
  PROVE  /\ a * c \in Int
         /\ (a + b) * c = a * c + b * c
         /\ (a - b) * c = a * c - b * c
         /\ a <= b => a * c <= b * c
<1>1. a * c \in Int /\ (a + b) * c = a * c + b * c /\ (a - b) * c = a * c - b * c
  BY SMTT(30)
<1>2. ASSUME a <= b PROVE a * c <= b * c
  <2>1. PICK d \in Nat : b = a + d
    <3>1. b - a \in Nat /\ b = a + (b - a)
      BY <1>2
    <3> QED
      BY <3>1
  <2>2. d * c \in Nat /\ b * c = a * c + d * c
    BY <2>1, SMTT(30)
  <2>3. PICK x \in Int, y \in Nat : x = a * c /\ y = d * c
    BY <1>1, <2>2
  <2>4. x <= x + y
    OBVIOUS
  <2> QED
    BY <2>2, <2>3, <2>4
<1> QED
  BY <1>1, <1>2

(* No more samples than there is time for, and as many.                    *)
LEMMA SamplesAreMost ==
  ASSUME NEW a \in Nat, NEW k \in Int, k * Second <= a * Rate
  PROVE  k <= Samples(a)
<1>1. PICK s \in Nat, rest \in Nat, x \in Nat, d \in Nat :
        /\ s = Samples(a) /\ rest < d /\ d = Second /\ x = a * Rate
        /\ x = s * d + rest
  BY SamplesFit, RateAssumption
<1>2. CASE k > s
  <2>1. (s + 1) * d <= k * d
    BY <1>1, <1>2, Scaled
  <2>2. (s + 1) * d = s * d + d
    BY SMTT(30)
  <2>3. PICK y \in Int, z \in Int : y = s * d /\ z = k * d
    BY Scaled
  <2>4. z <= x
    BY <1>1, <2>3
  <2>5. y + d <= z /\ x = y + rest
    BY <1>1, <2>1, <2>2, <2>3
  <2> QED
    BY <1>1, <2>4, <2>5
<1> QED
  BY <1>1, <1>2

LEMMA SamplesGrow ==
  ASSUME NEW a \in Nat, NEW b \in Nat
  PROVE  /\ a <= b => Samples(a) <= Samples(b)
         /\ a * Samples(1) <= Samples(a)
<1>1. /\ Samples(a) \in Nat /\ Samples(1) \in Nat /\ Second \in Nat /\ Rate \in Nat
      /\ Samples(a) * Second <= a * Rate
      /\ Samples(1) * Second <= 1 * Rate
  <2>1. 1 \in Nat
    OBVIOUS
  <2>2. /\ Samples(a) \in Nat /\ Rest(a) \in Nat /\ a * Rate \in Nat
        /\ Samples(a) * Second \in Nat
        /\ a * Rate = Samples(a) * Second + Rest(a)
    BY SamplesFit
  <2>3. /\ Samples(1) \in Nat /\ Rest(1) \in Nat /\ 1 * Rate \in Nat
        /\ Samples(1) * Second \in Nat
        /\ 1 * Rate = Samples(1) * Second + Rest(1)
    BY <2>1, SamplesFit
  <2> QED
    BY <2>2, <2>3, RateAssumption
<1>2. ASSUME a <= b PROVE Samples(a) <= Samples(b)
  <2>1. a * Rate <= b * Rate /\ a * Rate \in Int /\ b * Rate \in Int
    BY <1>1, <1>2, Scaled
  <2>2. PICK s \in Nat : s = Samples(a)
    BY <1>1
  <2>3. s * Second \in Int
    BY <1>1, Scaled
  <2>4. s * Second <= b * Rate
    BY <1>1, <2>1, <2>2, <2>3
  <2> QED
    BY <2>2, <2>4, SamplesAreMost
<1>3. a * Samples(1) <= Samples(a)
  <2>1. PICK s \in Nat, d \in Nat, r \in Nat :
          s = Samples(1) /\ d = Second /\ r = Rate /\ s * d <= r
    BY <1>1
  <2>2. s * d \in Int /\ (s * d) * a <= r * a
    BY <2>1, Scaled
  <2>3. (a * s) * d = (s * d) * a /\ r * a = a * r
    BY SMTT(30)
  <2>4. a * s \in Int
    BY Scaled
  <2>5. (a * s) * d <= a * r
    BY <2>2, <2>3
  <2> QED
    BY <2>1, <2>4, <2>5, SamplesAreMost
<1> QED
  BY <1>2, <1>3

(* How much sound each mark waits for, in all.                             *)
Totalled(w) ==
  /\ w \in [0..Len(marks) -> Nat] /\ w[0] = 0
  /\ \A i \in 1..Len(marks) : w[i] = w[i - 1] + marks[i].lead
  /\ \A i, j \in 0..Len(marks) : i <= j => w[i] <= w[j]

InPlace(w) ==
  \A i \in 1..Len(marks) : /\ -short <= marks[i].place - w[i] * Second
                           /\ marks[i].place - w[i] * Second <= cut

(* What has been handed over of the frame being made, where the generator  *)
(* is, and how far behind the marks it is.                                 *)
Handed == IF frame = NoFrame THEN 0 ELSE Samples(frame.length) - handing
Come == IF phase = "rules" THEN end ELSE at
Owing == IF playing /\ marked > Come THEN marked - Come ELSE 0

(* What the marks wait for is the sound up to the last, but for what the   *)
(* frames fell short and what was cut off.                                 *)
Owed(total) ==
  /\ ~stale /\ ~interrupt /\ marks # <<>> =>
       (total + Handed) * Second <= Owing * Rate + short
  /\ playing /\ marks # <<>> =>
       (total + Handed) * Second >= (marked - Come) * Rate - cut
  /\ playing => total + Handed >= (marked - Come) * Samples(1)

Placed(w) == /\ Totalled(w)
             /\ stale \/ InPlace(w)
             /\ Owed(w[Len(marks)])

MarkInv ==
  /\ frame = NoFrame => handing = 0
  /\ phase = "rules" /\ playing => ~said
  /\ \E w : Placed(w)

LEMMA PlaceTyped ==
  ASSUME Gen, Sound
  PROVE  /\ marked \in Nat /\ end \in Nat /\ at \in Nat /\ limit \in Nat
         /\ Come \in Nat /\ Owing \in Nat /\ Handed \in Int
         /\ frame = NoFrame => Handed = 0
         /\ Rate \in Nat /\ Second \in Nat /\ Second # 0 /\ Samples(1) \in Nat
         /\ Len(marks) \in Nat /\ short \in Nat /\ cut \in Nat
         /\ marks = <<>> <=> Len(marks) = 0
<1>1. /\ marked \in Nat /\ end \in Nat /\ at \in Nat /\ limit \in Nat
      /\ Rate \in Nat /\ Second \in Nat /\ Second # 0 /\ Samples(1) \in Nat
  <2>1. 1 \in Nat
    OBVIOUS
  <2> QED
    BY <2>1, Clocked, RateAssumption, SamplesFit DEF Gen
<1>2. Come \in Nat
  BY <1>1 DEF Come
<1>3. Owing \in Nat
  BY <1>1, <1>2 DEF Owing
<1>4. Handed \in Int /\ (frame = NoFrame => Handed = 0)
  <2>1. frame # NoFrame => Samples(frame.length) \in Nat
    BY SamplesFit DEF Gen, Course, Frames
  <2> QED
    BY <2>1 DEF Handed, Sound
<1>5. /\ Len(marks) \in Nat /\ short \in Nat /\ cut \in Nat
      /\ marks = <<>> <=> Len(marks) = 0
  BY DEF Sound
<1> QED
  BY <1>1, <1>2, <1>3, <1>4, <1>5

LEMMA MarkInitially == ASSUME GeneratorInit, IndexInit PROVE MarkInv
<1>1. /\ Len(marks) = 0 /\ marks = <<>> /\ ~playing /\ frame = NoFrame /\ handing = 0
  BY DEF GeneratorInit, IndexInit
<1>2. PICK w : w = [i \in 0..0 |-> 0]
  OBVIOUS
<1>3. Totalled(w) /\ InPlace(w)
  BY <1>1, <1>2 DEF Totalled, InPlace
<1>4. \A total : Owed(total)
  BY <1>1 DEF Owed
<1> QED
  BY <1>1, <1>3, <1>4 DEF MarkInv, Placed

(* The marks are left alone, and so is where the generator is.             *)
LEMMA PlacedStands ==
  ASSUME NEW w, Placed(w),
         UNCHANGED <<marks, stale, short, cut, playing, marked, phase, end, at,
                     interrupt, frame, handing>>
  PROVE  Placed(w)'
  BY DEF Placed, Totalled, InPlace, Owed, Handed, Come, Owing

(* They are left alone, and where the generator is moves no further back   *)
(* than to where no mark is.                                               *)
LEMMA PlacedMoves ==
  ASSUME Gen, Sound, Gen', Sound', NEW w, Placed(w),
         UNCHANGED <<marks, stale, short, cut, interrupt>>,
         frame = NoFrame, frame' = NoFrame,
         ~stale /\ ~interrupt /\ marks # <<>> => Owing' = Owing,
         playing' => marked' <= Come' \/ (playing /\ marked' - Come' <= marked - Come)
  PROVE  Placed(w)'
<1>1. Totalled(w)' /\ (stale \/ InPlace(w))'
  BY DEF Placed, Totalled, InPlace
<1>2. PICK total \in Nat : total = w[Len(marks)] /\ Owed(total)
  <2>1. w \in [0..Len(marks) -> Nat] /\ Len(marks) \in 0..Len(marks)
    BY PlaceTyped DEF Placed, Totalled
  <2> QED
    BY <2>1 DEF Placed
<1>3. /\ marked \in Nat /\ Come \in Nat /\ Owing \in Nat /\ Handed = 0
      /\ Rate \in Nat /\ Second \in Nat /\ Samples(1) \in Nat
      /\ cut \in Nat
  BY PlaceTyped
<1>4. /\ marked' \in Nat /\ Come' \in Nat /\ Handed' = 0
  <2>1. Come' \in Nat /\ marked' \in Nat
    BY ClockedNext DEF Gen, Come
  <2> QED
    BY <2>1 DEF Handed
<1>5. PICK sound \in Nat : sound = total * Second /\ total + 0 = total
  BY <1>2, <1>3, SMTT(30)
<1>6. /\ ~stale /\ ~interrupt /\ marks # <<>> => sound <= Owing * Rate + short
      /\ playing /\ marks # <<>> => sound >= (marked - Come) * Rate - cut
      /\ playing => total >= (marked - Come) * Samples(1)
  BY <1>2, <1>3, <1>5 DEF Owed
<1>7. PICK before \in Int, after \in Int :
        before = marked - Come /\ after = marked' - Come'
  <2>1. PICK a \in Nat, b \in Nat, c \in Nat, d \in Nat :
          a = marked /\ b = Come /\ c = marked' /\ d = Come'
    BY <1>3, <1>4, Zenon
  <2>2. a - b \in Int /\ c - d \in Int
    OBVIOUS
  <2> QED
    BY <2>1, <2>2, Zenon
<1>8. ASSUME playing'
      PROVE  after <= 0 \/ (playing /\ after <= before)
  <2>1. marked' <= Come' \/ (playing /\ after <= before)
    BY <1>7, <1>8, Zenon
  <2>2. marked' <= Come' => after <= 0
    <3>1. \A a, b \in Nat : a <= b => a - b <= 0
      OBVIOUS
    <3> QED
      BY <1>4, <1>7, <3>1, Zenon
  <2> QED
    BY <2>1, <2>2
<1>9. ASSUME playing', marks # <<>>
      PROVE  sound >= after * Rate - cut
  <2>1. CASE after <= 0
    <3>1. after * Rate \in Int /\ after * Rate <= 0 * Rate /\ 0 * Rate = 0
      BY <1>3, <2>1, Scaled
    <3> QED
      BY <1>3, <3>1
  <2>2. CASE playing /\ after <= before
    <3>1. after * Rate \in Int /\ before * Rate \in Int /\ after * Rate <= before * Rate
      BY <1>3, <2>2, Scaled
    <3>2. sound >= before * Rate - cut
      BY <1>6, <1>7, <1>9, <2>2
    <3> QED
      BY <1>3, <3>1, <3>2
  <2> QED
    BY <1>8, <1>9, <2>1, <2>2
<1>10. ASSUME playing'
       PROVE  total >= after * Samples(1)
  <2>1. CASE after <= 0
    <3>1. /\ after * Samples(1) \in Int /\ after * Samples(1) <= 0 * Samples(1)
          /\ 0 * Samples(1) = 0
      BY <1>3, <2>1, Scaled
    <3> QED
      BY <3>1
  <2>2. CASE playing /\ after <= before
    <3>1. /\ after * Samples(1) \in Int /\ before * Samples(1) \in Int
          /\ after * Samples(1) <= before * Samples(1)
      BY <1>3, <2>2, Scaled
    <3>2. total >= before * Samples(1)
      BY <1>6, <1>7, <2>2
    <3> QED
      BY <3>1, <3>2
  <2> QED
    BY <1>8, <1>10, <2>1, <2>2
<1>11. Owed(total)'
  <2>1. ~stale /\ ~interrupt /\ marks # <<>> => sound <= Owing' * Rate + short
    BY <1>6
  <2> QED
    BY <1>4, <1>5, <1>7, <1>9, <1>10, <2>1 DEF Owed
<1> QED
  BY <1>1, <1>2, <1>11 DEF Placed

LEMMA PlacedNone ==
  ASSUME NoneWait, ~playing'
  PROVE  \E w : Placed(w)'
<1>1. marks' = <<>> /\ Len(marks') = 0
  BY DEF NoneWait
<1>2. PICK w : w = [i \in 0..0 |-> 0]
  OBVIOUS
<1>3. Totalled(w)' /\ InPlace(w)'
  BY <1>1, <1>2 DEF Totalled, InPlace
<1>4. \A total : Owed(total)'
  BY <1>1 DEF Owed
<1> QED
  BY <1>3, <1>4 DEF Placed

(* One more waits behind those that do.                                    *)
LEMMA TotalledAppend ==
  ASSUME Sound, NEW w, Totalled(w), NEW mark \in Waits,
         marks' = Append(marks, mark)
  PROVE  \E v : /\ Totalled(v)'
                /\ \A i \in 0..Len(marks) : v[i] = w[i]
                /\ v[Len(marks')] = w[Len(marks)] + mark.lead
<1>1. PICK n \in Nat : n = Len(marks) /\ marks \in Seq(Waits)
  BY DEF Sound
<1>2. PICK lead \in Nat : lead = mark.lead
  BY DEF Waits
<1>3. /\ w \in [0..n -> Nat] /\ w[0] = 0 /\ w[n] \in Nat
      /\ \A i \in 1..n : w[i] = w[i - 1] + marks[i].lead
      /\ \A i, j \in 0..n : i <= j => w[i] <= w[j]
  BY <1>1 DEF Totalled
<1>4. /\ Len(marks') = n + 1
      /\ \A i \in 1..n : marks'[i] = marks[i]
      /\ marks'[n + 1] = mark
  BY <1>1
<1>5. PICK v : v = [i \in 0..(n + 1) |-> IF i <= n THEN w[i] ELSE w[n] + lead]
  OBVIOUS
<1>6. /\ v \in [0..(n + 1) -> Nat]
      /\ \A i \in 0..n : v[i] = w[i]
      /\ v[n + 1] = w[n] + lead
  <2>1. ASSUME NEW i \in 0..(n + 1)
        PROVE  (IF i <= n THEN w[i] ELSE w[n] + lead) \in Nat
    <3>1. CASE i <= n
      <4>1. i \in 0..n
        BY <3>1
      <4> QED
        BY <1>3, <3>1, <4>1
    <3>2. CASE ~(i <= n)
      BY <1>3, <3>2
    <3> QED
      BY <3>1, <3>2
  <2>2. \A i \in 0..n : i \in 0..(n + 1) /\ i <= n
    OBVIOUS
  <2>3. n + 1 \in 0..(n + 1) /\ ~(n + 1 <= n)
    OBVIOUS
  <2> QED
    BY <1>5, <2>1, <2>2, <2>3
<1>7. ASSUME NEW i \in 1..(n + 1)
      PROVE  v[i] = v[i - 1] + marks'[i].lead
  <2>1. CASE i = n + 1
    <3>1. i - 1 = n /\ n \in 0..n
      BY <2>1
    <3> QED
      BY <1>2, <1>4, <1>6, <2>1, <3>1
  <2>2. CASE i # n + 1
    <3>1. i \in 1..n /\ i \in 0..n /\ i - 1 \in 0..n
      BY <2>2
    <3> QED
      BY <1>3, <1>4, <1>6, <3>1
  <2> QED
    BY <2>1, <2>2
<1>8. ASSUME NEW i \in 0..(n + 1), NEW j \in 0..(n + 1), i <= j
      PROVE  v[i] <= v[j]
  <2>1. CASE j = n + 1 /\ i = n + 1
    BY <1>3, <1>6, <2>1
  <2>2. CASE j = n + 1 /\ i # n + 1
    <3>1. i \in 0..n /\ n \in 0..n /\ i <= n
      BY <2>2
    <3>2. w[i] <= w[n] /\ w[i] \in Nat
      BY <1>3, <3>1
    <3> QED
      BY <1>3, <1>6, <2>2, <3>1, <3>2
  <2>3. CASE j # n + 1
    <3>1. i \in 0..n /\ j \in 0..n
      BY <1>8, <2>3
    <3> QED
      BY <1>3, <1>6, <1>8, <3>1
  <2> QED
    BY <2>1, <2>2, <2>3
<1>9. v[0] = 0
  <2>1. 0 \in 0..n
    OBVIOUS
  <2> QED
    BY <1>3, <1>6, <2>1
<1>10. Totalled(v)'
  BY <1>4, <1>6, <1>7, <1>8, <1>9 DEF Totalled
<1> QED
  BY <1>1, <1>2, <1>4, <1>6, <1>10

(* A mark goes in behind the sound that is asked for and not made.         *)
LEMMA PlacedInsertMark ==
  ASSUME WholeSteps, Gen, Sound, Gen', Sound', NEW w, Placed(w), InsertMark
  PROVE  (\E v : Placed(v)') /\ MarkKeepsItsPlace'
<1>1. /\ phase = "rules" /\ phase' = "rules" /\ frame = NoFrame /\ frame' = NoFrame
      /\ ~interrupt /\ UNCHANGED <<end, playing, handing, interrupt>>
      /\ playing => end <= limit /\ marked <= limit
  BY DEF InsertMark, callVars, soundVars, Gen, Course
<1>2. /\ marked \in Nat /\ end \in Nat /\ limit \in Nat
      /\ Come = end /\ Come' = end /\ Handed = 0 /\ Handed' = 0
      /\ Rate \in Nat /\ Second \in Nat /\ Samples(1) \in Nat
      /\ short \in Nat /\ cut \in Nat
  BY <1>1, PlaceTyped DEF Come, Handed
<1>3. PICK m \in Nat, q \in Nat :
        /\ m = Further(marked, end) /\ q = Further(limit, m)
        /\ m \in {marked, end} /\ q \in {limit, m}
        /\ marked <= m /\ end <= m /\ limit <= q /\ m <= q
  <2>1. PICK m \in Nat : /\ m = Further(marked, end) /\ m \in {marked, end}
                         /\ m >= marked /\ m >= end
    BY <1>2, FurtherIs
  <2>2. PICK q \in Nat : /\ q = Further(limit, m) /\ q \in {limit, m}
                         /\ q >= limit /\ q >= m
    BY <1>2, FurtherIs
  <2> QED
    BY <2>1, <2>2
<1>4. PICK ahead \in Int : ahead = IF playing THEN limit - end ELSE 0
  <2>1. limit - end \in Int /\ 0 \in Int
    BY <1>2
  <2> QED
    BY <2>1, Zenon
<1>5. CASE m = q /\ m = end
  <2>1. marked' = m /\ told' = {ahead * Rate} /\ UNCHANGED soundVars
    BY <1>3, <1>4, <1>5 DEF InsertMark
  <2>2. ahead * Rate = 0
    <3>1. ahead = 0
      <4>1. playing => limit - end = 0
        BY <1>1, <1>2, <1>3, <1>5
      <4> QED
        BY <1>4, <4>1
    <3> QED
      BY <1>2, <3>1
  <2>3. MarkKeepsItsPlace'
    <3>1. \A place \in told' : place = 0
      BY <2>1, <2>2
    <3>2. short' = short /\ cut' = cut
      BY <2>1 DEF soundVars, historyVars
    <3> QED
      BY <1>2, <3>1, <3>2 DEF MarkKeepsItsPlace
  <2>4. Owing = 0 /\ Owing' = 0 /\ marked' <= Come'
    BY <1>1, <1>2, <1>3, <1>5, <2>1 DEF Owing
  <2>5. UNCHANGED <<marks, stale, short, cut, interrupt>>
    BY <1>1, <2>1 DEF soundVars, historyVars
  <2>6. Placed(w)'
    BY <1>1, <2>4, <2>5, PlacedMoves
  <2> QED
    BY <2>3, <2>6
<1>6. CASE ~(m = q /\ m = end)
  <2>1. PICK place \in Int, lead \in Nat, rest \in Nat, mark \in Waits :
          /\ place = ahead * Rate /\ lead = Samples(q - m) /\ rest = Rest(q - m)
          /\ mark = [lead |-> lead, place |-> place]
    <3>1. ahead * Rate \in Int
      BY <1>2, Scaled
    <3>2. q - m \in Nat
      BY <1>3
    <3>3. Samples(q - m) \in Nat /\ Rest(q - m) \in Nat
      BY <3>2, SamplesFit
    <3>4. [lead |-> Samples(q - m), place |-> ahead * Rate] \in Waits
      BY <3>1, <3>3 DEF Waits
    <3> QED
      BY <3>1, <3>3, <3>4
  <2>2. /\ marked' = q /\ marks' = Append(marks, mark)
        /\ short' = Since(short)
        /\ cut' = Since(cut) + rest
        /\ stale' = ((marks # <<>> /\ stale) \/ ~playing)
        /\ told' = {}
    BY <1>3, <1>4, <1>6, <2>1 DEF InsertMark
  <2>3. MarkKeepsItsPlace'
    BY <2>2 DEF MarkKeepsItsPlace
  <2>4. PICK n \in Nat, total \in Nat :
          /\ n = Len(marks) /\ total = w[n] /\ Totalled(w) /\ Owed(total)
          /\ n = 0 => marks = <<>> /\ total = 0
          /\ n # 0 => marks # <<>>
          /\ stale \/ InPlace(w)
          /\ marks \in Seq(Waits)
    <3>1. /\ w \in [0..Len(marks) -> Nat] /\ Len(marks) \in 0..Len(marks)
          /\ w[0] = 0 /\ Len(marks) \in Nat
          /\ Len(marks) = 0 <=> marks = <<>>
      BY PlaceTyped DEF Placed, Totalled
    <3> QED
      BY <3>1 DEF Placed, Sound
  <2>5. PICK v :
          /\ Totalled(v)' /\ \A i \in 0..n : v[i] = w[i]
          /\ v[Len(marks')] = total + lead
    <3>1. mark.lead = lead
      BY <2>1
    <3> QED
      BY <2>2, <2>4, <3>1, TotalledAppend
  <2>6. /\ Len(marks') = n + 1 /\ marks' # <<>>
        /\ \A i \in 1..n : marks'[i] = marks[i]
        /\ marks'[n + 1].place = place
    BY <2>1, <2>2, <2>4
  <2>7. CASE ~playing
    <3>1. stale' /\ ~playing'
      BY <1>1, <2>2, <2>7
    <3>2. Owed(total + lead)'
      BY <3>1 DEF Owed
    <3>3. Placed(v)'
      BY <2>5, <3>1, <3>2 DEF Placed
    <3> QED
      BY <2>3, <3>3
  <2>8. CASE playing
    <3>1. q = limit /\ ahead = q - end
      BY <1>1, <1>2, <1>3, <1>4, <2>8
    <3>2. PICK behind \in Nat, wait \in Nat, gone \in Int :
            /\ behind = m - end /\ wait = q - m /\ gone = marked - end
            /\ q - end = behind + wait /\ ahead = behind + wait
            /\ gone <= behind
            /\ behind = gone \/ behind = 0
            /\ Owing = behind /\ Owing' = behind + wait
      <4>1. /\ m - end \in Nat /\ q - m \in Nat /\ marked - end \in Int
            /\ q - end = (m - end) + (q - m)
            /\ marked - end <= m - end
            /\ m - end = marked - end \/ m - end = 0
        BY <1>2, <1>3
      <4>2. Owing = m - end
        BY <1>2, <1>3, <2>8 DEF Owing
      <4>3. Owing' = q - end
        BY <1>1, <1>2, <1>3, <2>2, <2>8 DEF Owing
      <4> QED
        BY <3>1, <4>1, <4>2, <4>3
    <3>3. PICK sound \in Nat, waits \in Nat, late \in Nat, asked \in Nat :
            /\ sound = total * Second /\ waits = lead * Second
            /\ late = behind * Rate /\ asked = wait * Rate
            /\ asked = waits + rest
            /\ (total + lead) * Second = sound + waits
            /\ (behind + wait) * Rate = late + asked
      <4>1. total * Second \in Nat /\ lead * Second \in Nat /\ behind * Rate \in Nat
            /\ wait * Rate \in Nat
        BY <1>2, SMTT(30)
      <4>2. (total + lead) * Second = total * Second + lead * Second
        BY <1>2, Scaled
      <4>3. (behind + wait) * Rate = behind * Rate + wait * Rate
        BY <1>2, Scaled
      <4>4. wait * Rate = lead * Second + rest
        BY <2>1, <3>2, SamplesFit
      <4> QED
        BY <4>1, <4>2, <4>3, <4>4
    <3>4. ASSUME n # 0
          PROVE  /\ ~stale => sound <= late + short
                 /\ sound >= late - cut
      <4>1. ~stale => sound <= late + short
        BY <1>1, <1>2, <2>4, <3>2, <3>3, <3>4 DEF Owed
      <4>2. sound >= gone * Rate - cut
        BY <1>2, <2>4, <2>8, <3>2, <3>3, <3>4 DEF Owed
      <4>3. CASE behind = 0
        <5>1. late = 0
          BY <1>2, <3>3, <4>3
        <5> QED
          BY <1>2, <4>1, <5>1
      <4>4. CASE behind = gone
        BY <3>3, <4>1, <4>2, <4>4
      <4> QED
        BY <3>2, <4>3, <4>4
    <3>5. total >= behind * Samples(1)
      <4>1. total >= gone * Samples(1)
        BY <1>2, <2>4, <2>8, <3>2 DEF Owed
      <4>2. CASE behind = 0
        <5>1. behind * Samples(1) = 0
          BY <1>2, <4>2
        <5> QED
          BY <5>1
      <4> QED
        BY <3>2, <4>1, <4>2
    <3>6. n = 0 => sound = 0 /\ late = 0
      <4> SUFFICES ASSUME n = 0 PROVE sound = 0 /\ late = 0
        OBVIOUS
      <4>1. total = 0 /\ sound = 0
        BY <1>2, <2>4, <3>3
      <4>2. Samples(1) >= 1
        <5>1. 1 * Second <= 1 * Rate
          BY <1>2 DEF WholeSteps
        <5> QED
          BY <5>1, SamplesAreMost
      <4>3. behind * 1 <= Samples(1) * behind
        BY <1>2, <4>2, Scaled
      <4>4. behind = 0
        <5>1. Samples(1) * behind = behind * Samples(1) /\ behind * 1 = behind
          BY <1>2, SMTT(30)
        <5>2. PICK x \in Int : x = behind * Samples(1)
          BY <1>2, Scaled
        <5> QED
          BY <3>5, <4>1, <4>3, <5>1, <5>2
      <4> QED
        BY <1>2, <3>3, <4>1, <4>4
    <3>7. /\ n = 0 => short' = 0 /\ cut' = rest
          /\ n # 0 => short' = short /\ cut' = cut + rest
      <4>1. /\ Since(short) = IF n = 0 THEN 0 ELSE short
            /\ Since(cut) = IF n = 0 THEN 0 ELSE cut
        BY <2>4 DEF Since
      <4> QED
        BY <1>2, <2>1, <2>2, <4>1
    <3>8. /\ ~stale' => sound <= late + short'
          /\ sound >= late + rest - cut'
      <4>1. ~stale' => n = 0 \/ ~stale
        BY <2>2, <2>4
      <4>2. CASE n = 0
        BY <3>6, <3>7, <4>2
      <4>3. CASE n # 0
        BY <1>2, <3>4, <3>7, <4>1, <4>3
      <4> QED
        BY <4>2, <4>3
    <3>9. Owed(total + lead)'
      <4>1. /\ Owing' * Rate = late + asked
            /\ (marked' - Come') * Rate = late + asked
        <5>1. marked' - Come' = behind + wait
          BY <1>2, <2>2, <3>2
        <5> QED
          BY <3>2, <3>3, <5>1
      <4>2. /\ (total + lead + Handed') * Second = sound + waits
            /\ total + lead + Handed' = total + lead
        <5>1. total + lead + Handed' = total + lead
          BY <1>2
        <5> QED
          BY <3>3, <5>1
      <4>3. ~stale' => sound + waits <= late + asked + short'
        BY <3>3, <3>7, <3>8, <1>2
      <4>4. sound + waits >= late + asked - cut'
        <5>1. cut' \in Nat
          BY DEF Sound
        <5> QED
          BY <3>3, <3>8, <5>1
      <4>5. total + lead >= (marked' - Come') * Samples(1)
        <5>1. marked' - Come' = behind + wait
          BY <1>2, <2>2, <3>2
        <5>2. wait * Samples(1) <= lead
          BY <2>1, <3>2, SamplesGrow
        <5>3. (behind + wait) * Samples(1) = behind * Samples(1) + wait * Samples(1)
          BY <1>2, Scaled
        <5>4. PICK x \in Int, y \in Int : x = behind * Samples(1) /\ y = wait * Samples(1)
          BY <1>2, Scaled
        <5> QED
          BY <3>5, <5>1, <5>2, <5>3, <5>4
      <4>6. ~stale' => (total + lead + Handed') * Second <= Owing' * Rate + short'
        BY <4>1, <4>2, <4>3
      <4>7. (total + lead + Handed') * Second >= (marked' - Come') * Rate - cut'
        <5>1. cut' \in Nat
          BY DEF Sound
        <5> QED
          BY <3>3, <4>1, <4>2, <4>4, <5>1
      <4>8. total + lead + Handed' >= (marked' - Come') * Samples(1)
        BY <4>2, <4>5
      <4> QED
        BY <4>6, <4>7, <4>8 DEF Owed
    <3>10. ASSUME ~stale' PROVE InPlace(v)'
      <4> SUFFICES ASSUME NEW i \in 1..(n + 1)
                   PROVE  /\ -short' <= marks'[i].place - v[i] * Second
                          /\ marks'[i].place - v[i] * Second <= cut'
        BY <2>6 DEF InPlace
      <4>1. CASE i = n + 1
        <5>1. v[i] * Second = sound + waits /\ marks'[i].place = late + asked
          <6>1. v[i] = total + lead
            BY <2>5, <2>6, <4>1
          <6>2. place = late + asked
            BY <2>1, <3>2, <3>3
          <6> QED
            BY <2>6, <3>3, <4>1, <6>1, <6>2
        <5>2. short' \in Nat /\ cut' \in Nat
          BY DEF Sound
        <5>3. sound <= late + short' /\ sound >= late + rest - cut'
          BY <3>8, <3>10
        <5> QED
          BY <3>3, <5>1, <5>2, <5>3
      <4>2. CASE i \in 1..n
        <5>1. n # 0 /\ ~stale /\ InPlace(w) /\ i \in 0..n
          <6>1. n # 0 /\ i \in 0..n /\ marks # <<>>
            BY <2>4, <4>2
          <6>2. ~stale
            BY <2>2, <3>10, <6>1
          <6>3. stale \/ InPlace(w)
            BY <2>4, Zenon
          <6> QED
            BY <6>1, <6>2, <6>3
        <5>2. /\ -short <= marks[i].place - w[i] * Second
              /\ marks[i].place - w[i] * Second <= cut
          BY <2>4, <4>2, <5>1 DEF InPlace
        <5>3. PICK x \in Int : x = marks[i].place - w[i] * Second
          <6>1. w[i] \in Nat /\ marks[i] \in Waits
            BY <2>4, <4>2, <5>1 DEF Totalled
          <6>2. marks[i].place \in Int /\ w[i] * Second \in Int
            BY <1>2, <6>1, Scaled DEF Waits
          <6> QED
            BY <6>2
        <5>4. marks'[i].place - v[i] * Second = x
          BY <2>5, <2>6, <4>2, <5>1, <5>3
        <5>5. short' = short /\ cut' = cut + rest
          BY <3>7, <5>1
        <5> QED
          BY <1>2, <5>2, <5>3, <5>4, <5>5
      <4> QED
        BY <4>1, <4>2
    <3>11. Placed(v)'
      <4>1. Owed(v[Len(marks)])'
        BY <2>5, <3>9 DEF Owed
      <4>2. (stale \/ InPlace(v))'
        BY <3>10
      <4> QED
        BY <2>5, <4>1, <4>2 DEF Placed
    <3> QED
      BY <2>3, <3>11
  <2> QED
    BY <2>7, <2>8
<1> QED
  BY <1>5, <1>6

(* The marks at the head that a piece makes due waited for just that.      *)
LEMMA DueWaitedForIt ==
  ASSUME NEW w, NEW d \in Nat, NEW p \in Nat, d <= Len(marks), Totalled(w),
         Len(marks) \in Nat,
         \A i \in 1..d : marks[i].lead = IF i = 1 THEN p ELSE 0
  PROVE  \A i \in 1..d : w[i] = p
<1> DEFINE Others == {i \in 1..d : w[i] # p}
<1>1. CASE Others = {}
  BY <1>1
<1>2. CASE Others # {}
  <2>1. PICK k \in Others : \A j \in Others : k <= j
    <3>1. Others \in SUBSET Nat
      OBVIOUS
    <3> HIDE DEF Others
    <3> QED
      BY <1>2, <3>1, Least
  <2>2. k \in 1..d /\ k \in 1..Len(marks) /\ w[k] # p
    OBVIOUS
  <2>3. w[k] = w[k - 1] + marks[k].lead /\ w[0] = 0
    BY <2>2 DEF Totalled
  <2>4. CASE k = 1
    BY <2>2, <2>3, <2>4
  <2>5. CASE k # 1
    <3>1. k - 1 \in 1..d /\ ~(k <= k - 1)
      BY <2>2, <2>5
    <3>2. w[k - 1] = p
      BY <2>1, <3>1
    <3> QED
      BY <2>2, <2>3, <2>5, <3>2
  <2> QED
    BY <2>4, <2>5
<1> QED
  BY <1>1, <1>2

LEMMA PlacedHandPiece ==
  ASSUME Gen, Sound, Sound', frame # NoFrame, NEW w, Placed(w), HandPiece
  PROVE  (\E v : Placed(v)') /\ MarkKeepsItsPlace'
<1>1. /\ handing > 0
      /\ UNCHANGED <<playing, marked, phase, end, at, interrupt, frame, short,
                     cut, stale>>
  BY DEF HandPiece, generatorVars, totals, walkVars, callVars, historyVars
<1>2. PICK n \in Nat, p \in Nat :
        /\ n = Len(marks) /\ p = Piece
        /\ marks \in Seq(Waits)
        /\ n # 0 <=> marks # <<>>
  BY <1>1, Pieces DEF Sound
<1>3. PICK row \in Seq(Waits) :
        /\ row = Reduced(p)
        /\ \A i \in 1..n :
             /\ row[i].lead = IF i = 1 THEN marks[i].lead - p ELSE marks[i].lead
             /\ row[i].place = marks[i].place - p * Second
        /\ n # 0 => p <= marks[1].lead
  BY <1>1, <1>2, Pieces
<1>4. PICK d \in 0..n :
        /\ handing' = handing - p /\ handing' \in Nat
        /\ Len(marks') = n - d
        /\ \A i \in 1..(n - d) : marks'[i] = row[i + d]
        /\ told' = {row[i].place : i \in 1..d}
        /\ \A i \in 1..d : row[i].lead = 0
        /\ marks' \in Seq(Waits)
  <2>1. PICK e \in 0..Len(marks) :
          /\ handing' = handing - Piece /\ handing' \in Nat
          /\ marks' \in Seq(Waits) /\ Len(marks') = Len(marks) - e
          /\ \A i \in 1..(Len(marks) - e) : marks'[i] = Reduced(Piece)[i + e]
          /\ told' = {Reduced(Piece)[i].place : i \in 1..e}
          /\ \A i \in 1..e : Reduced(Piece)[i].lead = 0
    BY HandedPiece
  <2>2. Reduced(Piece) = row /\ Piece = p /\ Len(marks) = n
    BY <1>2, <1>3
  <2> QED
    BY <2>1, <2>2, Zenon
<1>5. /\ w \in [0..n -> Nat] /\ w[0] = 0
      /\ \A i \in 1..n : w[i] = w[i - 1] + marks[i].lead
      /\ \A i, j \in 0..n : i <= j => w[i] <= w[j]
      /\ Totalled(w) /\ Owed(w[n])
      /\ stale \/ InPlace(w)
  BY <1>2 DEF Placed, Totalled
<1>6. ASSUME NEW i \in 1..n
      PROVE  /\ marks[i].lead \in Nat /\ marks[i].place \in Int
             /\ w[i] \in Nat /\ p <= w[i] /\ i \in 0..n
  <2>1. marks[i] \in Waits /\ i \in 0..n /\ 1 \in 1..n /\ 1 \in 0..n /\ n # 0
    BY <1>2
  <2>2. w[1] = marks[1].lead /\ marks[1] \in Waits
    <3>1. w[1] = w[0] + marks[1].lead
      <4>1. 1 - 1 = 0
        OBVIOUS
      <4> QED
        BY <1>5, <2>1, <4>1
    <3>2. marks[1] \in Waits
      BY <1>2, <2>1
    <3> QED
      BY <1>5, <3>1, <3>2 DEF Waits
  <2>3. w[1] <= w[i] /\ w[i] \in Nat /\ w[1] \in Nat
    BY <1>5, <2>1
  <2>4. p <= w[1]
    BY <1>3, <2>1, <2>2
  <2> QED
    BY <2>1, <2>3, <2>4 DEF Waits
<1>7. \A i \in 1..d : w[i] = p
  <2>1. \A i \in 1..d : marks[i].lead = IF i = 1 THEN p ELSE 0
    <3>1. ASSUME NEW i \in 1..d
          PROVE  marks[i].lead = IF i = 1 THEN p ELSE 0
      <4>1. i \in 1..n /\ row[i].lead = 0
        BY <1>4
      <4> QED
        BY <1>3, <1>6, <4>1
    <3> QED
      BY <3>1
  <2>2. d \in Nat /\ d <= Len(marks) /\ Len(marks) \in Nat
    BY <1>2
  <2> QED
    BY <1>5, <2>1, <2>2, DueWaitedForIt
<1>8. PICK v : v = [i \in 0..(n - d) |-> IF i = 0 THEN 0 ELSE w[i + d] - p]
  OBVIOUS
<1>9. /\ v[0] = 0
      /\ \A i \in 1..(n - d) : /\ v[i] = w[i + d] - p /\ v[i] \in Nat
                               /\ i + d \in 1..n
      /\ d # 0 => w[d] - p = 0
      /\ v \in [0..(n - d) -> Nat]
  <2>1. v[0] = 0
    BY <1>8
  <2>2. ASSUME NEW i \in 1..(n - d)
        PROVE  v[i] = w[i + d] - p /\ v[i] \in Nat /\ i + d \in 1..n
    <3>1. i + d \in 1..n /\ i \in 0..(n - d) /\ i # 0
      OBVIOUS
    <3>2. v[i] = w[i + d] - p
      BY <1>8, <3>1
    <3> QED
      BY <1>6, <3>1, <3>2
  <2>3. d # 0 => w[d] - p = 0
    <3>1. d # 0 => d \in 1..d
      OBVIOUS
    <3> QED
      BY <1>7, <3>1
  <2>4. v \in [0..(n - d) -> Nat]
    <3>1. ASSUME NEW i \in 0..(n - d) PROVE v[i] \in Nat
      <4>1. i = 0 \/ i \in 1..(n - d)
        OBVIOUS
      <4> QED
        BY <2>1, <2>2, <4>1
    <3> QED
      BY <1>8, <3>1
  <2> QED
    BY <2>1, <2>2, <2>3, <2>4
<1>10. Totalled(v)'
  <2>1. ASSUME NEW i \in 1..(n - d)
        PROVE  v[i] = v[i - 1] + marks'[i].lead
    <3>1. PICK k \in 1..n : /\ k = i + d /\ marks'[i] = row[k] /\ v[i] = w[k] - p
                            /\ w[k] = w[k - 1] + marks[k].lead
      BY <1>4, <1>5, <1>9
    <3>2. CASE k = 1
      <4>1. i = 1 /\ d = 0 /\ k - 1 = 0 /\ i - 1 = 0
        BY <3>1, <3>2
      <4>2. row[k].lead = marks[k].lead - p /\ marks[k].lead \in Nat
        BY <1>3, <1>6, <3>1, <3>2
      <4>3. w[k - 1] = 0 /\ v[i - 1] = 0
        BY <1>5, <1>9, <4>1
      <4>4. w[k] = marks[k].lead
        BY <3>1, <4>2, <4>3
      <4>5. v[i] = marks'[i].lead
        BY <3>1, <4>2, <4>4
      <4>6. marks'[i].lead \in Nat
        BY <1>9, <4>5
      <4> QED
        BY <4>3, <4>5, <4>6
    <3>3. CASE k # 1
      <4>1. row[k].lead = marks[k].lead
        BY <1>3, <3>1, <3>3
      <4>2. v[i - 1] = w[k - 1] - p
        <5>1. CASE i = 1
          <6>1. k - 1 = d /\ d # 0 /\ i - 1 = 0
            BY <3>1, <3>3, <5>1
          <6> QED
            BY <1>9, <6>1
        <5>2. CASE i # 1
          <6>1. i - 1 \in 1..(n - d) /\ (i - 1) + d = k - 1
            BY <3>1, <5>2
          <6> QED
            BY <1>9, <6>1
        <5> QED
          BY <5>1, <5>2
      <4>3. w[k - 1] \in Nat /\ marks[k].lead \in Nat
        <5>1. k - 1 \in 0..n
          OBVIOUS
        <5> QED
          BY <1>5, <1>6, <5>1
      <4> QED
        BY <3>1, <4>1, <4>2, <4>3
    <3> QED
      BY <3>2, <3>3
  <2>2. ASSUME NEW i \in 0..(n - d), NEW j \in 0..(n - d), i <= j
        PROVE  v[i] <= v[j]
    <3>1. CASE i = 0
      <4>1. v[j] \in Nat
        BY <1>9
      <4> QED
        BY <1>9, <3>1, <4>1
    <3>2. CASE i # 0
      <4>1. /\ i \in 1..(n - d) /\ j \in 1..(n - d)
            /\ i + d \in 1..n /\ j + d \in 1..n /\ i + d <= j + d
        BY <2>2, <3>2
      <4>2. w[i + d] <= w[j + d] /\ w[i + d] \in Nat /\ w[j + d] \in Nat
        BY <1>5, <1>6, <4>1
      <4> QED
        BY <1>9, <4>1, <4>2
    <3> QED
      BY <3>1, <3>2
  <2> QED
    BY <1>4, <1>9, <2>1, <2>2 DEF Totalled
<1>11. PICK step \in Int : step = p * Second /\ Second \in Nat
  BY RateAssumption, Scaled
<1>12. ASSUME NEW k \in 1..n, ~stale
       PROVE  /\ row[k].place = marks[k].place - step
              /\ w[k] * Second \in Int
              /\ (w[k] - p) * Second = w[k] * Second - step
              /\ -short <= row[k].place - (w[k] - p) * Second
              /\ row[k].place - (w[k] - p) * Second <= cut
  <2>1. /\ row[k].place = marks[k].place - step
        /\ w[k] \in Nat /\ marks[k].place \in Int
    BY <1>3, <1>6, <1>11
  <2>2. w[k] * Second \in Int /\ (w[k] - p) * Second = w[k] * Second - step
    <3>1. PICK x \in Int, y \in Int : x = w[k] /\ y = p
      BY <2>1
    <3>2. x * Second \in Int /\ (x - y) * Second = x * Second - y * Second
      BY <1>11, Scaled
    <3> QED
      BY <1>11, <3>1, <3>2
  <2>3. /\ -short <= marks[k].place - w[k] * Second
        /\ marks[k].place - w[k] * Second <= cut
    BY <1>2, <1>5, <1>12 DEF InPlace
  <2>4. row[k].place - (w[k] - p) * Second = marks[k].place - w[k] * Second
    BY <1>11, <2>1, <2>2
  <2> QED
    BY <2>1, <2>2, <2>3, <2>4
<1>13. ASSUME ~stale PROVE InPlace(v)'
  <2>1. ASSUME NEW i \in 1..(n - d)
        PROVE  /\ -short <= marks'[i].place - v[i] * Second
               /\ marks'[i].place - v[i] * Second <= cut
    <3>1. i + d \in 1..n /\ marks'[i] = row[i + d] /\ v[i] = w[i + d] - p
      BY <1>4, <1>9
    <3> QED
      BY <1>12, <1>13, <3>1
  <2> QED
    BY <1>1, <1>4, <2>1 DEF InPlace
<1>14. MarkKeepsItsPlace'
  <2>1. ASSUME ~stale, NEW i \in 1..d
        PROVE  -short <= row[i].place /\ row[i].place <= cut
    <3>1. i \in 1..n /\ w[i] - p = 0
      <4>1. i \in 1..n
        OBVIOUS
      <4> QED
        BY <1>6, <1>7, <4>1
    <3>2. row[i].place - (w[i] - p) * Second = row[i].place
      <4>1. row[i].place \in Int
        <5>1. i \in 1..n /\ row \in Seq(Waits) /\ Len(row) = n
          BY <1>1, <1>2, <1>3, <3>1, Pieces
        <5>2. row[i] \in Waits
          BY <5>1
        <5> QED
          BY <5>2 DEF Waits
      <4>2. 0 * Second = 0
        BY <1>11
      <4>3. (w[i] - p) * Second = 0
        BY <3>1, <4>2
      <4> QED
        BY <4>1, <4>3
    <3> QED
      BY <1>12, <2>1, <3>1, <3>2
  <2> QED
    BY <1>1, <1>4, <2>1 DEF MarkKeepsItsPlace
<1>15. PICK total \in Nat, given \in Int : total = w[n] /\ given = Handed
  <2>1. n \in 0..n
    OBVIOUS
  <2> QED
    BY <1>5, <2>1, PlaceTyped
<1>16. Handed' = given + p
  <2>1. Samples(frame.length) \in Nat /\ handing \in Nat
    BY SamplesFit DEF Gen, Course, Frames, Sound
  <2> QED
    BY <1>1, <1>4, <1>15, <2>1 DEF Handed
<1>17. Come' = Come /\ Owing' = Owing
  BY <1>1 DEF Come, Owing
<1>18. Owed(v[n - d])'
  <2>1. CASE d < n
    <3>1. n - d \in 1..(n - d) /\ (n - d) + d = n /\ marks # <<>>
      BY <1>2, <2>1
    <3>2. v[n - d] = total - p
      BY <1>9, <1>15, <3>1
    <3>3. v[n - d] + Handed' = total + given
      BY <1>15, <1>16, <3>2
    <3>4. Owed(total)
      BY <1>5, <1>15
    <3> QED
      BY <1>1, <1>15, <1>17, <3>1, <3>3, <3>4 DEF Owed
  <2>2. CASE d = n
    <3>1. marks' = <<>> /\ v[n - d] = 0
      <4>1. Len(marks') = 0 /\ n - d = 0
        BY <1>4, <2>2
      <4> QED
        BY <1>4, <1>9, <4>1
    <3>2. total <= p
      <4>1. CASE n = 0
        BY <1>5, <1>15, <4>1
      <4>2. CASE n # 0
        BY <1>9, <1>15, <2>2, <4>2
      <4> QED
        BY <4>1, <4>2
    <3>3. ASSUME playing PROVE v[n - d] + Handed' >= (marked - Come) * Samples(1)
      <4>1. total + given >= (marked - Come) * Samples(1)
        BY <1>5, <1>15, <3>3 DEF Owed
      <4>2. (marked - Come) * Samples(1) \in Int
        <5>1. marked - Come \in Int /\ Samples(1) \in Nat
          BY PlaceTyped
        <5> QED
          BY <5>1, Scaled
      <4>3. v[n - d] + Handed' = given + p
        BY <1>15, <1>16, <3>1
      <4> QED
        BY <1>15, <3>2, <4>1, <4>2, <4>3
    <3> QED
      BY <1>1, <1>17, <3>1, <3>3 DEF Owed
  <2> QED
    BY <2>1, <2>2
<1>19. Placed(v)'
  <2>1. Owed(v[Len(marks)])'
    BY <1>4, <1>18 DEF Owed
  <2>2. (stale \/ InPlace(v))'
    BY <1>1, <1>13
  <2> QED
    BY <1>10, <2>1, <2>2 DEF Placed
<1> QED
  BY <1>14, <1>19

(* A frame begins with nothing of it handed over.                          *)
LEMMA PlacedSendFrame ==
  ASSUME Gen, Sound, Gen', Sound', MarkInv, NEW w, Placed(w), SendFrame
  PROVE  Placed(w)'
<1>1. /\ frame = NoFrame /\ phase # "rules"
      /\ handing' = Samples(frame'.length)
      /\ UNCHANGED <<marks, stale, short, cut, playing, marked, phase, end, at,
                     interrupt>>
  BY DEF SendFrame, MakeFrame, InWindow, historyVars, totals, walkVars, callVars
<1>2. Handed = 0
  BY <1>1, PlaceTyped
<1>3. Handed' = 0
  <2>1. frame' = NoFrame => Handed' = 0
    BY DEF Handed
  <2>2. frame' # NoFrame => frame' \in Frames
    BY DEF Gen, Course
  <2>3. frame' # NoFrame => frame'.length \in Nat
    BY <2>2 DEF Frames
  <2>4. frame' # NoFrame => Samples(frame'.length) \in Nat
    BY <2>3, SamplesFit
  <2>5. frame' # NoFrame => Handed' = Samples(frame'.length) - Samples(frame'.length)
    BY <1>1 DEF Handed
  <2> QED
    BY <2>1, <2>4, <2>5
<1>4. Come' = Come /\ Owing' = Owing
  BY <1>1 DEF Come, Owing
<1>5. Owed(w[Len(marks)])'
  <2>1. Owed(w[Len(marks)])
    BY DEF Placed
  <2> QED
    BY <1>1, <1>2, <1>3, <1>4, <2>1 DEF Owed
<1> QED
  BY <1>1, <1>5 DEF Placed, Totalled, InPlace

(* The sound of a frame comes off what the marks wait for, and the moments *)
(* it covers off what is owed.                                             *)
LEMMA PlacedFrameMade ==
  ASSUME WholeSteps, Gen, Sound, Gen', Sound', NEW w, Placed(w), FrameMade
  PROVE  Placed(w)'
<1>1. /\ frame # NoFrame /\ frame' = NoFrame /\ handing = 0 /\ at' = at + Step
      /\ UNCHANGED <<marks, playing, marked, phase, end, interrupt>>
      /\ stale' = (marks # <<>> /\ stale)
      /\ cut' = Since(cut)
  BY DEF FrameMade, NextFrame, totals, callVars
<1>2. /\ at < end /\ frame.length = Length /\ phase # "rules" /\ playing
      /\ marked <= end \/ \E j \in Nat : end = at + j * Step
  BY <1>1 DEF Gen, Course, Known
<1>3. /\ marked \in Nat /\ at \in Nat /\ end \in Nat /\ Step \in Nat /\ Step # 0
      /\ Come = at /\ Come' = at + Step
      /\ Rate \in Nat /\ Second \in Nat /\ Samples(1) \in Nat
      /\ short \in Nat /\ cut \in Nat
  BY <1>1, <1>2, PlaceTyped, StepAssumption DEF Come
<1>4. PICK length \in Nat, covered \in Nat :
        /\ length = Length /\ covered = Covered /\ length <= Step
        /\ at + Step <= end => covered = Step
        /\ at + Step > end => covered = end - at
  BY <1>2, <1>3, LengthIsAStep
<1>5. PICK sent \in Nat, made \in Nat, asked \in Nat :
        /\ sent = Samples(length) /\ made = sent * Second /\ asked = covered * Rate
  <2>1. Samples(length) \in Nat /\ Samples(length) * Second \in Nat
    BY SamplesFit
  <2>2. covered * Rate \in Nat
    BY <1>3, SMTT(30)
  <2> QED
    BY <2>1, <2>2
<1>6. Handed = sent /\ Handed' = 0
  BY <1>1, <1>2, <1>4, <1>5 DEF Handed
<1>7. PICK most \in Nat : /\ most = Further(asked, made)
                          /\ asked <= most /\ made <= most
  BY FurtherIs
<1>8. short' = Since(short + (most - made))
  BY <1>2, <1>4, <1>5, <1>7 DEF FrameMade
<1>9. PICK owing \in Nat, left \in Nat :
        /\ owing = Owing /\ left = Owing'
        /\ owing <= left + covered
  <2>1. marked <= at => Owing = 0 /\ Owing' = 0
    BY <1>1, <1>3 DEF Owing
  <2>2. marked > at => Owing = marked - at
    BY <1>1, <1>2, <1>3 DEF Owing
  <2>3. marked > at + Step => Owing' = marked - (at + Step)
    BY <1>1, <1>2, <1>3 DEF Owing
  <2>4. marked <= at + Step => Owing' = 0
    BY <1>1, <1>3 DEF Owing
  <2>5. at + Step > end => marked <= end
    <3>1. ASSUME at + Step > end, NEW j \in Nat, end = at + j * Step
          PROVE  FALSE
      <4>1. j # 0
        BY <1>2, <1>3, <3>1
      <4>2. 1 <= j /\ 1 * Step = Step
        BY <1>3, <4>1
      <4>3. 1 * Step <= j * Step /\ j * Step \in Int
        BY <1>3, <4>2, Scaled
      <4> QED
        BY <1>3, <3>1, <4>2, <4>3
    <3> QED
      BY <1>2, <3>1
  <2>6. CASE at + Step <= end
    BY <1>3, <1>4, <2>1, <2>2, <2>3, <2>4, <2>6
  <2>7. CASE at + Step > end
    BY <1>2, <1>3, <1>4, <2>1, <2>2, <2>4, <2>5, <2>7
  <2> QED
    BY <1>3, <2>6, <2>7
<1>10. PICK total \in Nat : total = w[Len(marks)] /\ Owed(total) /\ Totalled(w)
  <2>1. w \in [0..Len(marks) -> Nat] /\ Len(marks) \in 0..Len(marks)
    BY PlaceTyped DEF Placed, Totalled
  <2> QED
    BY <2>1 DEF Placed
<1>11. PICK sound \in Nat :
         sound = total * Second /\ (total + sent) * Second = sound + made
  <2>1. total * Second \in Nat
    BY <1>3, <1>10, SMTT(30)
  <2>2. (total + sent) * Second = total * Second + sent * Second
    BY <1>3, <1>5, <1>10, Scaled
  <2> QED
    BY <1>5, <2>1, <2>2
<1>12. PICK before \in Int, after \in Int :
         before = marked - at /\ after = marked - (at + Step) /\ after = before - Step
  BY <1>3
<1>13. ASSUME ~stale', ~interrupt', marks # <<>>
       PROVE  sound <= left * Rate + short'
  <2>1. sound + made <= owing * Rate + short
    BY <1>1, <1>6, <1>9, <1>10, <1>11, <1>13 DEF Owed
  <2>2. short' = short + (most - made)
    BY <1>8, <1>13 DEF Since
  <2>3. PICK x \in Int, y \in Int :
          x = owing * Rate /\ y = left * Rate /\ x <= y + asked
    <3>1. /\ owing * Rate \in Int /\ left * Rate \in Int
          /\ owing * Rate <= (left + covered) * Rate
          /\ (left + covered) * Rate = left * Rate + covered * Rate
      <4>1. owing \in Nat /\ left \in Nat /\ owing <= left + covered
        BY <1>9
      <4>2. PICK a \in Nat, b \in Nat : a = owing /\ b = left + covered /\ a <= b
        BY <1>4, <4>1
      <4>3. a * Rate \in Int /\ a * Rate <= b * Rate
        BY <1>3, <4>2, Scaled
      <4>4. /\ left * Rate \in Int
            /\ (left + covered) * Rate = left * Rate + covered * Rate
        BY <1>3, <1>4, <1>9, Scaled
      <4> QED
        BY <4>2, <4>3, <4>4
    <3> QED
      BY <1>5, <3>1
  <2> QED
    BY <1>3, <1>7, <2>1, <2>2, <2>3
<1>14. ASSUME marks # <<>>
       PROVE  sound >= after * Rate - cut
  <2>1. sound + made >= before * Rate - cut
    BY <1>2, <1>3, <1>6, <1>10, <1>11, <1>12, <1>14 DEF Owed
  <2>2. made <= Step * Rate /\ Step * Rate \in Int
    <3>1. /\ length * Rate \in Int /\ length * Rate <= Step * Rate
          /\ Step * Rate \in Int
      BY <1>3, <1>4, Scaled
    <3>2. Rest(length) \in Nat /\ length * Rate = made + Rest(length)
      BY <1>5, SamplesFit
    <3> QED
      BY <3>1, <3>2
  <2>3. before * Rate \in Int /\ after * Rate = before * Rate - Step * Rate
    BY <1>3, <1>12, Scaled
  <2> QED
    BY <1>3, <2>1, <2>2, <2>3
<1>15. total >= after * Samples(1)
  <2>1. total + sent >= before * Samples(1)
    BY <1>2, <1>3, <1>6, <1>10, <1>12 DEF Owed
  <2>2. sent <= Step * Samples(1) /\ Step * Samples(1) \in Int
    <3>1. Samples(length) <= Samples(Step)
      BY <1>3, <1>4, SamplesGrow
    <3>2. Step * Samples(1) \in Int
      BY <1>3, Scaled
    <3> QED
      BY <1>5, <3>1, <3>2 DEF WholeSteps
  <2>3. /\ before * Samples(1) \in Int
        /\ after * Samples(1) = before * Samples(1) - Step * Samples(1)
    BY <1>3, <1>12, Scaled
  <2> QED
    BY <2>1, <2>2, <2>3
<1>16. Owed(total)'
  <2>1. PICK end0 \in Nat : end0 = Come' /\ marked - end0 = after
    BY <1>3, <1>12
  <2>2. total + Handed' = total
    BY <1>6
  <2>3. marks # <<>> => cut' = cut
    BY <1>1 DEF Since
  <2>4. marked' - Come' = after
    BY <1>1, <2>1
  <2> QED
    BY <1>1, <1>9, <1>11, <1>13, <1>14, <1>15, <2>2, <2>3, <2>4 DEF Owed
<1>17. (stale \/ InPlace(w))'
  <2>1. CASE marks = <<>>
    <3>1. Len(marks') = 0
      BY <1>1, <2>1
    <3> QED
      BY <3>1 DEF InPlace
  <2>2. CASE marks # <<>>
    <3>1. cut' = cut /\ stale' = stale
      <4>1. cut' = cut
        BY <1>1, <2>2 DEF Since
      <4>2. stale \in {TRUE, FALSE}
        BY DEF Sound
      <4>3. stale' = stale
        BY <1>1, <2>2, <4>2, Zenon
      <4> QED
        BY <4>1, <4>3
    <3>2. short' \in Nat /\ short <= short'
      BY <1>3, <1>7, <1>8, <2>2 DEF Since
    <3>3. ASSUME InPlace(w) PROVE InPlace(w)'
      <4>1. ASSUME NEW i \in 1..Len(marks)
            PROVE  -short' <= marks[i].place - w[i] * Second
        <5>1. /\ marks[i] \in Waits /\ i \in 0..Len(marks)
              /\ w \in [0..Len(marks) -> Nat]
          BY <1>10 DEF Sound, Totalled
        <5>2. marks[i].place \in Int /\ w[i] \in Nat
          BY <5>1 DEF Waits
        <5>3. w[i] * Second \in Int
          BY <1>3, <5>2, Scaled
        <5>4. -short <= marks[i].place - w[i] * Second
          BY <3>3 DEF InPlace
        <5> QED
          BY <1>3, <3>2, <5>2, <5>3, <5>4
      <4> QED
        BY <1>1, <3>1, <3>3, <4>1 DEF InPlace
    <3> QED
      BY <3>1, <3>3 DEF Placed
  <2> QED
    BY <2>1, <2>2
<1> QED
  BY <1>1, <1>10, <1>16, <1>17 DEF Placed, Totalled

LEMMA CaughtUp ==
  /\ marked \in Nat /\ Come \in Nat /\ marked <= Come => Owing = 0
  /\ marked' \in Nat /\ Come' \in Nat /\ marked' <= Come' => Owing' = 0
<1>1. \A a, b \in Nat : a <= b => ~(a > b)
  OBVIOUS
<1> QED
  BY <1>1, Zenon DEF Owing

(* The rules ask for more: no mark is further ahead than it was.           *)
LEMMA PlacedSynthesize ==
  ASSUME Gen, Sound, Gen', Sound', NEW w, Placed(w),
         NEW to, NEW last \in BOOLEAN, NEW changed \in BOOLEAN,
         Synthesize(to, last, changed),
         UNCHANGED <<marks, stale, short, cut, interrupt>>
  PROVE  Placed(w)'
<1>1. /\ phase = "rules" /\ frame = NoFrame /\ frame' = NoFrame
      /\ phase' # "rules" /\ playing' = TRUE
      /\ marked' = IF From = 0 THEN 0 ELSE marked
  <2>1. phase = "rules" /\ frame' = frame /\ playing' = TRUE
    BY DEF Synthesize
  <2>2. phase' # "rules" /\ marked' = IF From = 0 THEN 0 ELSE marked
    BY DEF Synthesize, Window
  <2> QED
    BY <2>1, <2>2 DEF Gen, Course
<1>2. /\ marked \in Nat /\ end \in Nat /\ limit \in Nat /\ reached \in Nat
      /\ Come = end /\ Come' = at' /\ at' \in Nat
      /\ marked' \in Nat
  BY <1>1, PlaceTyped, Clocked, ClockedNext DEF Come, Gen
<1>3. CASE ~playing
  <2>1. marked' = 0
    BY <1>1, <1>3 DEF From
  <2>2. marked' <= Come'
    BY <1>2, <2>1
  <2>3. Owing = 0 /\ Owing' = 0
    BY <1>2, <1>3, <2>2, CaughtUp DEF Owing
  <2> QED
    BY <1>1, <2>2, <2>3, PlacedMoves
<1>4. CASE playing
  <2>1. reached = end /\ marked <= limit /\ From = limit
    BY <1>4 DEF Gen, Course, From
  <2>2. marked' = marked
    BY <1>1, <1>2, <2>1
  <2>3. at' = reached
    <3>1. CASE changed
      BY <3>1 DEF Synthesize, Window
    <3>2. CASE ~changed
      BY <1>4, <3>2 DEF Synthesize, Window
    <3> QED
      BY <3>1, <3>2
  <2>4. Come' = Come
    BY <1>2, <2>1, <2>3
  <2>5. Owing' = Owing
    BY <1>1, <1>4, <2>2, <2>4 DEF Owing
  <2>6. marked' - Come' <= marked - Come
    BY <1>2, <2>2, <2>4
  <2> QED
    BY <1>1, <1>4, <2>5, <2>6, PlacedMoves
<1> QED
  BY <1>3, <1>4

(* A window ends, and another follows it or the rules go on: what is not   *)
(* interrupted has been made, but for what the last call leaves behind.    *)
LEMMA PlacedEndWindow ==
  ASSUME Gen, Sound, Gen', Sound', NEW w, Placed(w), EndWindow,
         at >= end \/ interrupt,
         UNCHANGED <<marks, stale, short, cut, interrupt>>
  PROVE  Placed(w)'
<1>1. /\ phase # "rules" /\ frame = NoFrame /\ frame' = NoFrame /\ playing
      /\ at < end + Step /\ reached = end /\ end <= limit /\ marked <= limit
      /\ marked <= end \/ \E j \in Nat : end = at + j * Step
  BY DEF EndWindow, Gen, Course, Known
<1>2. /\ marked \in Nat /\ end \in Nat /\ limit \in Nat /\ at \in Nat
      /\ Come = at /\ Come' \in Nat /\ marked' \in Nat /\ Step \in Nat
  <2>1. Come' \in Nat /\ marked' \in Nat
    BY ClockedNext DEF Gen, Come
  <2> QED
    BY <1>1, <2>1, PlaceTyped, StepAssumption DEF Come
<1>3. CASE phase = "again"
  <2>1. /\ phase' = "speak" /\ playing' = playing
        /\ call.from = limit /\ limit = end
        /\ marked' = IF call.from = 0 THEN 0 ELSE marked
        /\ at' = reached
    BY <1>3 DEF EndWindow, Window, Gen, Course
  <2>2. Come' = end /\ marked' <= end
    BY <1>1, <1>2, <2>1 DEF Come
  <2>3. ~interrupt => Owing = 0
    BY <1>1, <1>2, <2>1 DEF Owing
  <2>4. Owing' = 0
    BY <1>2, <2>2, CaughtUp
  <2> QED
    BY <1>1, <2>2, <2>3, <2>4, PlacedMoves
<1>4. CASE phase = "speak"
  <2>1. /\ phase' = "rules" /\ playing' = ~call.last
        /\ UNCHANGED <<marked, limit, end>>
    BY <1>4 DEF EndWindow, totals
  <2>2. Come' = end
    BY <2>1 DEF Come
  <2>3. CASE call.last
    <3>1. end = limit /\ ~playing'
      BY <1>4, <2>1, <2>3 DEF Gen, Course
    <3>2. ~interrupt => Owing = 0
      BY <1>1, <1>2, <3>1 DEF Owing
    <3>3. Owing' = 0
      BY <3>1 DEF Owing
    <3> QED
      BY <1>1, <3>1, <3>2, <3>3, PlacedMoves
  <2>4. CASE ~call.last
    <3>1. marked <= end \/ at <= end
      <4>1. ASSUME NEW j \in Nat, end = at + j * Step PROVE at <= end
        <5>1. 0 * Step <= j * Step /\ j * Step \in Int /\ 0 * Step = 0
          BY <1>2, Scaled
        <5> QED
          BY <1>2, <4>1, <5>1
      <4> QED
        BY <1>1, <4>1
    <3>2. playing' => marked' <= Come' \/ marked' - Come' <= marked - Come
      BY <1>2, <2>1, <2>2, <3>1
    <3>3. ASSUME ~interrupt PROVE Owing' = Owing
      <4>1. marked <= end \/ at = end
        BY <1>2, <3>1, <3>3
      <4>2. CASE marked <= end
        <5>1. marked <= at /\ marked' <= Come'
          BY <1>2, <2>1, <2>2, <3>3, <4>2
        <5> QED
          BY <1>2, <5>1, CaughtUp
      <4>3. CASE at = end
        <5>1. Come' = Come /\ playing' /\ marked' = marked
          BY <1>2, <2>1, <2>2, <2>4, <4>3
        <5> QED
          BY <1>1, <5>1 DEF Owing
      <4> QED
        BY <4>1, <4>2, <4>3
    <3> QED
      BY <1>1, <3>2, <3>3, PlacedMoves
  <2> QED
    BY <2>3, <2>4
<1> QED
  BY <1>1, <1>3, <1>4 DEF Gen, Timed

(* What is interrupted is owed no more.                                    *)
LEMMA PlacedInterrupt ==
  ASSUME NEW w, Placed(w), Interrupt
  PROVE  Placed(w)'
<1>1. /\ interrupt'
      /\ UNCHANGED <<marks, stale, short, cut, playing, marked, phase, end, at,
                     frame, handing>>
  BY DEF Interrupt, generatorVars, totals, walkVars, callVars, soundVars, historyVars
<1>2. Handed' = Handed /\ Come' = Come
  BY <1>1 DEF Handed, Come
<1>3. Owed(w[Len(marks)])'
  BY <1>1, <1>2 DEF Owed, Placed
<1> QED
  BY <1>1, <1>3 DEF Placed, Totalled, InPlace

LEMMA MarkStep ==
  ASSUME HalfWordGaps, WholeSteps
  PROVE  MarksInv /\ MarkInv /\ MarkKeepsItsPlace /\ [MarksNext]_allVars =>
           MarkInv' /\ MarkKeepsItsPlace'
<1> SUFFICES ASSUME MarksInv, MarkInv, MarkKeepsItsPlace, [MarksNext]_allVars
             PROVE  MarkInv' /\ MarkKeepsItsPlace'
  OBVIOUS
<1>1. /\ Gen /\ Sound /\ Gen' /\ Sound'
      /\ frame = NoFrame => handing = 0
      /\ phase = "rules" /\ playing => ~said
      /\ phase = "rules" => frame = NoFrame
  BY MarksStep DEF MarksInv, MarkInv, Gen, Course
<1>2. PICK w : Placed(w)
  BY DEF MarkInv
<1>3. told' = {} => MarkKeepsItsPlace'
  BY DEF MarkKeepsItsPlace
<1> DEFINE Same == UNCHANGED <<marks, stale, short, cut, playing, marked, phase,
                               end, at, interrupt, frame, handing>>
<1>4. Same /\ told' = {} /\ (said' = said \/ said' = FALSE) =>
        MarkInv' /\ MarkKeepsItsPlace'
  BY <1>1, <1>2, <1>3, PlacedStands DEF MarkInv
<1>5. ASSUME NEW gap \in Gaps, NEW value \in Values, Rules(WritePoint(gap, value))
      PROVE  MarkInv' /\ MarkKeepsItsPlace'
  <2>1. Same /\ told' = {} /\ said' = said
    BY <1>5 DEF Rules, WritePoint, totals, walkVars, callVars, soundVars, historyVars
  <2> QED
    BY <1>4, <2>1
<1>6. CASE Rules(StartOver)
  <2>1. Same /\ told' = {} /\ said' = FALSE
    BY <1>6 DEF Rules, StartOver, totals, walkVars, soundVars, historyVars
  <2> QED
    BY <1>4, <2>1
<1>7. ASSUME NEW to \in Asks, NEW last \in BOOLEAN, NEW changed \in BOOLEAN,
             Rules(Synthesize(to, last, changed))
      PROVE  MarkInv' /\ MarkKeepsItsPlace'
  <2>1. /\ Synthesize(to, last, changed) /\ told' = {}
        /\ UNCHANGED <<marks, stale, short, cut, interrupt, handing>>
    BY <1>7 DEF Rules, soundVars, historyVars
  <2>2. Placed(w)'
    BY <1>1, <1>2, <2>1, PlacedSynthesize
  <2>3. frame' = frame /\ phase' # "rules"
    BY <2>1 DEF Synthesize
  <2> QED
    BY <1>1, <1>3, <2>1, <2>2, <2>3 DEF MarkInv
<1>8. CASE InsertMark
  <2>1. (\E v : Placed(v)') /\ MarkKeepsItsPlace'
    BY <1>1, <1>2, <1>8, PlacedInsertMark
  <2>2. UNCHANGED <<phase, playing, said, frame, handing>>
    BY <1>8 DEF InsertMark, callVars, soundVars
  <2> QED
    BY <1>1, <2>1, <2>2 DEF MarkInv
<1>9. CASE Flush
  <2>1. /\ NoneWait /\ told' = {} /\ ~playing'
        /\ UNCHANGED <<phase, playing, said, frame, handing>>
    BY <1>1, <1>9 DEF Flush, generatorVars, callVars
  <2>2. \E v : Placed(v)'
    BY <2>1, PlacedNone
  <2> QED
    BY <1>1, <1>3, <2>1, <2>2 DEF MarkInv
<1>10. CASE Rules(Walk)
  <2>1. Same /\ told' = {} /\ said' = said
    BY <1>10 DEF Rules, Walk, totals, callVars, soundVars, historyVars
  <2> QED
    BY <1>4, <2>1
<1>11. CASE SendFrame
  <2>1. Placed(w)'
    BY <1>1, <1>2, <1>11, PlacedSendFrame
  <2>2. /\ frame'.at = at /\ told' = {} /\ phase # "rules"
        /\ UNCHANGED <<phase, playing, said>>
    BY <1>11 DEF SendFrame, MakeFrame, InWindow, callVars
  <2>3. frame' # NoFrame
    BY <1>1, <2>2, PlaceTyped DEF NoFrame
  <2> QED
    BY <1>3, <2>1, <2>2, <2>3 DEF MarkInv
<1>12. CASE HandPiece
  <2>1. frame # NoFrame /\ UNCHANGED <<phase, playing, said, frame>>
    <3>1. handing > 0
      BY <1>12 DEF HandPiece
    <3>2. UNCHANGED <<phase, playing, said, frame>>
      BY <1>12 DEF HandPiece, generatorVars, callVars
    <3> QED
      BY <1>1, <3>1, <3>2
  <2>2. (\E v : Placed(v)') /\ MarkKeepsItsPlace'
    BY <1>1, <1>2, <1>12, <2>1, PlacedHandPiece
  <2> QED
    BY <1>1, <2>1, <2>2 DEF MarkInv
<1>13. CASE FrameMade
  <2>1. Placed(w)'
    BY <1>1, <1>2, <1>13, PlacedFrameMade
  <2>2. /\ handing = 0 /\ told' = {}
        /\ UNCHANGED <<phase, playing, said, handing>>
    BY <1>13 DEF FrameMade, NextFrame, callVars
  <2> QED
    BY <1>1, <1>3, <2>1, <2>2 DEF MarkInv
<1>14. CASE WindowEnds
  <2>1. /\ EndWindow /\ told' = {}
        /\ at >= end \/ interrupt
        /\ UNCHANGED <<marks, stale, short, cut, interrupt, handing>>
    BY <1>14 DEF WindowEnds, soundVars, historyVars
  <2>2. Placed(w)'
    BY <1>1, <1>2, <2>1, PlacedEndWindow
  <2>3. /\ UNCHANGED <<frame, said>>
        /\ phase' = "rules" => playing' = ~call.last
        /\ said = call.last
    BY <1>1, <2>1 DEF EndWindow, Gen, Course
  <2> QED
    BY <1>1, <1>3, <2>1, <2>2, <2>3 DEF MarkInv
<1>15. CASE Interrupt
  <2>1. Placed(w)'
    BY <1>2, <1>15, PlacedInterrupt
  <2>2. told' = {} /\ UNCHANGED <<phase, playing, said, frame, handing>>
    BY <1>15 DEF Interrupt, generatorVars, callVars, soundVars
  <2> QED
    BY <1>1, <1>3, <2>1, <2>2 DEF MarkInv
<1>16. CASE Restart
  <2>1. /\ NoneWait /\ told' = {} /\ playing' = FALSE
        /\ UNCHANGED <<frame, handing>>
    BY <1>16 DEF Restart
  <2>2. \E v : Placed(v)'
    BY <2>1, PlacedNone
  <2> QED
    BY <1>1, <1>3, <2>1, <2>2 DEF MarkInv
<1>17. CASE UNCHANGED allVars
  <2>1. /\ UNCHANGED <<streamVars, generatorVars, indexVars>>
    BY <1>17 DEF allVars
  <2>2. Same /\ said' = said /\ told' = told
    BY <2>1 DEF generatorVars, indexVars, totals, walkVars, callVars, soundVars,
                historyVars
  <2>3. MarkKeepsItsPlace'
    BY <2>2 DEF MarkKeepsItsPlace
  <2>4. Placed(w)'
    BY <1>2, <2>2, PlacedStands
  <2> QED
    BY <1>1, <2>2, <2>3, <2>4 DEF MarkInv
<1> QED
  BY <1>5, <1>6, <1>7, <1>8, <1>9, <1>10, <1>11, <1>12, <1>13, <1>14, <1>15, <1>16,
     <1>17 DEF MarksNext

(* A mark is reported where the sound that was owed when it was put in has *)
(* been heard: no earlier than by what was cut off the waits, and no later *)
(* than by what the frames fell short, however the windows and the pieces  *)
(* are cut and whenever they are interrupted (ourKlattCallback and         *)
(* insertDelayedSynthIndex over iq_reduceLeadTime).                        *)
THEOREM MarksKeepTheirPlace ==
  ASSUME HalfWordGaps, WholeSteps PROVE MarksSpec => []MarkKeepsItsPlace
<1>1. MarksInit => MarkInv /\ MarkKeepsItsPlace
  <2>1. IndexInit => MarkKeepsItsPlace
    BY DEF IndexInit, MarkKeepsItsPlace
  <2> QED
    BY <2>1, MarkInitially DEF MarksInit
<1> QED
  BY <1>1, MarkStep, MarksInvCorrect, PTL DEF MarksSpec
=============================================================================
