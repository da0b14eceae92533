-------------------------------- MODULE Ring --------------------------------
(***************************************************************************)
(* The growing ring behind every queue of the library: of pointers in      *)
(* src/src/eci_etiqueue.c, of times and values in src/src/eci_tvqueue.c.   *)
(*                                                                         *)
(* A ring is a record: `there' that it has an array, `buf' the cells, and  *)
(* how many (`room'), where the next thing comes out (`head') and where    *)
(* the next one goes in (`tail').  The operators take a ring to the ring   *)
(* the code leaves; a cell nobody has written holds Junk.                  *)
(***************************************************************************)
EXTENDS Integers, Sequences

CONSTANT Junk

RingOf(buf, room, head, tail) ==
  [there |-> TRUE, buf |-> buf, room |-> room, head |-> head, tail |-> tail]

(* A ring fresh from its constructor, what is left of a ring whose array   *)
(* is gone, and a ring whose constructor found no memory.                  *)
Fresh(n) == RingOf([i \in 0..(n - 1) |-> Junk], n, 0, 0)
NoneOf(q) == [there |-> FALSE, buf |-> <<>>, room |-> q.room,
              head |-> q.head, tail |-> q.tail]
NoArray == NoneOf(Fresh(0))

IsEmpty(q) == ~q.there \/ q.head = q.tail

Size(q) == IF q.head > q.tail THEN q.room - q.head + q.tail
                              ELSE q.tail - q.head

(* The cell i places on from the head, round the end of the array.         *)
Cell(q, i) == IF q.head + i < q.room THEN q.buf[q.head + i]
                                     ELSE q.buf[q.head + i - q.room]

(* What is in a ring, oldest first.                                        *)
Contents(q) ==
  IF q.there THEN [i \in 1..Size(q) |-> Cell(q, i - 1)] ELSE <<>>

(* Slips the runs must be able to tell from the code: the tail runs off    *)
(* the end; the copy forgets where the head was; the floor is forgotten.   *)
CopyAcross(q, n, r) ==
  RingOf([i \in 0..(r - 1) |-> IF i < n THEN q.buf[i] ELSE Junk], r, 0, n)
NoFloor(q, want) == TRUE

After(q, i) == IF i + 1 = q.room THEN 0 ELSE i + 1
Before(q, i) == IF i = 0 THEN q.room - 1 ELSE i - 1

(* The first n things straightened out to the front of an array of r cells.*)
Straight(q, n, r) ==
  RingOf([i \in 0..(r - 1) |-> IF i < n THEN Cell(q, i) ELSE Junk], r, 0, n)

Doubled(q) == Straight(q, q.room, 2 * q.room)

(* The cell at the tail is written and the tail steps on.                  *)
Written(q, p) ==
  RingOf([q.buf EXCEPT ![q.tail] = p], q.room, q.head, After(q, q.tail))

(* A push is taken if the tail does not come round onto the head, or if    *)
(* there is memory for twice the room.                                     *)
Takes(q, memory) == q.there /\ (After(q, q.tail) = q.head => memory)

Push(q, p, memory) ==
  LET w == Written(q, p) IN
  CASE ~q.there                              -> q
    [] q.there /\ w.tail # w.head            -> w
    [] q.there /\ w.tail = w.head /\ memory  -> Doubled(w)
    [] q.there /\ w.tail = w.head /\ ~memory ->
         RingOf(w.buf, w.room, w.head, Before(w, w.tail))

(* What a pop hands out, and what it leaves; only of a ring with something *)
(* in it.                                                                  *)
Oldest(q) == q.buf[q.head]
Popped(q) == RingOf(q.buf, q.room, After(q, q.head), q.tail)

(* Half the room once less than half of it is used, and never less than    *)
(* was asked for.  An empty ring looks like a full one here, and keeps its *)
(* room.                                                                   *)
Roomy(q, want) == q.room > want

Shrunk(q, want) ==
  IF q.head # q.tail /\ Roomy(q, want) /\ Size(q) < q.room \div 2
    THEN Straight(q, Size(q), q.room \div 2)
    ELSE q

(* A ring is in order: it has an array of as many cells as it says, and    *)
(* both ends are in it.                                                    *)
InOrder(q, V) ==
  /\ q.there = TRUE
  /\ q.room \in Nat \ {0}
  /\ q.head \in 0..(q.room - 1)
  /\ q.tail \in 0..(q.room - 1)
  /\ q.buf \in [0..(q.room - 1) -> V \cup {Junk}]
=============================================================================
