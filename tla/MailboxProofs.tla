---------------------------- MODULE MailboxProofs ----------------------------
(***************************************************************************)
(* QueueThread implements Mailbox, for any set of clients and any number   *)
(* of messages: with its locks, events and counts out of sight, a thread   *)
(* with a message queue serves in order, once each, and answers truly.     *)
(***************************************************************************)
EXTENDS QueueThreadProofs

-----------------------------------------------------------------------------
(* The mailbox as it is seen in a state of the thread.                     *)
InHand == IF wpc = "run" THEN <<cur>> ELSE <<>>
BoxLine == InHand \o items
Fate(c) == IF pc[c] # "await" THEN "none"
           ELSE IF mine[c] \in Queued \/ (wpc = "run" /\ cur = mine[c])
                THEN "asked"
           ELSE IF ran[mine[c]] THEN "run" ELSE "thrown"
BoxFate == [c \in Clients |-> Fate(c)]
BoxWaits == [c \in Clients |-> IF pc[c] = "await" THEN mine[c] ELSE NoMsg]
BoxView == <<BoxLine, ~suspended, BoxFate, BoxWaits, answer>>

(* The abstract actions over that view.                                    *)
LEMMA BoxVars == Box!vars = BoxView
BY DEF Box!vars, BoxView, BoxLine, InHand, BoxFate, Fate, BoxWaits

LEMMA BoxStutter == UNCHANGED BoxView => UNCHANGED Box!vars
BY DEF Box!vars, BoxView, BoxLine, InHand, BoxFate, Fate, BoxWaits

LEMMA BoxPost ==
  ASSUME NEW c \in Clients, NEW m \in Msgs,
         ~suspended, ~suspended',
         ~\E i \in 1..Len(BoxLine) : BoxLine[i] = m,
         Fate(c) = "none",
         BoxLine' = Append(BoxLine, m),
         answer' = [answer EXCEPT ![c] = "queued"],
         BoxFate' = BoxFate, BoxWaits' = BoxWaits
  PROVE  Box!Next
<1>1. Box!Post(c, m)
  BY DEF Box!Post, Box!Accept, Box!InLine, BoxLine, InHand, BoxFate, Fate,
         BoxWaits
<1> QED BY <1>1 DEF Box!Next

LEMMA BoxAsk ==
  ASSUME NEW c \in Clients, NEW m \in Msgs,
         ~suspended, ~suspended',
         ~\E i \in 1..Len(BoxLine) : BoxLine[i] = m,
         \A d \in Clients : Fate(d) = "none",
         BoxLine' = Append(BoxLine, m),
         answer' = [answer EXCEPT ![c] = "queued"],
         BoxFate' = [BoxFate EXCEPT ![c] = "asked"],
         BoxWaits' = [BoxWaits EXCEPT ![c] = m]
  PROVE  Box!Next
<1>1. Box!Ask(c, m)
  BY DEF Box!Ask, Box!Accept, Box!InLine, BoxLine, InHand, BoxFate, Fate,
         BoxWaits
<1> QED BY <1>1 DEF Box!Next

LEMMA BoxTurnAway ==
  ASSUME NEW c \in Clients, NEW no \in {"failed", "refused"},
         Fate(c) = "none", answer' = [answer EXCEPT ![c] = no],
         BoxLine' = BoxLine, suspended' = suspended, BoxFate' = BoxFate,
         BoxWaits' = BoxWaits
  PROVE  Box!Next
<1>1. Box!TurnAway(c)
  BY DEF Box!TurnAway, BoxLine, InHand, BoxFate, Fate, BoxWaits
<1> QED BY <1>1 DEF Box!Next

LEMMA BoxReturn ==
  ASSUME NEW c \in Clients, Fate(c) \in {"run", "thrown"},
         answer' = [answer EXCEPT ![c] =
                      IF Fate(c) = "run" THEN "queued" ELSE "refused"],
         BoxFate' = [BoxFate EXCEPT ![c] = "none"],
         BoxWaits' = [BoxWaits EXCEPT ![c] = NoMsg],
         BoxLine' = BoxLine, suspended' = suspended
  PROVE  Box!Next
<1>1. Box!Return(c)
  BY DEF Box!Return, BoxLine, InHand, BoxFate, Fate, BoxWaits
<1> QED BY <1>1 DEF Box!Next

LEMMA BoxServe ==
  ASSUME BoxLine # <<>>, BoxLine' = Tail(BoxLine),
         BoxFate' = [c \in Clients |->
                       IF Fate(c) = "asked" /\ BoxWaits[c] = Head(BoxLine)
                       THEN "run" ELSE Fate(c)],
         suspended' = suspended, BoxWaits' = BoxWaits, answer' = answer
  PROVE  Box!Next
<1>1. Box!Serve
  BY DEF Box!Serve, BoxLine, InHand, BoxFate, Fate, BoxWaits
<1> QED BY <1>1 DEF Box!Next

LEMMA BoxStop ==
  ASSUME NEW n \in {0, 1}, n <= Len(BoxLine), BoxLine' = SubSeq(BoxLine, 1, n),
         BoxFate' = [c \in Clients |->
                       IF /\ Fate(c) = "asked"
                          /\ \E i \in n + 1..Len(BoxLine) :
                               BoxLine[i] = BoxWaits[c]
                       THEN "thrown" ELSE Fate(c)],
         suspended', BoxWaits' = BoxWaits, answer' = answer
  PROVE  Box!Next
<1>1. Box!Stop
  BY DEF Box!Stop, BoxLine, InHand, BoxFate, Fate, BoxWaits
<1> QED BY <1>1 DEF Box!Next

LEMMA BoxOpen ==
  ASSUME ~suspended', BoxLine' = BoxLine, BoxFate' = BoxFate,
         BoxWaits' = BoxWaits, answer' = answer
  PROVE  Box!Next
<1>1. Box!Open
  BY DEF Box!Open, BoxLine, InHand, BoxFate, Fate, BoxWaits
<1> QED BY <1>1 DEF Box!Next

-----------------------------------------------------------------------------
(* A sequence behind one more element, or none.                            *)
LEMMA Behind ==
  ASSUME NEW S, NEW x \in S, NEW s \in Seq(S)
  PROVE  /\ <<>> \o s = s
         /\ <<x>> \o s \in Seq(S)
         /\ <<x>> \o s # <<>>
         /\ Len(<<x>> \o s) = Len(s) + 1
         /\ (<<x>> \o s)[1] = x
         /\ \A i \in 1..Len(s) : (<<x>> \o s)[i + 1] = s[i]
         /\ Head(<<x>> \o s) = x
         /\ Tail(<<x>> \o s) = s
         /\ SubSeq(<<x>> \o s, 1, 1) = <<x>>
         /\ <<x>> \o <<>> = <<x>>
<1> DEFINE t == <<x>> \o s
<1>1. <<>> \o s = s /\ <<x>> \o <<>> = <<x>>
  OBVIOUS
<1>2. <<x>> \in Seq(S) /\ Len(<<x>>) = 1 /\ <<x>>[1] = x /\ Len(s) \in Nat
  OBVIOUS
<1>3. t \in Seq(S) /\ Len(t) = Len(s) + 1
  BY <1>2
<1>4. t[1] = x
  BY <1>2
<1>5. \A i \in 1..Len(s) : t[i + 1] = s[i]
  BY <1>2
<1>6. t # <<>> /\ Head(t) = x
  BY <1>2, <1>3, <1>4
<1>7. Tail(t) = s
  <2>1. /\ Tail(t) \in Seq(S)
        /\ Len(Tail(t)) = Len(s)
        /\ \A i \in 1..Len(s) : Tail(t)[i] = t[i + 1]
    BY <1>2, <1>3, <1>6
  <2> HIDE DEF t
  <2> QED BY <1>5, <2>1, SeqEqual
<1>8. SubSeq(t, 1, 1) = <<x>>
  <2>1. /\ SubSeq(t, 1, 1) \in Seq(S)
        /\ Len(SubSeq(t, 1, 1)) = 1
        /\ SubSeq(t, 1, 1)[1] = t[1]
    BY <1>2, <1>3
  <2>2. \A i \in 1..1 : SubSeq(t, 1, 1)[i] = <<x>>[i]
    BY <1>2, <1>4, <2>1
  <2> DEFINE u == SubSeq(t, 1, 1)
             v == <<x>>
  <2>3. u \in Seq(S) /\ v \in Seq(S) /\ Len(u) = 1 /\ Len(v) = 1
        /\ \A i \in 1..1 : u[i] = v[i]
    BY <1>2, <2>1, <2>2
  <2> HIDE DEF t, u, v
  <2>4. u = v
    BY <2>3, SeqEqual
  <2> QED BY <2>4 DEF u, v
<1> QED BY <1>1, <1>3, <1>4, <1>5, <1>6, <1>7, <1>8

LEMMA AppendBehind ==
  ASSUME NEW S, NEW x \in S, NEW s \in Seq(S), NEW m \in S
  PROVE  Append(<<x>> \o s, m) = <<x>> \o Append(s, m)
  OBVIOUS

LEMMA HeadFirst ==
  ASSUME NEW S, NEW s \in Seq(S), s # <<>>
  PROVE  <<Head(s)>> \o Tail(s) = s
  OBVIOUS

(* What is in the line: the message in hand, if it has not been run, and   *)
(* the messages on the queue behind it.                                    *)
LEMMA LineOf ==
  ASSUME Shape, Ownership
  PROVE  /\ items \in Seq(Msgs)
         /\ wpc # "run" => BoxLine = items
         /\ wpc = "run" => cur \in Msgs /\ BoxLine = <<cur>> \o items
         /\ \A m : (\E i \in 1..Len(BoxLine) : BoxLine[i] = m) =>
                     m \in Queued \/ (wpc = "run" /\ m = cur)
<1>1. items \in Seq(Msgs)
  BY DEF Ownership
<1>2. CASE wpc # "run"
  <2>1. BoxLine = items
    BY <1>1, <1>2 DEF BoxLine, InHand
  <2> QED BY <1>1, <1>2, <2>1 DEF Queued
<1>3. CASE wpc = "run"
  <2>1. cur \in Msgs
    BY <1>3 DEF Shape, Ownership, Holding, Unanswered
  <2>2. BoxLine = <<cur>> \o items
    BY <1>3 DEF BoxLine, InHand
  <2>3. ASSUME NEW i \in 1..Len(BoxLine)
        PROVE  BoxLine[i] \in Queued \/ BoxLine[i] = cur
    <3>1. /\ Len(items) \in Nat /\ Len(BoxLine) = Len(items) + 1
          /\ BoxLine[1] = cur
          /\ \A j \in 1..Len(items) : BoxLine[j + 1] = items[j]
      BY <1>1, <2>1, <2>2, Behind
    <3>2. i = 1 \/ (i - 1 \in 1..Len(items) /\ (i - 1) + 1 = i)
      BY <3>1
    <3> QED BY <3>1, <3>2 DEF Queued
  <2> QED BY <1>1, <1>3, <2>1, <2>2, <2>3
<1> QED BY <1>2, <1>3

Mapped == Box!Next \/ UNCHANGED BoxView

(* A step that shows nothing.                                              *)
LEMMA Hidden ==
  ASSUME UNCHANGED <<items, suspended, answer>>,
         wpc' = "run" <=> wpc = "run", wpc = "run" => cur' = cur,
         \A c \in Clients :
           /\ pc'[c] = "await" <=> pc[c] = "await"
           /\ pc[c] = "await" => /\ mine'[c] = mine[c]
                                 /\ ran'[mine[c]] = ran[mine[c]]
  PROVE  UNCHANGED BoxView
<1>1. BoxLine' = BoxLine
  BY DEF BoxLine, InHand
<1>2. Queued' = Queued
  BY DEF Queued
<1>3. \A c \in Clients : Fate(c)' = Fate(c)
  BY <1>2 DEF Fate
<1>4. BoxFate' = BoxFate
  BY <1>3 DEF BoxFate
<1>5. BoxWaits' = BoxWaits
  BY DEF BoxWaits
<1> QED BY <1>1, <1>4, <1>5 DEF BoxView

(* The worker: running a message serves it, and nothing else shows.        *)
LEMMA MapWorker ==
  ASSUME Shape, Ownership, SendInv, WorkerStep
  PROVE  Mapped
<1> USE DEF messageVars, queueVars, threadVars, exitVars, clientVars, WGoto
<1>1. CASE WRun
  <2>1. /\ wpc = "run" /\ wpc' = "mark" /\ cur # NoMsg
        /\ UNCHANGED <<items, suspended, answer, pc, mine, cur>>
    BY <1>1 DEF WRun, NoteRun, Ownership, Holding, Unanswered
  <2>2. /\ items \in Seq(Msgs) /\ cur \in Msgs /\ BoxLine = <<cur>> \o items
        /\ cur \notin Queued
    BY <2>1, LineOf DEF Ownership
  <2>3. BoxLine # <<>> /\ Head(BoxLine) = cur /\ Tail(BoxLine) = items
    BY <2>2, Behind
  <2>4. BoxLine' = items
    BY <2>1, <2>2, Behind DEF BoxLine, InHand
  <2>5. \A x \in Msgs : ran'[x] <=> x = cur \/ ran[x]
    BY <1>1, <2>2 DEF WRun, NoteRun, Shape
  <2>6. Queued' = Queued
    BY <2>1 DEF Queued
  <2>7. ASSUME NEW c \in Clients
        PROVE  Fate(c)' = IF Fate(c) = "asked" /\ BoxWaits[c] = cur
                          THEN "run" ELSE Fate(c)
    <3>1. CASE pc[c] # "await"
      BY <2>1, <3>1 DEF Fate
    <3>2. CASE pc[c] = "await"
      <4>1. mine[c] \in Msgs /\ BoxWaits[c] = mine[c]
        BY <3>2, Stations DEF Ownership, Shape, BoxWaits
      <4>2. CASE mine[c] = cur
        <5>1. Fate(c) = "asked" /\ Fate(c)' = "run"
          BY <2>1, <2>2, <2>5, <2>6, <3>2, <4>1, <4>2 DEF Fate
        <5> QED BY <4>1, <4>2, <5>1
      <4>3. CASE mine[c] # cur
        <5>1. Fate(c)' = Fate(c)
          BY <2>1, <2>5, <2>6, <3>2, <4>1, <4>3 DEF Fate
        <5> QED BY <4>1, <4>3, <5>1
      <4> QED BY <4>2, <4>3
    <3> QED BY <3>1, <3>2
  <2>8. BoxFate' = [c \in Clients |->
                      IF Fate(c) = "asked" /\ BoxWaits[c] = Head(BoxLine)
                      THEN "run" ELSE Fate(c)]
    BY <2>3, <2>7 DEF BoxFate
  <2>9. BoxWaits' = BoxWaits
    BY <2>1 DEF BoxWaits
  <2> QED BY <2>1, <2>3, <2>4, <2>8, <2>9, BoxServe DEF Mapped
<1>2. CASE WPop
  <2>1. /\ UNCHANGED <<suspended, answer, pc, mine, ran>>
        /\ wpc = "pop"
    BY <1>2 DEF WPop, PopFirst, PopNothing
  <2>2. CASE PopFirst
    <3>1. /\ wpc' = "run" /\ cur' = Head(items) /\ items' = Tail(items)
          /\ items # <<>>
      BY <1>2, <2>2 DEF WPop, PopFirst, PopNothing
    <3>2. items \in Seq(Msgs) /\ BoxLine = items
      BY <2>1, LineOf
    <3>3. BoxLine' = BoxLine
      <4>1. <<cur'>> \o items' = items
        BY <3>1, <3>2, HeadFirst
      <4>2. BoxLine' = <<cur'>> \o items'
        BY <3>1 DEF BoxLine, InHand
      <4> QED BY <3>2, <4>1, <4>2
    <3>4. Queued' = Queued \ {Head(items)} /\ Head(items) \in Queued
      <4>1. items \in Seq(Msgs) /\ items # <<>> /\ NoTwice(items)
        BY <3>1, <3>2 DEF Ownership
      <4>2. Queued = Elems(items) /\ Queued' = Elems(Tail(items))
        BY <3>1 DEF Queued, Elems
      <4> QED BY <4>1, <4>2, ElemsTail
    <3>5. \A c \in Clients : Fate(c)' = Fate(c)
      BY <2>1, <3>1, <3>4 DEF Fate
    <3>6. BoxFate' = BoxFate /\ BoxWaits' = BoxWaits
      BY <2>1, <3>5 DEF BoxFate, BoxWaits
    <3> QED BY <2>1, <3>3, <3>6 DEF Mapped, BoxView
  <2>3. CASE PopNothing
    <3>1. items' = items /\ wpc' = "turn"
      BY <1>2, <2>3 DEF WPop, PopFirst, PopNothing
    <3> QED BY <2>1, <3>1, Hidden DEF Mapped
  <2> QED BY <1>2, <2>2, <2>3 DEF WPop
<1>3. CASE ~WRun /\ ~WPop
  <2>1. /\ UNCHANGED <<items, suspended, answer, pc, mine, ran>>
        /\ wpc # "run" /\ wpc' # "run"
    BY <1>3 DEF WorkerStep, WTop, WWait, WMark, MarkResult, WAnswer,
                SignalProcessed, WRelease, Release, ReleaseAll, WTurn,
                WExited, WLeave, WLast
  <2> QED BY <2>1, Hidden DEF Mapped
<1> QED BY <1>1, <1>2, <1>3

(* A post that is taken is accepted, and the sender's is asked for.        *)
LEMMA MapQueued ==
  ASSUME NEW c \in Clients, NEW p, Shape, Ownership, SendInv,
         pc[c] \in BeforePost, PostQueued(mine[c]),
         pc' = [pc EXCEPT ![c] = p], answer' = [answer EXCEPT ![c] = "queued"],
         UNCHANGED <<mine, cur, wpc>>,
         \/ pc[c] = "sendpost" /\ p = "await"
         \/ pc[c] = "post" /\ p = "drop"
  PROVE  Mapped
<1> DEFINE m == mine[c]
<1>1. /\ \A d \in Clients : pc'[d] = IF d = c THEN p ELSE pc[d]
      /\ ~suspended /\ ~suspended' /\ items' = Append(items, m)
      /\ ran' = ran
  BY DEF PostQueued, Shape
<1>2. m \in Msgs /\ m \notin Queued /\ m # cur
  BY DEF Ownership, Shape, Making, BeforePost, PostPC, SendPC, Locked
<1>3. Queued' = Queued \cup {m}
  BY <1>1, <1>2, ElemsAppend DEF Ownership, Queued, Elems
<1>4. ASSUME NEW d \in Clients, d # c, pc[d] = "await"
      PROVE  mine[d] # m
  BY <1>2, <1>4, NoMsgAssumption DEF Ownership
<1>5. ~\E i \in 1..Len(BoxLine) : BoxLine[i] = m
  BY <1>2, LineOf
<1>6. BoxLine' = Append(BoxLine, m)
  <2>1. CASE wpc # "run"
    <3>1. items \in Seq(Msgs) /\ BoxLine = items
      BY <2>1, LineOf
    <3>2. BoxLine' = <<>> \o Append(items, m)
      BY <1>1, <2>1 DEF BoxLine, InHand
    <3> QED BY <1>2, <3>1, <3>2
  <2>2. CASE wpc = "run"
    <3>1. items \in Seq(Msgs) /\ cur \in Msgs /\ BoxLine = <<cur>> \o items
      BY <2>2, LineOf
    <3>2. BoxLine' = <<cur>> \o Append(items, m)
      BY <1>1, <2>2 DEF BoxLine, InHand
    <3>3. Append(<<cur>> \o items, m) = <<cur>> \o Append(items, m)
      <4>1. m \in Msgs
        BY <1>2
      <4> HIDE DEF m
      <4> QED BY <3>1, <4>1, AppendBehind
    <3> QED BY <3>1, <3>2, <3>3
  <2> QED BY <2>1, <2>2
<1>7. \A d \in Clients : d # c => Fate(d)' = Fate(d)
  BY <1>1, <1>3, <1>4 DEF Fate
<1>8. Fate(c) = "none"
  BY DEF Fate
<1>9. CASE p = "drop"
  <2>1. Fate(c)' = "none"
    BY <1>1, <1>9 DEF Fate
  <2>2. BoxFate' = BoxFate
    BY <1>7, <1>8, <2>1 DEF BoxFate
  <2>3. BoxWaits' = BoxWaits
    BY <1>1, <1>9 DEF BoxWaits
  <2> QED BY <1>1, <1>2, <1>5, <1>6, <1>8, <2>2, <2>3, BoxPost DEF Mapped
<1>10. CASE pc[c] = "sendpost" /\ p = "await"
  <2>1. sendLock = c
    BY <1>10 DEF SendInv, LockHeld, Locked
  <2>2. \A d \in Clients : pc[d] # "await"
    BY <1>10, <2>1 DEF SendInv, LockHeld, Locked
  <2>3. \A d \in Clients : Fate(d) = "none"
    BY <2>2 DEF Fate
  <2>4. Fate(c)' = "asked"
    BY <1>1, <1>3, <1>10 DEF Fate
  <2>5. BoxFate' = [BoxFate EXCEPT ![c] = "asked"]
    BY <1>7, <2>4 DEF BoxFate
  <2>6. BoxWaits' = [BoxWaits EXCEPT ![c] = m]
    BY <1>1, <1>10 DEF BoxWaits
  <2> QED BY <1>1, <1>2, <1>5, <1>6, <2>3, <2>5, <2>6, BoxAsk DEF Mapped
<1> QED BY <1>9, <1>10

(* A client that is told that nothing was taken is turned away.            *)
LEMMA MapRefused ==
  ASSUME NEW c \in Clients, NEW p, NEW a \in {"failed", "refused"}, Shape,
         pc' = [pc EXCEPT ![c] = p], answer' = [answer EXCEPT ![c] = a],
         UNCHANGED <<items, suspended, ran, mine, cur, wpc>>,
         pc[c] # "await", p # "await"
  PROVE  Mapped
<1>1. \A d \in Clients : pc'[d] = IF d = c THEN p ELSE pc[d]
  BY DEF Shape
<1>2. Queued' = Queued
  BY DEF Queued
<1>3. \A d \in Clients : Fate(d)' = Fate(d)
  BY <1>1, <1>2 DEF Fate
<1>4. BoxLine' = BoxLine
  BY DEF BoxLine, InHand
<1>5. BoxFate' = BoxFate /\ BoxWaits' = BoxWaits
  BY <1>1, <1>3 DEF BoxFate, BoxWaits
<1>6. Fate(c) = "none"
  BY DEF Fate
<1> QED BY <1>4, <1>5, <1>6, BoxTurnAway DEF Mapped

(* The sender that is woken is told its fate.                              *)
LEMMA MapWoken ==
  ASSUME NEW c \in Clients, Shape, Ownership, SendInv, SendAwait(c)
  PROVE  Mapped
<1> DEFINE m == mine[c]
<1>1. /\ \A d \in Clients : pc'[d] = IF d = c THEN "unsignal" ELSE pc[d]
      /\ pc[c] = "await" /\ done
      /\ answer' = [answer EXCEPT ![c] =
                      IF result[m] = 0 THEN "refused" ELSE "queued"]
      /\ UNCHANGED <<ran, items, suspended, mine, cur, wpc>>
  BY DEF SendAwait, Goto, Shape, messageVars, queueVars, threadVars, workerVars
<1>2. m \in Msgs /\ result[m] \in {0, 1}
  BY <1>1, Stations DEF Ownership, Shape
<1>3. ~WillBeAnswered(m)
  BY <1>1 DEF SendInv, AnswerReachesItsSender
<1>4. ran[m] <=> result[m] = 1
  BY <1>1, <1>3 DEF SendInv, Recorded, Unmarked, WillBeAnswered, Unanswered
<1>5. Fate(c) = IF ran[m] THEN "run" ELSE "thrown"
  BY <1>1, <1>3 DEF Fate, WillBeAnswered, Unanswered
<1>6. answer' = [answer EXCEPT ![c] =
                   IF Fate(c) = "run" THEN "queued" ELSE "refused"]
  <2>1. (IF result[m] = 0 THEN "refused" ELSE "queued")
          = (IF Fate(c) = "run" THEN "queued" ELSE "refused")
    <3>1. CASE ran[m]
      BY <1>2, <1>4, <1>5, <3>1
    <3>2. CASE ~ran[m]
      <4>1. result[m] = 0 /\ Fate(c) = "thrown"
        BY <1>2, <1>4, <1>5, <3>2
      <4> QED BY <4>1
    <3> QED BY <3>1, <3>2
  <2> QED BY <1>1, <2>1
<1>7. Queued' = Queued
  BY <1>1 DEF Queued
<1>8. \A d \in Clients : Fate(d)' = IF d = c THEN "none" ELSE Fate(d)
  BY <1>1, <1>7 DEF Fate
<1>9. BoxFate' = [BoxFate EXCEPT ![c] = "none"]
  BY <1>8 DEF BoxFate
<1>10. BoxWaits' = [BoxWaits EXCEPT ![c] = NoMsg]
  BY <1>1 DEF BoxWaits
<1>11. BoxLine' = BoxLine
  BY <1>1 DEF BoxLine, InHand
<1> QED BY <1>1, <1>5, <1>6, <1>9, <1>10, <1>11, BoxReturn DEF Mapped

(* A stop cuts the line behind the message in hand.                        *)
LEMMA MapSuspend ==
  ASSUME NEW c \in Clients, Shape, Ownership, SendInv, Suspend(c)
  PROVE  Mapped
<1>1. /\ \A d \in Clients : pc'[d] = IF d = c THEN "turn" ELSE pc[d]
      /\ pc[c] = "suspend" /\ items' = <<>> /\ suspended' = TRUE
      /\ UNCHANGED <<ran, mine, answer, cur, wpc>>
  BY DEF Suspend, SuspendQueue, ReleaseAll, Goto, Shape, threadVars, workerVars
<1>2. Queued' = {}
  BY <1>1 DEF Queued
<1>3. PICK n \in {0, 1} : n = IF wpc = "run" THEN 1 ELSE 0
  OBVIOUS
<1>4. /\ items \in Seq(Msgs) /\ Len(items) \in Nat
      /\ Len(BoxLine) = Len(items) + n
      /\ \A i \in 1..Len(items) : BoxLine[i + n] = items[i]
      /\ BoxLine' = SubSeq(BoxLine, 1, n)
  <2>1. CASE wpc # "run"
    <3>1. items \in Seq(Msgs) /\ BoxLine = items /\ n = 0
      BY <1>3, <2>1, LineOf
    <3>2. BoxLine' = <<>>
      BY <1>1, <2>1 DEF BoxLine, InHand
    <3>3. SubSeq(items, 1, 0) = <<>>
      BY <3>1
    <3> QED BY <3>1, <3>2, <3>3
  <2>2. CASE wpc = "run"
    <3>1. /\ items \in Seq(Msgs) /\ cur \in Msgs /\ n = 1
          /\ BoxLine = <<cur>> \o items
      BY <1>3, <2>2, LineOf
    <3>2. BoxLine' = <<cur>> \o <<>>
      BY <1>1, <2>2 DEF BoxLine, InHand
    <3>3. Len(items) \in Nat
      BY <3>1
    <3> QED BY <3>1, <3>2, <3>3, Behind
  <2> QED BY <2>1, <2>2
<1>5. \A m : m \in Queued <=> \E i \in n + 1..Len(BoxLine) : BoxLine[i] = m
  <2>1. ASSUME NEW i \in 1..Len(items)
        PROVE  \E j \in n + 1..Len(BoxLine) : BoxLine[j] = items[i]
    <3>1. i + n \in n + 1..Len(BoxLine)
      BY <1>4
    <3> QED BY <1>4, <3>1
  <2>2. ASSUME NEW j \in n + 1..Len(BoxLine)
        PROVE  \E i \in 1..Len(items) : items[i] = BoxLine[j]
    <3>1. j - n \in 1..Len(items) /\ (j - n) + n = j
      BY <1>4
    <3> QED BY <1>4, <3>1
  <2> QED BY <2>1, <2>2 DEF Queued
<1>6. ASSUME NEW d \in Clients
      PROVE  Fate(d)' = IF /\ Fate(d) = "asked"
                           /\ \E i \in n + 1..Len(BoxLine) :
                                BoxLine[i] = BoxWaits[d]
                        THEN "thrown" ELSE Fate(d)
  <2>1. CASE pc[d] # "await"
    BY <1>1, <2>1 DEF Fate
  <2>2. CASE pc[d] = "await"
    <3>1. pc'[d] = "await" /\ BoxWaits[d] = mine[d]
      BY <1>1, <2>2 DEF BoxWaits
    <3>2. CASE mine[d] \in Queued
      <4>1. ~ran[mine[d]] /\ mine[d] # cur
        BY <2>2, <3>2 DEF SendInv, Recorded, NotYetRun, Ownership
      <4>2. Fate(d) = "asked" /\ Fate(d)' = "thrown"
        BY <1>1, <1>2, <2>2, <3>1, <3>2, <4>1 DEF Fate
      <4> QED BY <1>5, <3>1, <3>2, <4>2
    <3>3. CASE mine[d] \notin Queued
      <4>1. Fate(d)' = Fate(d)
        BY <1>1, <1>2, <2>2, <3>1, <3>3 DEF Fate
      <4> QED BY <1>5, <3>1, <3>3, <4>1
    <3> QED BY <3>2, <3>3
  <2> QED BY <2>1, <2>2
<1>7. BoxFate' = [d \in Clients |->
                    IF /\ Fate(d) = "asked"
                       /\ \E i \in n + 1..Len(BoxLine) : BoxLine[i] = BoxWaits[d]
                    THEN "thrown" ELSE Fate(d)]
  BY <1>6 DEF BoxFate
<1>8. BoxWaits' = BoxWaits
  BY <1>1 DEF BoxWaits
<1>9. n <= Len(BoxLine)
  BY <1>4
<1> QED BY <1>1, <1>4, <1>7, <1>8, <1>9, BoxStop DEF Mapped

(* Every other step of a client shows nothing, or lets messages in again.  *)
LEMMA MapClient ==
  ASSUME NEW c \in Clients, Shape, Ownership, Ownership', SendInv,
         ClientStart(c) \/ ClientStep(c)
  PROVE  Mapped
<1> USE DEF messageVars, queueVars, threadVars, exitVars, workerVars, Goto
<1> DEFINE Quietly(p) ==
      /\ pc' = [pc EXCEPT ![c] = p]
      /\ UNCHANGED <<items, suspended, answer, cur, wpc>>
      /\ \A d \in Clients : d # c => mine'[d] = mine[d]
      /\ p # "await" /\ pc[c] # "await"
<1>a. ASSUME NEW p, Quietly(p), ran' = ran PROVE Mapped
  <2>1. \A d \in Clients : pc'[d] = IF d = c THEN p ELSE pc[d]
    BY <1>a DEF Shape
  <2> QED BY <1>a, <2>1, Hidden DEF Mapped
<1>b. ASSUME NEW p, Quietly(p), NEW m \in Msgs, Make(m),
             mine' = [mine EXCEPT ![c] = m]
      PROVE  Mapped
  <2>1. /\ \A d \in Clients : pc'[d] = IF d = c THEN p ELSE pc[d]
        /\ \A d \in Clients : mine'[d] = IF d = c THEN m ELSE mine[d]
        /\ \A x \in Msgs : x # m => ran'[x] = ran[x]
    BY <1>b DEF Shape, Make
  <2>2. ASSUME NEW d \in Clients, pc[d] = "await"
        PROVE  mine'[d] = mine[d] /\ ran'[mine[d]] = ran[mine[d]]
    <3>1. d # c /\ mine[d] \in Msgs
      BY <1>b, <2>2, Stations DEF Ownership, Shape
    <3>2. mine[d] # m
      BY <2>1, <3>1, NoMsgAssumption DEF Ownership
    <3> QED BY <2>1, <3>1, <3>2
  <2> QED BY <1>b, <2>1, <2>2, Hidden DEF Mapped
<1>1. ASSUME NEW m \in Msgs, Begin(c, m) PROVE Mapped
  <2>1. Quietly("gate") /\ Make(m) /\ mine' = [mine EXCEPT ![c] = m]
    BY <1>1 DEF Begin, Shape
  <2> HIDE DEF Quietly
  <2> QED BY <1>b, <2>1
<1>2. CASE EndClose(c) /\ ~asked
  <2>1. PICK m \in Msgs : Make(m) /\ mine' = [mine EXCEPT ![c] = m]
    BY <1>2 DEF EndClose
  <2>2. Quietly("lock")
    BY <1>2, <2>1 DEF EndClose, Shape
  <2> HIDE DEF Quietly
  <2> QED BY <1>b, <2>1, <2>2
<1>3. CASE Post(c) \/ SendPost(c)
  <2>1. UNCHANGED <<mine, cur, wpc>>
    BY <1>3 DEF Post, SendPost, PostMessage
  <2>2. PICK p \in {"await", "unlock", "drop"} :
          /\ pc' = [pc EXCEPT ![c] = p]
          /\ \/ /\ PostQueued(mine[c])
                /\ answer' = [answer EXCEPT ![c] = "queued"]
                /\ \/ pc[c] = "sendpost" /\ p = "await"
                   \/ pc[c] = "post" /\ p = "drop"
             \/ /\ PostFailed(mine[c])
                /\ answer' = [answer EXCEPT ![c] = "failed"]
                /\ p # "await"
             \/ /\ PostRefused(mine[c])
                /\ answer' = [answer EXCEPT ![c] = "refused"]
                /\ p # "await"
    BY <1>3 DEF Post, SendPost, PostMessage
  <2>3. pc[c] \in {"post", "sendpost"}
    BY <1>3 DEF Post, SendPost
  <2>4. CASE PostQueued(mine[c]) /\ answer' = [answer EXCEPT ![c] = "queued"]
             /\ (\/ pc[c] = "sendpost" /\ p = "await"
                 \/ pc[c] = "post" /\ p = "drop")
    BY <2>1, <2>2, <2>3, <2>4, Stations, MapQueued
  <2>5. ASSUME NEW a \in {"failed", "refused"}, p # "await",
               PostFailed(mine[c]) \/ PostRefused(mine[c]),
               answer' = [answer EXCEPT ![c] = a]
        PROVE  Mapped
    <3>1. UNCHANGED <<items, suspended, ran>>
      BY <2>5 DEF PostFailed, PostRefused
    <3> QED BY <2>1, <2>2, <2>3, <2>5, <3>1, MapRefused
  <2> QED BY <2>2, <2>4, <2>5
<1>4. CASE Check(c)
  <2>1. CASE Taking
    <3>1. PICK p \in {"post", "lock"} : Quietly(p)
      BY <1>4, <2>1 DEF Check
    <3>2. ran' = ran
      BY <1>4 DEF Check
    <3> HIDE DEF Quietly
    <3> QED BY <1>a, <3>1, <3>2
  <2>2. CASE ~Taking
    <3>1. /\ pc' = [pc EXCEPT ![c] = "drop"]
          /\ answer' = [answer EXCEPT ![c] = "failed"]
          /\ UNCHANGED <<items, suspended, ran, mine, cur, wpc>>
          /\ pc[c] = "check"
      BY <1>4, <2>2 DEF Check
    <3> QED BY <3>1, MapRefused
  <2> QED BY <2>1, <2>2
<1>5. CASE SendAwait(c) BY <1>5, MapWoken
<1>6. CASE Suspend(c) BY <1>6, MapSuspend
<1>7. CASE Resume(c)
  <2>1. /\ \A d \in Clients : pc'[d] = IF d = c THEN "idle" ELSE pc[d]
        /\ pc[c] = "resume" /\ suspended' = FALSE
        /\ UNCHANGED <<items, ran, mine, answer, cur, wpc>>
    BY <1>7 DEF Resume, ResumeQueue, Shape
  <2>2. Queued' = Queued
    BY <2>1 DEF Queued
  <2>3. \A d \in Clients : Fate(d)' = Fate(d)
    BY <2>1, <2>2 DEF Fate
  <2>4. BoxFate' = BoxFate /\ BoxWaits' = BoxWaits /\ BoxLine' = BoxLine
    BY <2>1, <2>3 DEF BoxFate, BoxWaits, BoxLine, InHand
  <2> QED BY <2>1, <2>4, BoxOpen DEF Mapped
<1>8. ASSUME Gate(c) \/ Drop(c) \/ QuitDrop(c) \/ SendLock(c)
             \/ SendUnsignal(c) \/ SendUnlock(c) \/ SendRelease(c)
      PROVE  Mapped
  <2>1. PICK p \in {"check", "idle", "endopen", "sendpost", "unlock", "letgo",
                    "drop", "quitdrop"} : Quietly(p)
    BY <1>8 DEF Gate, PassGate, Drop, QuitDrop, SendLock, SendUnsignal,
                UnsignalDone, SendUnlock, SendRelease, Shape
  <2>2. ran' = ran
    BY <1>8 DEF Gate, PassGate, Drop, QuitDrop, SendLock, HoldForSend,
                SendUnsignal, UnsignalDone, SendUnlock, SendRelease, Release,
                ReleaseAll
  <2> HIDE DEF Quietly
  <2> QED BY <1>a, <2>1, <2>2
<1>9. ASSUME BeginStop(c) \/ BeginEnd(c) \/ EndAgain(c)
             \/ (StopStep(c) /\ ~Suspend(c) /\ ~Resume(c))
             \/ (EndStep(c) /\ ~QuitDrop(c) /\ (EndClose(c) => asked))
      PROVE  Mapped
  <2>1. ran' = ran /\ \E p : Quietly(p)
    <3>1. CASE BeginStop(c) \/ BeginEnd(c) \/ EndAgain(c)
      BY <3>1 DEF BeginStop, BeginEnd, EndAgain
    <3>2. CASE StopStep(c) /\ ~Suspend(c) /\ ~Resume(c)
      BY <3>2 DEF StopStep, StopGate, StopCheck, AwaitTurn, BeginResume,
                  ResumeGate, ResumeCheck, PassGate, CheckTaking
    <3>3. CASE EndStep(c) /\ ~QuitDrop(c) /\ (EndClose(c) => asked)
      BY <3>3 DEF EndStep, EndGate, EndClose, EndNoMemory, EndOpen, ExitGate,
                  ExitClose, ExitDone, ExitLet, ExitFinished, ExitOpen,
                  PassGate, OpenGate
    <3> QED BY <1>9, <3>1, <3>2, <3>3
  <2> HIDE DEF Quietly
  <2> QED BY <1>a, <2>1
<1> QED
  BY <1>1, <1>2, <1>3, <1>4, <1>5, <1>6, <1>7, <1>8, <1>9
  DEF ClientStart, ClientStep, SendStep, StopStep, EndStep

LEMMA MapInit == Init => Box!Init
<1> SUFFICES ASSUME Init PROVE Box!Init
  OBVIOUS
<1>1. /\ BoxLine = <<>> /\ ~suspended
      /\ BoxFate = [c \in Clients |-> "none"]
      /\ BoxWaits = [c \in Clients |-> NoMsg]
      /\ answer = [c \in Clients |-> "failed"]
  BY DEF Init, QueueInit, BoxLine, InHand, BoxFate, Fate, BoxWaits
<1> QED BY <1>1 DEF Box!Init, BoxLine, InHand, BoxFate, Fate, BoxWaits

LEMMA MapNext ==
  Shape /\ Ownership /\ Ownership' /\ SendInv /\ [Next]_vars
    => [Box!Next]_(Box!vars)
<1> SUFFICES ASSUME Shape, Ownership, Ownership', SendInv, [Next]_vars
             PROVE  Mapped
  BY BoxStutter DEF Mapped
<1>1. CASE UNCHANGED vars
  BY <1>1, Hidden
  DEF Mapped, vars, messageVars, queueVars, threadVars, clientVars, workerVars
<1> QED BY <1>1, MapWorker, MapClient DEF Next

-----------------------------------------------------------------------------
(* The locks, events and counts of q_postMessage, q_sendMessage,           *)
(* q_popMessage, q_suspend and qt_run implement the mailbox.               *)
THEOREM MailboxImplemented == Spec => ImplementsMailbox
BY MapInit, MapNext, ShapeCorrect, OwnershipCorrect, SendCorrect, PTL
   DEF Spec, ImplementsMailbox, Box!Spec
=============================================================================
