-------------------------- MODULE QueueThreadProofs --------------------------
(***************************************************************************)
(* Theorems about QueueThread, for any set of clients and any number of    *)
(* messages: who holds what, what a send promises, and what the end of the *)
(* thread does.                                                            *)
(***************************************************************************)
EXTENDS QueueThread, SequenceTheorems, TLAPS

-----------------------------------------------------------------------------
(* The shape of the state.  That a count never goes below nought is not a  *)
(* matter of shape: it follows from who owes what, further down.           *)

Shape ==
  /\ live \in [Msgs -> BOOLEAN]
  /\ refs \in [Msgs -> Int]
  /\ isSend \in [Msgs -> BOOLEAN]
  /\ result \in [Msgs -> {0, 1}]
  /\ ran \in [Msgs -> BOOLEAN]
  /\ items \in Seq(Msgs \cup {NoMsg})
  /\ suspended \in BOOLEAN
  /\ ready \in BOOLEAN
  /\ done \in BOOLEAN
  /\ sendLock \in Clients \cup {Nobody}
  /\ turn \in BOOLEAN
  /\ gate \in BOOLEAN
  /\ asked \in BOOLEAN
  /\ stopFlag \in BOOLEAN
  /\ status \in {"running", "finished"}
  /\ thDone \in BOOLEAN
  /\ mayFinish \in BOOLEAN
  /\ finished \in BOOLEAN
  /\ pc \in [Clients -> ClientPC]
  /\ mine \in [Clients -> Msgs \cup {NoMsg}]
  /\ quit \in [Msgs -> BOOLEAN]
  /\ answer \in [Clients -> Answers]
  /\ wpc \in WorkerPC
  /\ cur \in Msgs \cup {NoMsg}

(* Each place is one of the places a client or the worker can be at, and   *)
(* each answer one of the answers.                                         *)
LEMMA Places ==
  /\ "idle" \in ClientPC
  /\ "drop" \in ClientPC
  /\ "gate" \in ClientPC
  /\ "check" \in ClientPC
  /\ "post" \in ClientPC
  /\ "lock" \in ClientPC
  /\ "letgo" \in ClientPC
  /\ "sendpost" \in ClientPC
  /\ "await" \in ClientPC
  /\ "unsignal" \in ClientPC
  /\ "unlock" \in ClientPC
  /\ "stopgate" \in ClientPC
  /\ "stopcheck" \in ClientPC
  /\ "suspend" \in ClientPC
  /\ "turn" \in ClientPC
  /\ "quiet" \in ClientPC
  /\ "resumegate" \in ClientPC
  /\ "resumecheck" \in ClientPC
  /\ "resume" \in ClientPC
  /\ "endgate" \in ClientPC
  /\ "endclose" \in ClientPC
  /\ "quitdrop" \in ClientPC
  /\ "endopen" \in ClientPC
  /\ "exitgate" \in ClientPC
  /\ "exitclose" \in ClientPC
  /\ "exitdone" \in ClientPC
  /\ "exitlet" \in ClientPC
  /\ "exitfinished" \in ClientPC
  /\ "exitopen" \in ClientPC
  /\ "over" \in ClientPC
  /\ "top" \in WorkerPC
  /\ "wait" \in WorkerPC
  /\ "pop" \in WorkerPC
  /\ "turn" \in WorkerPC
  /\ "run" \in WorkerPC
  /\ "mark" \in WorkerPC
  /\ "answer" \in WorkerPC
  /\ "release" \in WorkerPC
  /\ "exited" \in WorkerPC
  /\ "leave" \in WorkerPC
  /\ "last" \in WorkerPC
  /\ "gone" \in WorkerPC
  /\ "failed" \in Answers
  /\ "queued" \in Answers
  /\ "refused" \in Answers
BY DEF ClientPC, WorkerPC, Holding, Unanswered, Answers, PostPC, SendPC,
       Locked

(* The thread qt_ctor leaves behind has the right shape.                   *)
LEMMA ShapeInit == Init => Shape
<1> SUFFICES ASSUME Init PROVE Shape
  OBVIOUS
<1>1. /\ live \in [Msgs -> BOOLEAN]
      /\ refs \in [Msgs -> Int]
      /\ isSend \in [Msgs -> BOOLEAN]
      /\ result \in [Msgs -> {0, 1}]
      /\ ran \in [Msgs -> BOOLEAN]
      /\ quit \in [Msgs -> BOOLEAN]
  BY DEF Init, QueueInit
<1>2. /\ pc \in [Clients -> ClientPC]
      /\ mine \in [Clients -> Msgs \cup {NoMsg}]
      /\ answer \in [Clients -> Answers]
  BY Places DEF Init
<1>3. /\ items \in Seq(Msgs \cup {NoMsg})
      /\ wpc \in WorkerPC
  BY Places DEF Init, QueueInit
<1> QED BY <1>1, <1>2, <1>3 DEF Init, QueueInit, Shape

(* No step of the worker changes the shape of anything, and none of a      *)
(* client does.                                                            *)
LEMMA ShapeWorker == Shape /\ WorkerStep => Shape'
<1> SUFFICES ASSUME Shape, WorkerStep PROVE Shape'
  OBVIOUS
<1> USE Places DEF Shape, messageVars, queueVars, threadVars, exitVars,
                   clientVars, workerVars, Goto, WGoto
<1>1. CASE WTop BY <1>1 DEF WTop
<1>2. CASE WWait BY <1>2 DEF WWait
<1>3. CASE WPop
  <2>1. CASE PopFirst
    <3>1. /\ items' \in Seq(Msgs \cup {NoMsg})
          /\ Head(items) \in Msgs \cup {NoMsg}
      BY <2>1 DEF PopFirst
    <3>2. ready' \in BOOLEAN
      BY <2>1 DEF PopFirst
    <3>3. /\ cur' = Head(items)
          /\ wpc' = "run"
          /\ turn' \in BOOLEAN
          /\ UNCHANGED <<suspended, done>>
      BY <1>3, <2>1 DEF WPop, PopFirst, PopNothing
    <3> QED BY <1>3, <2>1, <3>1, <3>2, <3>3 DEF WPop, PopFirst
  <2>2. CASE PopNothing BY <1>3, <2>2 DEF WPop, PopFirst, PopNothing
  <2> QED BY <1>3, <2>1, <2>2 DEF WPop
<1>4. CASE WRun
  <2>1. ran' \in [Msgs -> BOOLEAN] /\ stopFlag' \in BOOLEAN
    BY <1>4 DEF WRun, NoteRun
  <2> QED BY <1>4, <2>1 DEF WRun, NoteRun
<1>5. CASE WMark
  <2>1. result' \in [Msgs -> {0, 1}]
    BY <1>5 DEF WMark, MarkResult
  <2> QED BY <1>5, <2>1 DEF WMark, MarkResult
<1>6. CASE WAnswer BY <1>6 DEF WAnswer, SignalProcessed
<1>7. CASE WRelease BY <1>7 DEF WRelease, Release, ReleaseAll
<1>8. CASE WTurn BY <1>8 DEF WTurn
<1>9. CASE WExited BY <1>9 DEF WExited
<1>10. CASE WLeave BY <1>10 DEF WLeave
<1>11. CASE WLast BY <1>11 DEF WLast
<1> QED BY <1>1, <1>2, <1>3, <1>4, <1>5, <1>6, <1>7, <1>8, <1>9, <1>10,
           <1>11 DEF WorkerStep

(* One more reference to x, wherever x is.                                 *)
LEMMA OneMore == ASSUME NEW f \in [Msgs -> Int], NEW x
                 PROVE  [f EXCEPT ![x] = @ + 1] \in [Msgs -> Int]
<1>1. CASE x \in Msgs BY <1>1
<1>2. CASE x \notin Msgs BY <1>2
<1> QED BY <1>1, <1>2

(* Whatever q_postMessage answers, the shape is kept.                      *)
LEMMA ShapePost == ASSUME NEW c \in Clients, NEW p \in ClientPC,
                          NEW q \in ClientPC, Shape,
                          PostMessage(c, p, q)
                   PROVE  Shape'
<1> USE Places DEF Shape, messageVars, queueVars, threadVars, exitVars,
                   clientVars, workerVars, Goto
<1>1. /\ pc' \in [Clients -> ClientPC]
      /\ answer' \in [Clients -> Answers]
  BY DEF PostMessage
<1>2. result' \in [Msgs -> {0, 1}]
  BY DEF PostMessage, PostQueued, PostFailed, PostRefused
<1>3. refs' \in [Msgs -> Int]
  <2>1. refs' = refs \/ refs' = [refs EXCEPT ![mine[c]] = @ + 1]
    BY DEF PostMessage, PostQueued, PostFailed, PostRefused
  <2> QED BY <2>1, OneMore
<1>4. items' \in Seq(Msgs \cup {NoMsg})
  <2>1. items' = items \/ items' = Append(items, mine[c])
    BY DEF PostMessage, PostQueued, PostFailed, PostRefused
  <2>2. mine[c] \in Msgs \cup {NoMsg} /\ items \in Seq(Msgs \cup {NoMsg})
    OBVIOUS
  <2> HIDE DEF Shape
  <2>3. Append(items, mine[c]) \in Seq(Msgs \cup {NoMsg})
    BY <2>2
  <2> QED BY <2>1, <2>2, <2>3
<1>5. ready' \in BOOLEAN
  BY DEF PostMessage, PostQueued, PostFailed, PostRefused
<1>6. UNCHANGED <<live, isSend, ran, suspended, done, threadVars, exitVars,
                  mine, quit, workerVars>>
  BY DEF PostMessage, PostQueued, PostFailed, PostRefused
<1> QED BY <1>1, <1>2, <1>3, <1>4, <1>5, <1>6

(* No step of a client changes the shape of anything.                      *)
LEMMA ShapeClient == ASSUME NEW c \in Clients, Shape,
                            ClientStart(c) \/ ClientStep(c)
                     PROVE  Shape'
<1> USE Places DEF Shape, messageVars, queueVars, threadVars, exitVars,
                   clientVars, workerVars, Goto, WGoto
<1>1. CASE \E m \in Msgs : Begin(c, m)
  <2> PICK m \in Msgs : Begin(c, m)
    BY <1>1
  <2>1. /\ live' \in [Msgs -> BOOLEAN]
        /\ refs' \in [Msgs -> Int]
        /\ isSend' \in [Msgs -> BOOLEAN]
        /\ result' \in [Msgs -> {0, 1}]
        /\ ran' \in [Msgs -> BOOLEAN]
        /\ quit' \in [Msgs -> BOOLEAN]
    BY DEF Begin, Make
  <2>2. /\ mine' \in [Clients -> Msgs \cup {NoMsg}]
        /\ pc' \in [Clients -> ClientPC]
    BY DEF Begin
  <2> QED BY <2>1, <2>2 DEF Begin
<1>2. CASE BeginStop(c) BY <1>2 DEF BeginStop
<1>3. CASE BeginEnd(c) BY <1>3 DEF BeginEnd
<1>4. CASE EndAgain(c) BY <1>4 DEF EndAgain
<1>5. CASE Gate(c) BY <1>5 DEF Gate, PassGate
<1>6. CASE Check(c)
  <2>1. pc' \in [Clients -> ClientPC]
    BY <1>6 DEF Check
  <2>2. answer' \in [Clients -> Answers]
    BY <1>6 DEF Check
  <2> QED BY <1>6, <2>1, <2>2 DEF Check
<1>7. CASE Post(c) BY <1>7, ShapePost DEF Post
<1>8. CASE Drop(c) BY <1>8 DEF Drop, Release, ReleaseAll
<1>9. CASE SendLock(c)
  <2>1. pc' \in [Clients -> ClientPC]
    BY <1>9 DEF SendLock
  <2>2. refs' \in [Msgs -> Int]
    BY <1>9, OneMore DEF SendLock, HoldForSend
  <2>3. isSend' \in [Msgs -> BOOLEAN]
    BY <1>9 DEF SendLock, HoldForSend
  <2> QED BY <1>9, <2>1, <2>2, <2>3 DEF SendLock, HoldForSend
<1>10. CASE SendPost(c) BY <1>10, ShapePost DEF SendPost
<1>11. CASE SendAwait(c) BY <1>11 DEF SendAwait
<1>12. CASE SendUnsignal(c)
  <2>1. pc' \in [Clients -> ClientPC] /\ done' \in BOOLEAN
    BY <1>12 DEF SendUnsignal, UnsignalDone
  <2> QED BY <1>12, <2>1 DEF SendUnsignal, UnsignalDone
<1>13. CASE SendUnlock(c) BY <1>13 DEF SendUnlock
<1>14. CASE SendRelease(c) BY <1>14 DEF SendRelease, Release, ReleaseAll
<1>15. CASE StopGate(c) BY <1>15 DEF StopGate, PassGate
<1>16. CASE StopCheck(c) BY <1>16 DEF StopCheck, CheckTaking
<1>17. CASE Suspend(c)
  <2>1. pc' \in [Clients -> ClientPC]
    BY <1>17 DEF Suspend
  <2>2. refs' \in [Msgs -> Int] /\ live' \in [Msgs -> BOOLEAN]
    BY <1>17 DEF Suspend, SuspendQueue, ReleaseAll
  <2>3. items' \in Seq(Msgs \cup {NoMsg}) /\ done' \in BOOLEAN
    BY <1>17 DEF Suspend, SuspendQueue
  <2> QED BY <1>17, <2>1, <2>2, <2>3 DEF Suspend, SuspendQueue, ReleaseAll
<1>18. CASE AwaitTurn(c) BY <1>18 DEF AwaitTurn
<1>19. CASE BeginResume(c) BY <1>19 DEF BeginResume
<1>20. CASE ResumeGate(c) BY <1>20 DEF ResumeGate, PassGate
<1>21. CASE ResumeCheck(c) BY <1>21 DEF ResumeCheck, CheckTaking
<1>22. CASE Resume(c)
  <2>1. pc' \in [Clients -> ClientPC] /\ suspended' \in BOOLEAN
    BY <1>22 DEF Resume, ResumeQueue
  <2> QED BY <1>22, <2>1 DEF Resume, ResumeQueue
<1>23. CASE EndGate(c) BY <1>23 DEF EndGate, PassGate
<1>24. CASE EndClose(c)
  <2>1. pc' \in [Clients -> ClientPC] /\ gate' \in BOOLEAN
    BY <1>24 DEF EndClose
  <2>2. mine' \in [Clients -> Msgs \cup {NoMsg}] /\ quit' \in [Msgs -> BOOLEAN]
    BY <1>24 DEF EndClose
  <2>3. /\ live' \in [Msgs -> BOOLEAN]
        /\ refs' \in [Msgs -> Int]
        /\ isSend' \in [Msgs -> BOOLEAN]
        /\ result' \in [Msgs -> {0, 1}]
        /\ ran' \in [Msgs -> BOOLEAN]
    <3>1. CASE asked BY <1>24, <3>1 DEF EndClose
    <3>2. CASE ~asked
      <4> PICK m \in Msgs : Make(m)
        BY <1>24, <3>2 DEF EndClose
      <4> QED BY DEF Make
    <3> QED BY <3>1, <3>2
  <2> QED BY <1>24, <2>1, <2>2, <2>3 DEF EndClose, Make
<1>25. CASE EndNoMemory(c)
  <2>1. pc' \in [Clients -> ClientPC] /\ gate' \in BOOLEAN
    BY <1>25 DEF EndNoMemory
  <2> QED BY <1>25, <2>1 DEF EndNoMemory
<1>26. CASE QuitDrop(c) BY <1>26 DEF QuitDrop, Release, ReleaseAll
<1>27. CASE EndOpen(c) BY <1>27 DEF EndOpen, OpenGate
<1>28. CASE ExitGate(c) BY <1>28 DEF ExitGate, PassGate
<1>29. CASE ExitClose(c)
  <2>1. pc' \in [Clients -> ClientPC] /\ gate' \in BOOLEAN
    BY <1>29 DEF ExitClose
  <2> QED BY <1>29, <2>1 DEF ExitClose
<1>30. CASE ExitDone(c)
  <2>1. pc' \in [Clients -> ClientPC] /\ thDone' \in BOOLEAN
    BY <1>30 DEF ExitDone
  <2> QED BY <1>30, <2>1 DEF ExitDone
<1>31. CASE ExitLet(c) BY <1>31 DEF ExitLet
<1>32. CASE ExitFinished(c)
  <2>1. pc' \in [Clients -> ClientPC] /\ finished' \in BOOLEAN
    BY <1>32 DEF ExitFinished
  <2> QED BY <1>32, <2>1 DEF ExitFinished
<1>33. CASE ExitOpen(c) BY <1>33 DEF ExitOpen, OpenGate
<1> QED
  BY <1>1, <1>2, <1>3, <1>4, <1>5, <1>6, <1>7, <1>8, <1>9, <1>10, <1>11,
     <1>12, <1>13, <1>14, <1>15, <1>16, <1>17, <1>18, <1>19, <1>20, <1>21,
     <1>22, <1>23, <1>24, <1>25, <1>26, <1>27, <1>28, <1>29, <1>30, <1>31,
     <1>32, <1>33
  DEF ClientStart, ClientStep, SendStep, StopStep, EndStep

(* No step at all changes the shape of anything.                           *)
LEMMA ShapeNext == Shape /\ [Next]_vars => Shape'
<1>1. ASSUME Shape, UNCHANGED vars PROVE Shape'
  BY <1>1 DEF Shape, vars, messageVars, queueVars, threadVars, exitVars,
              clientVars, workerVars
<1> QED BY <1>1, ShapeWorker, ShapeClient DEF Next

LEMMA ShapeCorrect == Spec => []Shape
BY ShapeInit, ShapeNext, PTL DEF Spec

-----------------------------------------------------------------------------
(* Sequences in which nothing occurs twice.                                *)

Elems(s) == {s[i] : i \in 1..Len(s)}
NoTwice(s) == \A i, j \in 1..Len(s) : s[i] = s[j] => i = j

(* What is on a queue after one more has been put on its end.              *)
LEMMA ElemsAppend ==
  ASSUME NEW S, NEW s \in Seq(S), NEW x \in S
  PROVE  /\ Append(s, x) \in Seq(S)
         /\ Elems(Append(s, x)) = Elems(s) \cup {x}
         /\ NoTwice(s) /\ x \notin Elems(s) => NoTwice(Append(s, x))
<1>1. /\ Append(s, x) \in Seq(S)
      /\ Len(Append(s, x)) = Len(s) + 1
      /\ \A i \in 1..Len(s) : Append(s, x)[i] = s[i]
      /\ Append(s, x)[Len(s) + 1] = x
  BY AppendProperties
<1>2. Len(s) \in Nat
  OBVIOUS
<1>3. 1..(Len(s) + 1) = 1..Len(s) \cup {Len(s) + 1}
  BY <1>2
<1>4. Elems(Append(s, x)) = Elems(s) \cup {x}
  BY <1>1, <1>3 DEF Elems
<1>5. ASSUME NoTwice(s), x \notin Elems(s)
      PROVE  NoTwice(Append(s, x))
  BY <1>1, <1>3, <1>5 DEF NoTwice, Elems
<1> QED BY <1>1, <1>4, <1>5

(* What is left on a queue after the first has been taken.                 *)
LEMMA ElemsTail ==
  ASSUME NEW S, NEW s \in Seq(S), s # <<>>, NoTwice(s)
  PROVE  /\ Tail(s) \in Seq(S)
         /\ Head(s) \in S
         /\ Head(s) \in Elems(s)
         /\ Elems(Tail(s)) = Elems(s) \ {Head(s)}
         /\ NoTwice(Tail(s))
<1>1. /\ Tail(s) \in Seq(S)
      /\ Head(s) \in S
      /\ Head(s) = s[1]
      /\ Len(s) \in Nat \ {0}
      /\ Len(Tail(s)) = Len(s) - 1
      /\ \A i \in 1..Len(Tail(s)) : Tail(s)[i] = s[i + 1]
  BY HeadTailProperties, EmptySeq, LenProperties
<1>2. Head(s) \in Elems(s)
  BY <1>1 DEF Elems
<1>3. NoTwice(Tail(s))
  BY <1>1 DEF NoTwice
<1>4. Elems(Tail(s)) \subseteq Elems(s) \ {Head(s)}
  BY <1>1 DEF Elems, NoTwice
<1>5. ASSUME NEW i \in 1..Len(s), s[i] # Head(s)
      PROVE  s[i] \in Elems(Tail(s))
  <2>1. i - 1 \in 1..Len(Tail(s)) /\ Tail(s)[i - 1] = s[i]
    BY <1>1, <1>5
  <2> QED BY <2>1 DEF Elems
<1>6. Elems(s) \ {Head(s)} \subseteq Elems(Tail(s))
  BY <1>5 DEF Elems
<1> QED BY <1>1, <1>2, <1>3, <1>4, <1>6

-----------------------------------------------------------------------------
(* Who holds what.                                                         *)

(* Between making a message and letting it go; and before it is posted.    *)
Making == PostPC \cup SendPC \cup {"drop", "quitdrop"}
BeforePost == {"gate", "check", "post", "lock", "sendpost"}
Sends == Locked \cup {"letgo"}

(* A client holds a message of its own while it is making and handing it   *)
(* over; a message not yet posted is nowhere else; the queue and the       *)
(* worker's hand have no message twice; and every count is exact.          *)
Ownership ==
  /\ items \in Seq(Msgs)
  /\ \A c \in Clients : mine[c] # NoMsg <=> pc[c] \in Making
  /\ \A c, d \in Clients : mine[c] = mine[d] /\ mine[c] # NoMsg => c = d
  /\ cur # NoMsg <=> wpc \in Holding
  /\ NoTwice(items)
  /\ cur \notin Queued
  /\ \A c \in Clients : pc[c] \in BeforePost =>
                          mine[c] \notin Queued /\ mine[c] # cur
  /\ EveryReferenceIsOwed

(* What is owed on a message is a count.                                   *)
LEMMA OwedIsNat == \A m : Owed(m) \in Nat
BY DEF Owed, Count

(* At the start no message exists and nobody owes anything.                *)
LEMMA OwnershipInit == Init => Ownership
<1> SUFFICES ASSUME Init PROVE Ownership
  OBVIOUS
<1>1. /\ items = <<>>
      /\ cur = NoMsg
      /\ wpc = "top"
      /\ \A c \in Clients : mine[c] = NoMsg /\ pc[c] = "idle"
      /\ \A m \in Msgs : refs[m] = 0 /\ ~live[m]
  BY DEF Init, QueueInit
<1>2. items \in Seq(Msgs) /\ NoTwice(items) /\ Queued = {}
  BY <1>1 DEF NoTwice, Queued
<1>3. \A m \in Msgs : ~Made(m) /\ ~Sent(m) /\ cur # m
  BY <1>1, NoMsgAssumption DEF Made, Sent
<1>4. EveryReferenceIsOwed
  <2>1. ASSUME NEW m \in Msgs PROVE Owed(m) = 0 /\ ~(Owed(m) > 0)
    BY <1>2, <1>3 DEF Owed, Count
  <2> QED BY <1>1, <2>1 DEF EveryReferenceIsOwed
<1> QED BY <1>1, <1>2, <1>4 DEF Ownership, Making, PostPC, SendPC, Locked,
                                BeforePost, Holding, Unanswered

(* A step that moves no message and no reference keeps the books.          *)
LEMMA OwnershipFrame ==
  ASSUME Shape, Ownership, Shape',
         UNCHANGED <<live, refs, items, cur, mine>>,
         wpc' \in Holding <=> wpc \in Holding,
         \A c \in Clients : /\ pc'[c] \in Making <=> pc[c] \in Making
                            /\ pc'[c] \in Sends <=> pc[c] \in Sends
                            /\ pc'[c] \in BeforePost => pc[c] \in BeforePost
  PROVE  Ownership'
<1>1. Queued' = Queued
  BY DEF Queued
<1>2. \A m \in Msgs : /\ Made(m)' <=> Made(m)
                      /\ Sent(m)' <=> Sent(m)
  BY DEF Made, Sent, Sending, Sends
<1>3. EveryReferenceIsOwed'
  BY <1>1, <1>2 DEF Ownership, EveryReferenceIsOwed, Owed, Count
<1> QED BY <1>1, <1>3 DEF Ownership

(* The same for one client's step.                                         *)
LEMMA OwnershipMove ==
  ASSUME NEW c \in Clients, NEW p, Shape, Ownership, Shape',
         pc' = [pc EXCEPT ![c] = p],
         UNCHANGED <<live, refs, items, cur, mine, wpc>>,
         p \in Making <=> pc[c] \in Making,
         p \in Sends <=> pc[c] \in Sends,
         p \in BeforePost => pc[c] \in BeforePost
  PROVE  Ownership'
<1>1. \A d \in Clients : pc'[d] = IF d = c THEN p ELSE pc[d]
  BY DEF Shape
<1> QED BY <1>1, OwnershipFrame

(* A new message is nobody's but its maker's.                              *)
LEMMA OwnershipMake ==
  ASSUME NEW c \in Clients, NEW m \in Msgs, NEW p, Shape, Ownership, Shape',
         mine[c] = NoMsg, Make(m), mine' = [mine EXCEPT ![c] = m],
         pc' = [pc EXCEPT ![c] = p], p \in BeforePost, p \in Making,
         p \notin Sends, pc[c] \notin Sends,
         UNCHANGED <<items, cur, wpc>>
  PROVE  Ownership'
<1>1. refs[m] = 0 /\ Owed(m) = 0
  BY DEF Make, Shape, Ownership, EveryReferenceIsOwed, Owed, Count
<1>2. ~Made(m) /\ ~Sent(m) /\ m \notin Queued /\ cur # m
  BY <1>1 DEF Owed, Count
<1>3. /\ \A d \in Clients : mine'[d] = IF d = c THEN m ELSE mine[d]
      /\ \A d \in Clients : pc'[d] = IF d = c THEN p ELSE pc[d]
  BY DEF Shape
<1>4. Queued' = Queued
  BY DEF Queued
<1>5. \A x \in Msgs : /\ Made(x)' <=> (Made(x) \/ x = m)
                      /\ Sent(x)' <=> Sent(x)
  BY <1>2, <1>3, NoMsgAssumption DEF Made, Sent, Sending, Sends
<1>6. \A x \in Msgs : /\ refs'[x] = IF x = m THEN 1 ELSE refs[x]
                      /\ live'[x] <=> (x = m \/ live[x])
  BY DEF Make, Shape
<1>7. EveryReferenceIsOwed'
  <2> SUFFICES ASSUME NEW x \in Msgs
               PROVE  (refs[x] = Owed(x) /\ (live[x] <=> Owed(x) > 0))'
    BY DEF EveryReferenceIsOwed
  <2>1. refs[x] = Owed(x) /\ (live[x] <=> Owed(x) > 0) /\ Owed(x) \in Nat
    BY OwedIsNat DEF Ownership, EveryReferenceIsOwed
  <2>2. Owed(x)' = IF x = m THEN 1 ELSE Owed(x)
    BY <1>2, <1>4, <1>5 DEF Owed, Count
  <2> QED BY <1>6, <2>1, <2>2
<1>8. \A d, e \in Clients : mine'[d] = mine'[e] /\ mine'[d] # NoMsg => d = e
  BY <1>2, <1>3 DEF Ownership, Made
<1> QED BY <1>2, <1>3, <1>4, <1>7, <1>8, NoMsgAssumption DEF Ownership

(* A message that is posted gets one reference from the queue.             *)
LEMMA OwnershipPost ==
  ASSUME NEW c \in Clients, NEW p, Shape, Ownership, Shape',
         pc[c] \in BeforePost, pc[c] \in Making, p \in Making,
         p \notin BeforePost, p \in Sends <=> pc[c] \in Sends,
         PostQueued(mine[c]), pc' = [pc EXCEPT ![c] = p],
         UNCHANGED <<mine, cur, wpc>>
  PROVE  Ownership'
<1> DEFINE m == mine[c]
<1>1. m \in Msgs /\ m \notin Queued /\ m # cur
  BY DEF Shape, Ownership
<1>2. /\ items' \in Seq(Msgs)
      /\ Queued' = Queued \cup {m}
      /\ NoTwice(items')
  BY <1>1, ElemsAppend DEF PostQueued, Ownership, Queued, Elems
<1>3. \A d \in Clients : pc'[d] = IF d = c THEN p ELSE pc[d]
  BY DEF Shape
<1>4. \A x \in Msgs : /\ Made(x)' <=> Made(x)
                      /\ Sent(x)' <=> Sent(x)
  BY <1>3 DEF Made, Sent, Sending, Sends
<1>5. \A x \in Msgs : /\ refs'[x] = IF x = m THEN refs[x] + 1 ELSE refs[x]
                      /\ live'[x] = live[x]
  BY DEF PostQueued, Shape
<1>6. EveryReferenceIsOwed'
  <2> SUFFICES ASSUME NEW x \in Msgs
               PROVE  (refs[x] = Owed(x) /\ (live[x] <=> Owed(x) > 0))'
    BY DEF EveryReferenceIsOwed
  <2>1. refs[x] = Owed(x) /\ (live[x] <=> Owed(x) > 0) /\ Owed(x) \in Nat
    BY OwedIsNat DEF Ownership, EveryReferenceIsOwed
  <2>2. Owed(x)' = IF x = m THEN Owed(x) + 1 ELSE Owed(x)
    BY <1>1, <1>2, <1>4 DEF Owed, Count
  <2>3. Made(m)
    BY DEF Made
  <2>4. x = m => Owed(x) > 0
    BY <2>3 DEF Owed, Count
  <2> QED BY <1>5, <2>1, <2>2, <2>4
<1>7. \A d \in Clients : pc'[d] \in BeforePost =>
                           mine'[d] \notin Queued' /\ mine'[d] # cur'
  BY <1>1, <1>2, <1>3 DEF Ownership
<1> QED BY <1>1, <1>2, <1>3, <1>6, <1>7 DEF Ownership

(* A sender takes its second reference with the lock.                      *)
LEMMA OwnershipHold ==
  ASSUME NEW c \in Clients, NEW p, Shape, Ownership, Shape',
         pc[c] \in BeforePost, pc[c] \in Making, p \in Making, p \in Sends,
         pc[c] \notin Sends, HoldForSend(mine[c]), pc' = [pc EXCEPT ![c] = p],
         UNCHANGED <<items, mine, cur, wpc>>
  PROVE  Ownership'
<1> DEFINE m == mine[c]
<1>1. m \in Msgs
  BY DEF Shape, Ownership
<1>2. Queued' = Queued
  BY DEF Queued
<1>3. \A d \in Clients : pc'[d] = IF d = c THEN p ELSE pc[d]
  BY DEF Shape
<1>4. ~Sent(m)
  BY <1>1, NoMsgAssumption DEF Sent, Sending, Sends, Ownership
<1>5. \A x \in Msgs : /\ Made(x)' <=> Made(x)
                      /\ Sent(x)' <=> (Sent(x) \/ x = m)
  BY <1>3, <1>4 DEF Made, Sent, Sending, Sends
<1>6. \A x \in Msgs : /\ refs'[x] = IF x = m THEN refs[x] + 1 ELSE refs[x]
                      /\ live'[x] = live[x]
  BY DEF HoldForSend, Shape
<1>7. EveryReferenceIsOwed'
  <2> SUFFICES ASSUME NEW x \in Msgs
               PROVE  (refs[x] = Owed(x) /\ (live[x] <=> Owed(x) > 0))'
    BY DEF EveryReferenceIsOwed
  <2>1. refs[x] = Owed(x) /\ (live[x] <=> Owed(x) > 0) /\ Owed(x) \in Nat
    BY OwedIsNat DEF Ownership, EveryReferenceIsOwed
  <2>2. Owed(x)' = IF x = m THEN Owed(x) + 1 ELSE Owed(x)
    BY <1>1, <1>2, <1>4, <1>5 DEF Owed, Count
  <2>3. Made(m)
    BY DEF Made
  <2>4. x = m => Owed(x) > 0
    BY <2>3 DEF Owed, Count
  <2> QED BY <1>6, <2>1, <2>2, <2>4
<1> QED BY <1>1, <1>2, <1>3, <1>7 DEF Ownership

(* What S gives back is owed no longer.                                    *)
LEMMA OwnershipRelease ==
  ASSUME Shape, Ownership, Shape', NEW S \in SUBSET Msgs, ReleaseAll(S),
         \A x \in Msgs : Owed(x)' = IF x \in S THEN Owed(x) - 1 ELSE Owed(x)
  PROVE  EveryReferenceIsOwed'
<1> SUFFICES ASSUME NEW x \in Msgs
             PROVE  (refs[x] = Owed(x) /\ (live[x] <=> Owed(x) > 0))'
  BY DEF EveryReferenceIsOwed
<1>1. refs[x] = Owed(x) /\ (live[x] <=> Owed(x) > 0) /\ Owed(x) \in Nat
  BY OwedIsNat DEF Ownership, EveryReferenceIsOwed
<1>2. Owed(x)' \in Nat
  BY DEF Owed, Count
<1>3. /\ refs'[x] = IF x \in S THEN refs[x] - 1 ELSE refs[x]
      /\ live'[x] <=> (live[x] /\ ~(x \in S /\ refs[x] = 1))
  BY DEF ReleaseAll
<1> QED BY <1>1, <1>2, <1>3

(* A sender lets its second reference go.                                  *)
LEMMA OwnershipSent ==
  ASSUME NEW c \in Clients, NEW p, Shape, Ownership, Shape',
         pc[c] \in Making, pc[c] \in Sends, pc[c] \notin BeforePost,
         p \in Making, p \notin Sends, p \notin BeforePost,
         Release(mine[c]), pc' = [pc EXCEPT ![c] = p],
         UNCHANGED <<items, mine, cur, wpc>>
  PROVE  Ownership'
<1> DEFINE m == mine[c]
<1>1. m \in Msgs
  BY DEF Shape, Ownership
<1>2. Queued' = Queued
  BY DEF Queued
<1>3. \A d \in Clients : pc'[d] = IF d = c THEN p ELSE pc[d]
  BY DEF Shape
<1>4. Sent(m)
  BY DEF Sent, Sending, Sends
<1>5. \A x \in Msgs : /\ Made(x)' <=> Made(x)
                      /\ Sent(x)' <=> (Sent(x) /\ x # m)
  BY <1>1, <1>3, NoMsgAssumption DEF Made, Sent, Sending, Sends, Ownership
<1>6. \A x \in Msgs :
        Owed(x)' = IF x \in {m} THEN Owed(x) - 1 ELSE Owed(x)
  BY <1>1, <1>2, <1>4, <1>5 DEF Owed, Count
<1>7. EveryReferenceIsOwed'
  BY <1>1, <1>6, OwnershipRelease DEF Release
<1> QED BY <1>1, <1>2, <1>3, <1>7 DEF Ownership

(* A maker lets its message go.                                            *)
LEMMA OwnershipDrop ==
  ASSUME NEW c \in Clients, NEW p, Shape, Ownership, Shape',
         pc[c] \in Making, pc[c] \notin Sends, p \notin Making,
         p \notin Sends, p \notin BeforePost,
         Release(mine[c]), pc' = [pc EXCEPT ![c] = p],
         mine' = [mine EXCEPT ![c] = NoMsg],
         UNCHANGED <<items, cur, wpc>>
  PROVE  Ownership'
<1> DEFINE m == mine[c]
<1>1. m \in Msgs
  BY DEF Shape, Ownership
<1>2. Queued' = Queued
  BY DEF Queued
<1>3. /\ \A d \in Clients : mine'[d] = IF d = c THEN NoMsg ELSE mine[d]
      /\ \A d \in Clients : pc'[d] = IF d = c THEN p ELSE pc[d]
  BY DEF Shape
<1>4. Made(m) /\ ~Sent(m)
  BY <1>1, NoMsgAssumption DEF Made, Sent, Sending, Sends, Ownership
<1>5. \A x \in Msgs : /\ Made(x)' <=> (Made(x) /\ x # m)
                      /\ Sent(x)' <=> Sent(x)
  BY <1>1, <1>3, <1>4, NoMsgAssumption
  DEF Made, Sent, Sending, Sends, Ownership
<1>6. \A x \in Msgs :
        Owed(x)' = IF x \in {m} THEN Owed(x) - 1 ELSE Owed(x)
  BY <1>1, <1>2, <1>4, <1>5 DEF Owed, Count
<1>7. EveryReferenceIsOwed'
  BY <1>1, <1>6, OwnershipRelease DEF Release
<1> QED BY <1>1, <1>2, <1>3, <1>7, NoMsgAssumption DEF Ownership

(* What was waiting is let go all at once.                                 *)
LEMMA OwnershipSuspend ==
  ASSUME Shape, Ownership, Shape', SuspendQueue,
         \A c \in Clients : /\ pc'[c] \in Making <=> pc[c] \in Making
                            /\ pc'[c] \in Sends <=> pc[c] \in Sends
                            /\ pc'[c] \in BeforePost => pc[c] \in BeforePost,
         UNCHANGED <<mine, cur, wpc>>
  PROVE  Ownership'
<1>1. items' = <<>> /\ ReleaseAll(Queued)
  BY DEF SuspendQueue
<1>2. items' \in Seq(Msgs) /\ NoTwice(items') /\ Queued' = {}
  BY <1>1 DEF NoTwice, Queued
<1>3. Queued \in SUBSET Msgs
  BY DEF Queued, Ownership
<1>4. \A x \in Msgs : /\ Made(x)' <=> Made(x)
                      /\ Sent(x)' <=> Sent(x)
  BY DEF Made, Sent, Sending, Sends
<1>5. \A x \in Msgs :
        Owed(x)' = IF x \in Queued THEN Owed(x) - 1 ELSE Owed(x)
  BY <1>2, <1>4 DEF Owed, Count
<1>6. EveryReferenceIsOwed'
  BY <1>1, <1>3, <1>5, OwnershipRelease
<1> QED BY <1>2, <1>6 DEF Ownership

(* A message goes from the queue into the worker's hand with its reference.*)
LEMMA OwnershipPop ==
  ASSUME Shape, Ownership, Shape', PopFirst, cur = NoMsg, cur' = Head(items),
         wpc' \in Holding, UNCHANGED <<live, refs, pc, mine>>
  PROVE  Ownership'
<1> DEFINE m == Head(items)
<1>1. /\ items' \in Seq(Msgs)
      /\ m \in Queued
      /\ m \in Msgs
      /\ Queued' = Queued \ {m}
      /\ NoTwice(items')
  <2>1. /\ items \in Seq(Msgs) /\ items # <<>> /\ NoTwice(items)
        /\ items' = Tail(items)
    BY DEF PopFirst, Ownership
  <2>2. Queued = Elems(items) /\ Queued' = Elems(Tail(items))
    BY <2>1 DEF Queued, Elems
  <2> QED BY <2>1, <2>2, ElemsTail
<1>2. \A x \in Msgs : /\ Made(x)' <=> Made(x)
                      /\ Sent(x)' <=> Sent(x)
  BY DEF Made, Sent, Sending
<1>3. \A x \in Msgs : Owed(x)' = Owed(x)
  BY <1>1, <1>2, NoMsgAssumption DEF Owed, Count
<1>4. EveryReferenceIsOwed'
  BY <1>3 DEF Ownership, EveryReferenceIsOwed
<1>5. \A c \in Clients : pc'[c] \in BeforePost =>
                           mine'[c] \notin Queued' /\ mine'[c] # cur'
  BY <1>1 DEF Ownership
<1> QED BY <1>1, <1>4, <1>5, NoMsgAssumption DEF Ownership

(* The worker lets the message it ran go.                                  *)
LEMMA OwnershipDone ==
  ASSUME Shape, Ownership, Shape', Release(cur), cur # NoMsg, cur' = NoMsg,
         wpc' \notin Holding, UNCHANGED <<items, pc, mine>>
  PROVE  Ownership'
<1>1. cur \in Msgs
  BY DEF Shape
<1>2. Queued' = Queued
  BY DEF Queued
<1>3. \A x \in Msgs : /\ Made(x)' <=> Made(x)
                      /\ Sent(x)' <=> Sent(x)
  BY DEF Made, Sent, Sending
<1>4. \A x \in Msgs :
        Owed(x)' = IF x \in {cur} THEN Owed(x) - 1 ELSE Owed(x)
  BY <1>1, <1>2, <1>3, NoMsgAssumption DEF Owed, Count
<1>5. EveryReferenceIsOwed'
  BY <1>1, <1>4, OwnershipRelease DEF Release
<1>6. NoMsg \notin Queued /\ \A c \in Clients :
        pc[c] \in BeforePost => mine[c] # NoMsg
  BY NoMsgAssumption DEF Queued, Ownership, BeforePost, Making, PostPC,
                         SendPC, Locked
<1> QED BY <1>2, <1>5, <1>6 DEF Ownership

(* The places, sorted by what a client at them holds.                      *)
LEMMA Stations ==
  /\ \A p \in {"gate", "check", "post", "lock"} :
       p \in Making /\ p \in BeforePost /\ p \notin Sends
  /\ "sendpost" \in Making /\ "sendpost" \in BeforePost /\ "sendpost" \in Sends
  /\ \A p \in {"await", "unsignal", "unlock", "letgo"} :
       p \in Making /\ p \notin BeforePost /\ p \in Sends
  /\ \A p \in {"drop", "quitdrop"} :
       p \in Making /\ p \notin BeforePost /\ p \notin Sends
  /\ \A p \in {"idle", "stopgate", "stopcheck", "suspend", "turn", "quiet",
                "resumegate", "resumecheck", "resume", "endgate", "endclose",
                "endopen", "exitgate", "exitclose", "exitdone", "exitlet",
                "exitfinished", "exitopen", "over"} :
       p \notin Making /\ p \notin BeforePost /\ p \notin Sends
BY DEF Making, BeforePost, Sends, PostPC, SendPC, Locked

(* The worker's steps keep the books.                                      *)
LEMMA OwnershipWorker ==
  ASSUME Shape, Ownership, Shape', WorkerStep
  PROVE  Ownership'
<1> USE DEF Holding, Unanswered, messageVars, queueVars, threadVars,
            exitVars, clientVars, WGoto
<1>1. CASE WTop BY <1>1, OwnershipFrame DEF WTop
<1>2. CASE WWait BY <1>2, OwnershipFrame DEF WWait
<1>3. CASE WPop
  <2>1. cur = NoMsg
    BY <1>3 DEF WPop, Ownership
  <2>2. CASE PopFirst
    BY <1>3, <2>1, <2>2, OwnershipPop DEF WPop, PopFirst, PopNothing
  <2>3. CASE PopNothing
    BY <1>3, <2>3, OwnershipFrame DEF WPop, PopFirst, PopNothing
  <2> QED BY <1>3, <2>2, <2>3 DEF WPop
<1>4. CASE WRun BY <1>4, OwnershipFrame DEF WRun, NoteRun
<1>5. CASE WMark BY <1>5, OwnershipFrame DEF WMark, MarkResult
<1>6. CASE WAnswer BY <1>6, OwnershipFrame DEF WAnswer, SignalProcessed
<1>7. CASE WRelease
  <2>1. cur # NoMsg
    BY <1>7 DEF WRelease, Ownership
  <2> QED BY <1>7, <2>1, OwnershipDone DEF WRelease
<1>8. CASE WTurn BY <1>8, OwnershipFrame DEF WTurn
<1>9. CASE WExited BY <1>9, OwnershipFrame DEF WExited
<1>10. CASE WLeave BY <1>10, OwnershipFrame DEF WLeave
<1>11. CASE WLast BY <1>11, OwnershipFrame DEF WLast
<1> QED BY <1>1, <1>2, <1>3, <1>4, <1>5, <1>6, <1>7, <1>8, <1>9, <1>10,
           <1>11 DEF WorkerStep

(* A client's steps keep the books.                                        *)
LEMMA OwnershipClient ==
  ASSUME NEW c \in Clients, Shape, Ownership, Shape',
         ClientStart(c) \/ ClientStep(c)
  PROVE  Ownership'
<1> USE DEF messageVars, queueVars, threadVars, exitVars, workerVars, Goto
<1>1. CASE \E m \in Msgs : Begin(c, m)
  <2> PICK m \in Msgs : Begin(c, m)
    BY <1>1
  <2>1. mine[c] = NoMsg
    BY Stations DEF Begin, Ownership
  <2> QED BY <2>1, Stations, OwnershipMake DEF Begin
<1>2. CASE Check(c) BY <1>2, Stations, OwnershipMove DEF Check
<1>3. CASE Post(c)
  <2>1. CASE PostQueued(mine[c])
    BY <1>3, <2>1, Stations, OwnershipPost
    DEF Post, PostMessage, PostQueued, PostFailed, PostRefused
  <2>2. CASE PostFailed(mine[c]) \/ PostRefused(mine[c])
    BY <1>3, <2>2, Stations, OwnershipMove
    DEF Post, PostMessage, PostQueued, PostFailed, PostRefused
  <2> QED BY <1>3, <2>1, <2>2 DEF Post, PostMessage
<1>4. CASE SendPost(c)
  <2>1. CASE PostQueued(mine[c])
    BY <1>4, <2>1, Stations, OwnershipPost
    DEF SendPost, PostMessage, PostQueued, PostFailed, PostRefused
  <2>2. CASE PostFailed(mine[c]) \/ PostRefused(mine[c])
    BY <1>4, <2>2, Stations, OwnershipMove
    DEF SendPost, PostMessage, PostQueued, PostFailed, PostRefused
  <2> QED BY <1>4, <2>1, <2>2 DEF SendPost, PostMessage
<1>5. CASE SendLock(c) BY <1>5, Stations, OwnershipHold DEF SendLock
<1>6. CASE SendRelease(c) BY <1>6, Stations, OwnershipSent DEF SendRelease
<1>7. CASE Drop(c) BY <1>7, Stations, OwnershipDrop DEF Drop
<1>8. CASE QuitDrop(c) BY <1>8, Stations, OwnershipDrop DEF QuitDrop
<1>9. CASE Suspend(c)
  <2>1. \A d \in Clients : pc'[d] = IF d = c THEN "turn" ELSE pc[d]
    BY <1>9 DEF Suspend, Shape
  <2> QED BY <1>9, <2>1, Stations, OwnershipSuspend DEF Suspend
<1>10. CASE EndClose(c)
  <2>1. CASE asked BY <1>10, <2>1, Stations, OwnershipMove DEF EndClose
  <2>2. CASE ~asked
    <3> PICK m \in Msgs : Make(m) /\ mine' = [mine EXCEPT ![c] = m]
      BY <1>10, <2>2 DEF EndClose
    <3>1. mine[c] = NoMsg
      BY <1>10, Stations DEF EndClose, Ownership
    <3> QED BY <1>10, <2>2, <3>1, Stations, OwnershipMake DEF EndClose
  <2> QED BY <2>1, <2>2
<1>11. CASE BeginStop(c) BY <1>11, Stations, OwnershipMove DEF BeginStop
<1>12. CASE BeginEnd(c) BY <1>12, Stations, OwnershipMove DEF BeginEnd
<1>13. CASE EndAgain(c) BY <1>13, Stations, OwnershipMove DEF EndAgain
<1>14. CASE Gate(c) BY <1>14, Stations, OwnershipMove DEF Gate, PassGate
<1>15. CASE SendAwait(c) BY <1>15, Stations, OwnershipMove DEF SendAwait
<1>16. CASE SendUnsignal(c) BY <1>16, Stations, OwnershipMove
  DEF SendUnsignal, UnsignalDone
<1>17. CASE SendUnlock(c) BY <1>17, Stations, OwnershipMove DEF SendUnlock
<1>18. CASE StopGate(c) BY <1>18, Stations, OwnershipMove
  DEF StopGate, PassGate
<1>19. CASE StopCheck(c) BY <1>19, Stations, OwnershipMove
  DEF StopCheck, CheckTaking
<1>20. CASE AwaitTurn(c) BY <1>20, Stations, OwnershipMove DEF AwaitTurn
<1>21. CASE BeginResume(c) BY <1>21, Stations, OwnershipMove DEF BeginResume
<1>22. CASE ResumeGate(c) BY <1>22, Stations, OwnershipMove
  DEF ResumeGate, PassGate
<1>23. CASE ResumeCheck(c) BY <1>23, Stations, OwnershipMove
  DEF ResumeCheck, CheckTaking
<1>24. CASE Resume(c) BY <1>24, Stations, OwnershipMove DEF Resume, ResumeQueue
<1>25. CASE EndGate(c) BY <1>25, Stations, OwnershipMove DEF EndGate, PassGate
<1>26. CASE EndNoMemory(c) BY <1>26, Stations, OwnershipMove DEF EndNoMemory
<1>27. CASE EndOpen(c) BY <1>27, Stations, OwnershipMove DEF EndOpen, OpenGate
<1>28. CASE ExitGate(c) BY <1>28, Stations, OwnershipMove
  DEF ExitGate, PassGate
<1>29. CASE ExitClose(c) BY <1>29, Stations, OwnershipMove DEF ExitClose
<1>30. CASE ExitDone(c) BY <1>30, Stations, OwnershipMove DEF ExitDone
<1>31. CASE ExitLet(c) BY <1>31, Stations, OwnershipMove DEF ExitLet
<1>32. CASE ExitFinished(c) BY <1>32, Stations, OwnershipMove DEF ExitFinished
<1>33. CASE ExitOpen(c) BY <1>33, Stations, OwnershipMove
  DEF ExitOpen, OpenGate
<1> QED
  BY <1>1, <1>2, <1>3, <1>4, <1>5, <1>6, <1>7, <1>8, <1>9, <1>10, <1>11,
     <1>12, <1>13, <1>14, <1>15, <1>16, <1>17, <1>18, <1>19, <1>20, <1>21,
     <1>22, <1>23, <1>24, <1>25, <1>26, <1>27, <1>28, <1>29, <1>30, <1>31,
     <1>32, <1>33
  DEF ClientStart, ClientStep, SendStep, StopStep, EndStep

(* Every step keeps the books.                                             *)
LEMMA OwnershipNext ==
  Shape /\ Ownership /\ Shape' /\ [Next]_vars => Ownership'
<1>1. ASSUME Shape, Ownership, Shape', UNCHANGED vars PROVE Ownership'
  BY <1>1, OwnershipFrame
    DEF vars, messageVars, queueVars, clientVars, workerVars
<1> QED BY <1>1, OwnershipWorker, OwnershipClient DEF Next

(* Who holds which message, and that the reference counts say so, in every *)
(* state the code reaches (msg_addRef, msg_release and all their callers). *)
THEOREM OwnershipCorrect == Spec => []Ownership
BY ShapeCorrect, OwnershipInit, OwnershipNext, PTL DEF Spec

(* Counts are natural numbers, only real messages are queued: the type     *)
(* invariant follows from who owns what.                                   *)
THEOREM TypeCorrect == Spec => []TypeOK
<1>1. Shape /\ Ownership => TypeOK
  <2> SUFFICES ASSUME Shape, Ownership PROVE TypeOK
    OBVIOUS
  <2>1. refs \in [Msgs -> Nat]
    BY OwedIsNat DEF Shape, Ownership, EveryReferenceIsOwed
  <2> QED BY <2>1 DEF TypeOK, QueueTypeOK, Shape, Ownership
<1> QED BY <1>1, ShapeCorrect, OwnershipCorrect, PTL

(* No message is used after it has been destroyed and none is left over,   *)
(* whatever the clients do and however many there are.                     *)
THEOREM ReferencesCorrect == Spec => []EveryReferenceIsOwed
<1>1. Ownership => EveryReferenceIsOwed
  BY DEF Ownership
<1> QED BY <1>1, OwnershipCorrect, PTL

-----------------------------------------------------------------------------
(* Waking and stopping.                                                    *)

(* The worker is never left asleep beside a message, and never spins.      *)
THEOREM WakesCorrect == Spec => []ReadyIffWaiting
<1>1. Init => ReadyIffWaiting
  BY DEF Init, QueueInit, ReadyIffWaiting
<1>2. ASSUME Shape, ReadyIffWaiting, WorkerStep PROVE ReadyIffWaiting'
  <2>1. CASE WPop
    BY <1>2, <2>1 DEF WPop, PopFirst, PopNothing, ReadyIffWaiting
  <2>2. CASE ~WPop
    BY <1>2, <2>2 DEF WorkerStep, ReadyIffWaiting, WTop, WWait, WRun, NoteRun,
       WMark, MarkResult, WAnswer, SignalProcessed, WRelease, Release,
       ReleaseAll, WTurn, WExited, WLeave, WLast, queueVars
  <2> QED BY <2>1, <2>2
<1>3. ASSUME Shape, ReadyIffWaiting, NEW c \in Clients, NEW p, NEW q,
             PostMessage(c, p, q)
      PROVE  ReadyIffWaiting'
  <2>1. CASE PostQueued(mine[c])
    <3>1. /\ mine[c] \in Msgs \cup {NoMsg}
          /\ items \in Seq(Msgs \cup {NoMsg})
      BY <1>3 DEF Shape
    <3>2. Append(items, mine[c]) # <<>>
      BY <3>1
    <3> QED BY <2>1, <3>2 DEF PostQueued, ReadyIffWaiting
  <2>2. CASE ~PostQueued(mine[c])
    BY <1>3, <2>2 DEF PostMessage, PostFailed, PostRefused, queueVars,
       ReadyIffWaiting
  <2> QED BY <2>1, <2>2
<1>4. ASSUME Shape, ReadyIffWaiting, NEW c \in Clients,
             ClientStart(c) \/ ClientStep(c)
      PROVE  ReadyIffWaiting'
  <2>1. CASE Post(c) \/ SendPost(c)
    BY <1>3, <1>4, <2>1 DEF Post, SendPost
  <2>2. CASE Suspend(c)
    BY <2>2 DEF Suspend, SuspendQueue, ReadyIffWaiting
  <2>3. CASE ~Post(c) /\ ~SendPost(c) /\ ~Suspend(c)
    <3>1. UNCHANGED <<items, ready>>
      <4>1. CASE ClientStart(c)
        BY <4>1
           DEF ClientStart, Begin, BeginStop, BeginEnd, EndAgain, queueVars
      <4>2. CASE SendStep(c)
        BY <2>3, <4>2 DEF SendStep, SendLock, SendAwait, SendUnsignal,
           UnsignalDone, SendUnlock, SendRelease, queueVars
      <4>3. CASE StopStep(c)
        BY <2>3, <4>3 DEF StopStep, StopGate, PassGate, StopCheck,
           CheckTaking, AwaitTurn, BeginResume, ResumeGate, ResumeCheck,
           Resume, ResumeQueue, queueVars
      <4>4. CASE EndStep(c)
        BY <4>4 DEF EndStep, EndGate, PassGate, EndClose, EndNoMemory,
           QuitDrop, EndOpen, OpenGate, ExitGate, ExitClose, ExitDone,
           ExitLet, ExitFinished, ExitOpen, queueVars
      <4>5. CASE Gate(c) \/ Check(c) \/ Drop(c)
        BY <4>5 DEF Gate, PassGate, Check, Drop, queueVars
      <4> QED BY <1>4, <2>3, <4>1, <4>2, <4>3, <4>4, <4>5 DEF ClientStep
    <3> QED BY <1>4, <3>1 DEF ReadyIffWaiting
  <2> QED BY <2>1, <2>2, <2>3
<1>5. ASSUME ReadyIffWaiting, UNCHANGED vars PROVE ReadyIffWaiting'
  BY <1>5 DEF ReadyIffWaiting, vars, queueVars
<1>6. Shape /\ ReadyIffWaiting /\ [Next]_vars => ReadyIffWaiting'
  BY <1>2, <1>4, <1>5 DEF Next
<1> QED BY <1>1, <1>6, ShapeCorrect, PTL DEF Spec

(* Where a stopper is between its suspend and its resume, and from the     *)
(* turn on.                                                                *)
Stopped == {"turn", "quiet", "resumegate", "resumecheck", "resume"}
Silenced == Stopped \ {"turn"}
Stopping == Stopped \cup {"stopgate", "stopcheck", "suspend"}

(* Why a stop is quiet: the turn is down whenever the worker has anything  *)
(* in its hand, and there is only one stopper to undo a stop.              *)
QuietInv ==
  /\ turn => wpc \notin Holding
  /\ \A c \in Clients : pc[c] \in Stopping => "stop" \in MayDo[c]
  /\ Quiet

(* A step that leaves the queue and the stops alone keeps what a stop has  *)
(* been promised.                                                          *)
LEMMA QuietMove ==
  ASSUME NEW c \in Clients, NEW p, Shape, QuietInv,
         pc' = [pc EXCEPT ![c] = p],
         UNCHANGED <<items, suspended, turn, wpc>>,
         p \in Stopping => pc[c] \in Stopping,
         p \in Stopped => pc[c] \in Stopped,
         p \in Silenced => pc[c] \in Silenced
  PROVE  QuietInv'
<1>1. \A d \in Clients : pc'[d] = IF d = c THEN p ELSE pc[d]
  BY DEF Shape
<1> QED BY <1>1 DEF QuietInv, Quiet, Stopped, Silenced, Stopping

(* A post changes a queue only if nobody has stopped it.                   *)
LEMMA QuietPost ==
  ASSUME NEW c \in Clients, NEW p, NEW q, Shape, QuietInv,
         p \notin Stopping, q \notin Stopping, PostMessage(c, p, q)
  PROVE  QuietInv'
<1> USE DEF queueVars, threadVars, workerVars, Goto
<1>1. CASE PostQueued(mine[c])
  <2>1. \A d \in Clients : pc[d] \notin Stopped
    BY <1>1 DEF PostQueued, QuietInv, Quiet, Stopped
  <2>2. \A d \in Clients : pc'[d] = pc[d] \/ pc'[d] \notin Stopping
    BY DEF PostMessage, Shape
  <2>3. \A d \in Clients : pc'[d] \notin Stopped
    BY <2>1, <2>2 DEF Stopping
  <2>4. UNCHANGED <<turn, wpc>>
    BY DEF PostMessage
  <2> QED BY <2>2, <2>3, <2>4 DEF QuietInv, Quiet, Stopped
<1>2. CASE ~PostQueued(mine[c])
  BY <1>2, QuietMove
  DEF PostMessage, PostFailed, PostRefused, Stopped, Silenced, Stopping
<1> QED BY <1>1, <1>2

(* A client's steps keep what a stop has been promised.                    *)
LEMMA QuietClient ==
  ASSUME NEW c \in Clients, Shape, QuietInv, ClientStart(c) \/ ClientStep(c)
  PROVE  QuietInv'
<1> USE DEF Stopped, Silenced, Stopping, queueVars, threadVars, workerVars,
            Goto
<1>1. CASE \E m \in Msgs : Begin(c, m)
  BY <1>1, QuietMove DEF Begin
<1>2. CASE Post(c) BY <1>2, QuietPost DEF Post
<1>3. CASE SendPost(c) BY <1>3, QuietPost DEF SendPost
<1>4. CASE BeginStop(c)
  <2>1. \A d \in Clients : pc'[d] = IF d = c THEN "stopgate" ELSE pc[d]
    BY <1>4 DEF BeginStop, Shape
  <2> QED BY <1>4, <2>1 DEF BeginStop, QuietInv, Quiet
<1>5. CASE Suspend(c)
  <2>1. \A d \in Clients : pc'[d] = IF d = c THEN "turn" ELSE pc[d]
    BY <1>5 DEF Suspend, Shape
  <2>2. suspended' /\ items' = <<>> /\ UNCHANGED <<turn, wpc>>
    BY <1>5 DEF Suspend, SuspendQueue
  <2>3. pc[c] \in Stopping
    BY <1>5 DEF Suspend
  <2> QED BY <2>1, <2>2, <2>3 DEF QuietInv, Quiet
<1>6. CASE AwaitTurn(c)
  <2>1. \A d \in Clients : pc'[d] = IF d = c THEN "quiet" ELSE pc[d]
    BY <1>6 DEF AwaitTurn, Shape
  <2>2. pc[c] = "turn" /\ turn
    BY <1>6 DEF AwaitTurn
  <2>3. UNCHANGED <<suspended, items, turn, wpc>>
    BY <1>6 DEF AwaitTurn
  <2> QED BY <2>1, <2>2, <2>3 DEF QuietInv, Quiet
<1>7. CASE Resume(c)
  <2>1. \A d \in Clients : pc'[d] = IF d = c THEN "idle" ELSE pc[d]
    BY <1>7 DEF Resume, Shape
  <2>2. \A d \in Clients : d # c => pc[d] \notin Stopping
    BY <1>7, ClientAssumption DEF Resume, QuietInv, ClientAssumption
  <2>3. UNCHANGED <<turn, wpc>>
    BY <1>7 DEF Resume
  <2> QED BY <2>1, <2>2, <2>3 DEF QuietInv, Quiet
<1>8. CASE Gate(c) BY <1>8, QuietMove DEF Gate, PassGate
<1>9. CASE Check(c) BY <1>9, QuietMove DEF Check
<1>10. CASE Drop(c) BY <1>10, QuietMove DEF Drop
<1>11. CASE EndAgain(c) BY <1>11, QuietMove DEF EndAgain
<1>12. CASE BeginEnd(c) BY <1>12, QuietMove DEF BeginEnd
<1>13. CASE SendLock(c) BY <1>13, QuietMove DEF SendLock
<1>14. CASE SendAwait(c) BY <1>14, QuietMove DEF SendAwait
<1>15. CASE SendUnsignal(c) BY <1>15, QuietMove DEF SendUnsignal, UnsignalDone
<1>16. CASE SendUnlock(c) BY <1>16, QuietMove DEF SendUnlock
<1>17. CASE SendRelease(c) BY <1>17, QuietMove DEF SendRelease
<1>18. CASE StopGate(c) BY <1>18, QuietMove DEF StopGate, PassGate
<1>19. CASE StopCheck(c) BY <1>19, QuietMove DEF StopCheck, CheckTaking
<1>20. CASE BeginResume(c) BY <1>20, QuietMove DEF BeginResume
<1>21. CASE ResumeGate(c) BY <1>21, QuietMove DEF ResumeGate, PassGate
<1>22. CASE ResumeCheck(c) BY <1>22, QuietMove DEF ResumeCheck, CheckTaking
<1>23. CASE EndGate(c) BY <1>23, QuietMove DEF EndGate, PassGate
<1>24. CASE EndClose(c) BY <1>24, QuietMove DEF EndClose
<1>25. CASE QuitDrop(c) BY <1>25, QuietMove DEF QuitDrop
<1>26. CASE EndNoMemory(c) BY <1>26, QuietMove DEF EndNoMemory
<1>27. CASE EndOpen(c) BY <1>27, QuietMove DEF EndOpen, OpenGate
<1>28. CASE ExitGate(c) BY <1>28, QuietMove DEF ExitGate, PassGate
<1>29. CASE ExitClose(c) BY <1>29, QuietMove DEF ExitClose
<1>30. CASE ExitDone(c) BY <1>30, QuietMove DEF ExitDone
<1>31. CASE ExitLet(c) BY <1>31, QuietMove DEF ExitLet
<1>32. CASE ExitFinished(c) BY <1>32, QuietMove DEF ExitFinished
<1>33. CASE ExitOpen(c) BY <1>33, QuietMove DEF ExitOpen, OpenGate
<1> QED
  BY <1>1, <1>2, <1>3, <1>4, <1>5, <1>6, <1>7, <1>8, <1>9, <1>10, <1>11,
     <1>12, <1>13, <1>14, <1>15, <1>16, <1>17, <1>18, <1>19, <1>20, <1>21,
     <1>22, <1>23, <1>24, <1>25, <1>26, <1>27, <1>28, <1>29, <1>30, <1>31,
     <1>32, <1>33
  DEF ClientStart, ClientStep, SendStep, StopStep, EndStep

(* The worker's steps keep what a stop has been promised.                  *)
LEMMA QuietWorker ==
  ASSUME Shape, QuietInv, WorkerStep
  PROVE  QuietInv'
<1> USE DEF Holding, Unanswered, queueVars, threadVars, clientVars, WGoto
<1>1. pc' = pc /\ suspended' = suspended
  BY DEF WorkerStep, WTop, WWait, WPop, PopFirst, PopNothing, WRun, WMark,
     WAnswer, SignalProcessed, WRelease, WTurn, WExited, WLeave, WLast
<1>2. items' = items \/ (items # <<>> /\ wpc = "pop")
  BY DEF WorkerStep, WTop, WWait, WPop, PopFirst, PopNothing, WRun, WMark,
     WAnswer, SignalProcessed, WRelease, WTurn, WExited, WLeave, WLast
<1>3. wpc' \in Holding => ~turn' /\ (wpc \in Holding \/ items # <<>>)
  BY DEF WorkerStep, WTop, WWait, WPop, PopFirst, PopNothing, WRun, WMark,
     WAnswer, SignalProcessed, WRelease, WTurn, WExited, WLeave, WLast,
     QuietInv
<1> QED BY <1>1, <1>2, <1>3 DEF QuietInv, Quiet

(* A stop is a quiet one: nothing waits from the suspend on, and nothing   *)
(* runs from the turn on, until the same stopper resumes.                  *)
THEOREM QuietCorrect == Spec => []Quiet
<1>1. Init => QuietInv
  BY DEF Init, QuietInv, Quiet, Stopping, Stopped, Holding, Unanswered
<1>2. ASSUME QuietInv, UNCHANGED vars PROVE QuietInv'
  BY <1>2 DEF QuietInv, Quiet, vars, queueVars, threadVars, clientVars,
              workerVars
<1>3. Shape /\ QuietInv /\ [Next]_vars => QuietInv'
  BY <1>2, QuietClient, QuietWorker DEF Next
<1>4. QuietInv => Quiet
  BY DEF QuietInv
<1> QED BY <1>1, <1>3, <1>4, ShapeCorrect, PTL DEF Spec

-----------------------------------------------------------------------------
(* What a send promises: q_sendMessage against the worker, the stop and    *)
(* every other client.                                                     *)

(* Where a sender is told, and where it still has what it was told.        *)
Told == {"unsignal", "unlock", "letgo", "quitdrop"}

(* The lock says who is sending.                                           *)
LockHeld == \A c \in Clients : sendLock = c <=> pc[c] \in Locked

(* The message of a sender says that it is sent.                           *)
Marked == \A c \in Clients : pc[c] \in Sends => isSend[mine[c]]

(* Before it is posted a message has not run, and until the lock is taken  *)
(* it says nothing.                                                        *)
Unposted ==
  \A c \in Clients : pc[c] \in BeforePost =>
    /\ ~ran[mine[c]]
    /\ pc[c] # "sendpost" => ~isSend[mine[c]]

(* Nobody signals for a message nobody waits for.                          *)
Awaited ==
  \A m \in Msgs : isSend[m] /\ WillBeAnswered(m) =>
    \E c \in Clients : pc[c] = "await" /\ mine[c] = m

(* The result of a message that is waited for is that it has run, but for  *)
(* the moment between running it and writing that down.                    *)
Unmarked(m) == cur = m /\ wpc = "mark"
NotYetRun(m) == m \in Queued \/ (cur = m /\ wpc = "run")

Recorded ==
  \A c \in Clients : pc[c] = "await" =>
    /\ NotYetRun(mine[c]) => ~ran[mine[c]]
    /\ Unmarked(mine[c]) => ran[mine[c]]
    /\ ~Unmarked(mine[c]) => (ran[mine[c]] <=> result[mine[c]] = 1)

(* What a sender was told is so, and nothing can change it any more.       *)
Settled ==
  \A c \in Clients : pc[c] \in Told =>
    /\ ~WillBeAnswered(mine[c])
    /\ answer[c] = "queued" <=> ran[mine[c]]

SendInv ==
  /\ LockHeld
  /\ Marked
  /\ Unposted
  /\ Awaited
  /\ AnswerReachesItsSender
  /\ DoneIsTakenBack
  /\ Recorded
  /\ Settled

LEMMA SendInit == Init => SendInv
<1> SUFFICES ASSUME Init PROVE SendInv
  OBVIOUS
<1>1. /\ \A c \in Clients : pc[c] = "idle"
      /\ sendLock = Nobody /\ ~done
      /\ \A m \in Msgs : ~isSend[m]
  BY DEF Init, QueueInit
<1>2. "idle" \notin Locked /\ "idle" \notin Sends /\ "idle" \notin BeforePost
      /\ "idle" \notin Told
  BY DEF Locked, Sends, BeforePost, Told
<1> QED BY <1>1, <1>2, ClientAssumption
  DEF ClientAssumption, SendInv, LockHeld, Marked, Unposted, Awaited,
      AnswerReachesItsSender, DoneIsTakenBack, Recorded, Settled

(* A step of a client that posts nothing, signals nothing and hands over   *)
(* nothing keeps every promise.                                            *)
LEMMA SendMove ==
  ASSUME NEW c \in Clients, NEW p, Shape, SendInv,
         pc' = [pc EXCEPT ![c] = p],
         UNCHANGED <<isSend, ran, result, items, done, sendLock, cur, wpc>>,
         \A d \in Clients : d # c => mine'[d] = mine[d] /\ answer'[d] = answer[d],
         p \in Making => mine'[c] = mine[c],
         p \in Told => pc[c] \in Told /\ answer'[c] = answer[c],
         p \in Told => p \in Making,
         p \in Locked <=> pc[c] \in Locked,
         p \in Sends => pc[c] \in Sends /\ p \in Making,
         p \in BeforePost => pc[c] \in BeforePost /\ p \in Making,
         p \notin {"await", "sendpost"},
         pc[c] \notin {"await", "unsignal", "sendpost"}
  PROVE  SendInv'
<1>1. \A d \in Clients : pc'[d] = IF d = c THEN p ELSE pc[d]
  BY DEF Shape
<1>2. \A m : WillBeAnswered(m)' <=> WillBeAnswered(m)
  BY DEF WillBeAnswered, Queued
<1>3. \A m : /\ NotYetRun(m)' <=> NotYetRun(m)
             /\ Unmarked(m)' <=> Unmarked(m)
  BY DEF NotYetRun, Unmarked, Queued
<1>4. LockHeld' BY <1>1 DEF SendInv, LockHeld
<1>5. Marked' BY <1>1 DEF SendInv, Marked
<1>6. Unposted' BY <1>1 DEF SendInv, Unposted
<1>7. Awaited' BY <1>1, <1>2 DEF SendInv, Awaited
<1>8. AnswerReachesItsSender'
  BY <1>1, <1>2 DEF SendInv, AnswerReachesItsSender
<1>9. DoneIsTakenBack' BY <1>1 DEF SendInv, DoneIsTakenBack
<1>10. Recorded' BY <1>1, <1>3 DEF SendInv, Recorded
<1>11. Settled' BY <1>1, <1>2 DEF SendInv, Settled
<1> QED BY <1>4, <1>5, <1>6, <1>7, <1>8, <1>9, <1>10, <1>11 DEF SendInv

(* A new message is unknown to everybody but its maker.                    *)
LEMMA SendMake ==
  ASSUME NEW c \in Clients, NEW m \in Msgs, NEW p, Shape, Ownership,
         Ownership', SendInv, Make(m), mine' = [mine EXCEPT ![c] = m],
         pc' = [pc EXCEPT ![c] = p], p \in {"gate", "lock"},
         pc[c] \notin Making,
         UNCHANGED <<items, done, sendLock, cur, wpc, answer>>
  PROVE  SendInv'
<1>1. /\ \A d \in Clients : pc'[d] = IF d = c THEN p ELSE pc[d]
      /\ \A d \in Clients : mine'[d] = IF d = c THEN m ELSE mine[d]
  BY DEF Shape
<1>2. \A x \in Msgs : /\ isSend'[x] <=> x # m /\ isSend[x]
                      /\ ran'[x] <=> x # m /\ ran[x]
                      /\ x # m => result'[x] = result[x]
  BY DEF Make, Shape
<1>3. ASSUME NEW d \in Clients, d # c, pc[d] \in Making
      PROVE  mine[d] \in Msgs /\ mine[d] # m
  <2>1. mine[d] \in Msgs
    BY <1>3 DEF Ownership, Shape
  <2>2. mine'[c] = m /\ m # NoMsg
    BY <1>1, NoMsgAssumption
  <2> QED BY <1>1, <1>3, <2>1, <2>2 DEF Ownership
<1>4. \A x : WillBeAnswered(x)' <=> WillBeAnswered(x)
  BY DEF WillBeAnswered, Queued
<1>5. \A x : /\ NotYetRun(x)' <=> NotYetRun(x)
             /\ Unmarked(x)' <=> Unmarked(x)
  BY DEF NotYetRun, Unmarked, Queued
<1>6. /\ p \in BeforePost /\ p # "sendpost" /\ p # "await" /\ p # "unsignal"
      /\ p \notin Locked /\ p \notin Sends /\ p \notin Told
      /\ pc[c] \notin Locked /\ pc[c] # "await" /\ pc[c] # "unsignal"
  BY Stations DEF Locked, Told, Sends, Making, SendPC
<1>7. \A x : x \in Sends \cup BeforePost \cup Told \cup {"await"} => x \in Making
  BY DEF Sends, BeforePost, Told, Making, SendPC, PostPC, Locked
<1>8. LockHeld' BY <1>1, <1>6 DEF SendInv, LockHeld
<1>9. Marked' BY <1>1, <1>2, <1>3, <1>6, <1>7 DEF SendInv, Marked
<1>10. Unposted' BY <1>1, <1>2, <1>3, <1>6, <1>7 DEF SendInv, Unposted
<1>11. Awaited'
  <2> SUFFICES ASSUME NEW x \in Msgs, isSend'[x], WillBeAnswered(x)'
               PROVE  \E d \in Clients : pc'[d] = "await" /\ mine'[d] = x
    BY DEF Awaited
  <2>1. PICK d \in Clients : pc[d] = "await" /\ mine[d] = x
    BY <1>2, <1>4 DEF SendInv, Awaited
  <2> QED BY <1>1, <1>6, <2>1
<1>12. AnswerReachesItsSender'
  BY <1>1, <1>4, <1>6 DEF SendInv, AnswerReachesItsSender
<1>13. DoneIsTakenBack' BY <1>1, <1>6 DEF SendInv, DoneIsTakenBack
<1>14. Recorded'
  BY <1>1, <1>2, <1>3, <1>5, <1>6, <1>7 DEF SendInv, Recorded
<1>15. Settled' BY <1>1, <1>2, <1>3, <1>4, <1>6, <1>7 DEF SendInv, Settled
<1> QED BY <1>8, <1>9, <1>10, <1>11, <1>12, <1>13, <1>14, <1>15 DEF SendInv

(* A sender takes the lock and says on its message that it sends it.       *)
LEMMA SendLocks ==
  ASSUME NEW c \in Clients, Shape, Ownership, SendInv, SendLock(c)
  PROVE  SendInv'
<1> DEFINE m == mine[c]
<1>1. /\ \A d \in Clients : pc'[d] = IF d = c THEN "sendpost" ELSE pc[d]
      /\ pc[c] = "lock" /\ sendLock = Nobody /\ sendLock' = c
      /\ mine' = mine /\ answer' = answer
      /\ UNCHANGED <<items, done, cur, wpc, ran, result>>
  BY DEF SendLock, Goto, Shape, HoldForSend, queueVars, workerVars
<1>2. m \in Msgs /\ m \notin Queued /\ m # cur
  BY <1>1, Stations DEF Ownership, Shape
<1>3. \A x \in Msgs : isSend'[x] <=> x = m \/ isSend[x]
  BY <1>2 DEF SendLock, HoldForSend, Shape
<1>4. ASSUME NEW d \in Clients, d # c, pc[d] \in Making
      PROVE  mine[d] \in Msgs /\ mine[d] # m
  BY <1>2, <1>4, NoMsgAssumption DEF Ownership, Shape
<1>5. \A x : WillBeAnswered(x)' <=> WillBeAnswered(x)
  BY <1>1 DEF WillBeAnswered, Queued
<1>6. \A x : /\ NotYetRun(x)' <=> NotYetRun(x)
             /\ Unmarked(x)' <=> Unmarked(x)
  BY <1>1 DEF NotYetRun, Unmarked, Queued
<1>7. /\ "sendpost" \in Locked /\ "sendpost" \notin Told
      /\ "sendpost" \in BeforePost /\ "lock" \in BeforePost
  BY DEF Locked, Told, BeforePost
<1>8. \A x : x \in Sends \cup BeforePost \cup Told \cup {"await"} => x \in Making
  BY DEF Sends, BeforePost, Told, Making, SendPC, PostPC, Locked
<1>9. LockHeld'
  <2>1. \A d \in Clients : pc[d] \notin Locked
    BY <1>1, ClientAssumption DEF SendInv, LockHeld, ClientAssumption
  <2> QED BY <1>1, <1>7, <2>1 DEF LockHeld
<1>10. Marked' BY <1>1, <1>2, <1>3, <1>4, <1>8 DEF SendInv, Marked
<1>11. Unposted' BY <1>1, <1>2, <1>3, <1>4, <1>7, <1>8 DEF SendInv, Unposted
<1>12. Awaited'
  <2> SUFFICES ASSUME NEW x \in Msgs, isSend'[x], WillBeAnswered(x)'
               PROVE  \E d \in Clients : pc'[d] = "await" /\ mine'[d] = x
    BY DEF Awaited
  <2>1. x # m
    BY <1>2, <1>5 DEF WillBeAnswered
  <2>2. PICK d \in Clients : pc[d] = "await" /\ mine[d] = x
    BY <1>3, <1>5, <2>1 DEF SendInv, Awaited
  <2> QED BY <1>1, <2>2
<1>13. AnswerReachesItsSender'
  BY <1>1, <1>5 DEF SendInv, AnswerReachesItsSender
<1>14. DoneIsTakenBack' BY <1>1 DEF SendInv, DoneIsTakenBack
<1>15. Recorded' BY <1>1, <1>6 DEF SendInv, Recorded
<1>16. Settled' BY <1>1, <1>5, <1>7 DEF SendInv, Settled
<1> QED BY <1>9, <1>10, <1>11, <1>12, <1>13, <1>14, <1>15, <1>16 DEF SendInv

(* What posting a message does to the promises about the others.           *)
LEMMA SendPosted ==
  ASSUME NEW c \in Clients, NEW p, Shape, Ownership, SendInv,
         pc[c] \in BeforePost, PostQueued(mine[c]),
         pc' = [pc EXCEPT ![c] = p], answer' = [answer EXCEPT ![c] = "queued"],
         UNCHANGED <<sendLock, mine, cur, wpc>>,
         \/ pc[c] = "sendpost" /\ p = "await"
         \/ pc[c] = "post" /\ p = "drop"
  PROVE  SendInv'
<1> DEFINE m == mine[c]
<1>1. /\ \A d \in Clients : pc'[d] = IF d = c THEN p ELSE pc[d]
      /\ \A d \in Clients : d # c => answer'[d] = answer[d]
      /\ UNCHANGED <<isSend, ran, done>>
  BY DEF PostQueued, Shape
<1>2. m \in Msgs /\ m \notin Queued /\ m # cur /\ ~ran[m]
  BY DEF SendInv, Unposted, Ownership, Shape, Making, BeforePost, PostPC,
         SendPC, Locked
<1>3. \A x \in Msgs : result'[x] = IF x = m THEN 0 ELSE result[x]
  BY <1>2 DEF PostQueued, Shape
<1>4. Queued' = Queued \cup {m}
  BY <1>2, ElemsAppend DEF PostQueued, Ownership, Queued, Elems
<1>5. ASSUME NEW d \in Clients, d # c, pc[d] \in Making
      PROVE  mine[d] \in Msgs /\ mine[d] # m
  BY <1>2, <1>5, NoMsgAssumption DEF Ownership, Shape
<1>6. /\ \A x : WillBeAnswered(x)' <=> WillBeAnswered(x) \/ x = m
      /\ \A x : NotYetRun(x)' <=> NotYetRun(x) \/ x = m
      /\ \A x : Unmarked(x)' <=> Unmarked(x)
  BY <1>4 DEF WillBeAnswered, NotYetRun, Unmarked
<1>7. \A x : x \in Sends \cup BeforePost \cup Told \cup {"await"} => x \in Making
  BY DEF Sends, BeforePost, Told, Making, SendPC, PostPC, Locked
<1>8. /\ p \notin BeforePost /\ p \notin Told
      /\ p \in Locked <=> pc[c] \in Locked
      /\ p \in Sends <=> pc[c] \in Sends
      /\ pc[c] \notin {"await", "unsignal"}
  BY DEF BeforePost, Told, Locked, Sends
<1>9. LockHeld' BY <1>1, <1>8 DEF SendInv, LockHeld
<1>10. Marked' BY <1>1, <1>8 DEF SendInv, Marked
<1>11. Unposted' BY <1>1, <1>8 DEF SendInv, Unposted
<1>12. Awaited'
  <2> SUFFICES ASSUME NEW x \in Msgs, isSend'[x], WillBeAnswered(x)'
               PROVE  \E d \in Clients : pc'[d] = "await" /\ mine'[d] = x
    BY DEF Awaited
  <2>1. CASE x = m
    <3>1. pc[c] = "sendpost" /\ p = "await"
      BY <1>1, <2>1 DEF SendInv, Unposted, BeforePost
    <3> QED BY <1>1, <2>1, <3>1
  <2>2. CASE x # m
    <3>1. PICK d \in Clients : pc[d] = "await" /\ mine[d] = x
      BY <1>1, <1>6, <2>2 DEF SendInv, Awaited
    <3> QED BY <1>1, <1>8, <3>1
  <2> QED BY <2>1, <2>2
<1>13. AnswerReachesItsSender'
  <2>1. ASSUME NEW d \in Clients, d # c, pc'[d] = "await"
        PROVE  (done <=> ~WillBeAnswered(mine[d]))'
    BY <1>1, <1>5, <1>6, <1>7, <2>1 DEF SendInv, AnswerReachesItsSender
  <2>2. ASSUME p = "await" PROVE (done <=> ~WillBeAnswered(mine[c]))'
    <3>1. sendLock = c
      BY <2>2 DEF SendInv, LockHeld, Locked
    <3>2. \A d \in Clients : pc[d] \notin {"await", "unsignal"}
      BY <1>8, <3>1 DEF SendInv, LockHeld, Locked
    <3>3. ~done
      BY <3>2 DEF SendInv, DoneIsTakenBack
    <3> QED BY <1>1, <1>6, <3>3
  <2> QED BY <1>1, <2>1, <2>2 DEF AnswerReachesItsSender
<1>14. DoneIsTakenBack'
  <2>1. done => \E d \in Clients : d # c /\ pc[d] \in {"await", "unsignal"}
    BY <1>8 DEF SendInv, DoneIsTakenBack
  <2> QED BY <1>1, <2>1 DEF DoneIsTakenBack
<1>15. Recorded'
  BY <1>1, <1>2, <1>3, <1>5, <1>6, <1>7 DEF SendInv, Recorded, Unmarked
<1>16. Settled' BY <1>1, <1>5, <1>6, <1>7, <1>8 DEF SendInv, Settled
<1> QED BY <1>9, <1>10, <1>11, <1>12, <1>13, <1>14, <1>15, <1>16 DEF SendInv

(* A message that does not get on the queue is not run.                    *)
LEMMA SendUnposted ==
  ASSUME NEW c \in Clients, NEW p, NEW a \in {"failed", "refused"},
         Shape, Ownership, SendInv,
         PostFailed(mine[c]) \/ PostRefused(mine[c]),
         pc' = [pc EXCEPT ![c] = p], answer' = [answer EXCEPT ![c] = a],
         UNCHANGED <<sendLock, mine, cur, wpc>>,
         \/ pc[c] = "sendpost" /\ p = "unlock"
         \/ pc[c] = "post" /\ p = "drop"
  PROVE  SendInv'
<1> DEFINE m == mine[c]
<1>1. /\ \A d \in Clients : pc'[d] = IF d = c THEN p ELSE pc[d]
      /\ \A d \in Clients : answer'[d] = IF d = c THEN a ELSE answer[d]
      /\ UNCHANGED <<isSend, ran, done, items>>
  BY DEF PostFailed, PostRefused, queueVars, Shape
<1>2. m \in Msgs /\ m \notin Queued /\ m # cur /\ ~ran[m]
  BY DEF SendInv, Unposted, Ownership, Shape, Making, BeforePost, PostPC,
         SendPC, Locked
<1>3. \A x \in Msgs : x # m => result'[x] = result[x]
  BY <1>2 DEF PostFailed, PostRefused, Shape
<1>4. ASSUME NEW d \in Clients, d # c, pc[d] \in Making
      PROVE  mine[d] \in Msgs /\ mine[d] # m
  BY <1>2, <1>4, NoMsgAssumption DEF Ownership, Shape
<1>5. /\ \A x : WillBeAnswered(x)' <=> WillBeAnswered(x)
      /\ \A x : NotYetRun(x)' <=> NotYetRun(x)
      /\ \A x : Unmarked(x)' <=> Unmarked(x)
  BY <1>1 DEF WillBeAnswered, NotYetRun, Unmarked, Queued
<1>6. /\ p \notin BeforePost /\ p # "await" /\ a # "queued"
      /\ p \in Locked <=> pc[c] \in Locked
      /\ p \in Sends <=> pc[c] \in Sends
      /\ pc[c] \notin {"await", "unsignal"}
      /\ "await" \in Making
  BY Stations DEF BeforePost, Locked, Sends
<1>7. LockHeld' BY <1>1, <1>6 DEF SendInv, LockHeld
<1>8. Marked' BY <1>1, <1>6 DEF SendInv, Marked
<1>9. Unposted' BY <1>1, <1>6 DEF SendInv, Unposted
<1>10. Awaited' BY <1>1, <1>5, <1>6 DEF SendInv, Awaited
<1>11. AnswerReachesItsSender'
  BY <1>1, <1>5, <1>6 DEF SendInv, AnswerReachesItsSender
<1>12. DoneIsTakenBack' BY <1>1, <1>6 DEF SendInv, DoneIsTakenBack
<1>13. Recorded' BY <1>1, <1>3, <1>4, <1>5, <1>6 DEF SendInv, Recorded
<1>14. Settled'
  <2>1. ~WillBeAnswered(m)
    BY <1>2 DEF WillBeAnswered
  <2> QED BY <1>1, <1>2, <1>5, <1>6, <2>1 DEF SendInv, Settled
<1> QED BY <1>7, <1>8, <1>9, <1>10, <1>11, <1>12, <1>13, <1>14 DEF SendInv

(* The sender that is woken learns from its own message what happened.     *)
LEMMA SendWoken ==
  ASSUME NEW c \in Clients, Shape, Ownership, SendInv, SendAwait(c)
  PROVE  SendInv'
<1> DEFINE m == mine[c]
<1>1. /\ \A d \in Clients : pc'[d] = IF d = c THEN "unsignal" ELSE pc[d]
      /\ pc[c] = "await" /\ done
      /\ \A d \in Clients : d # c => answer'[d] = answer[d]
      /\ answer'[c] = IF result[m] = 0 THEN "refused" ELSE "queued"
      /\ UNCHANGED <<isSend, ran, result, items, done, sendLock, mine, cur, wpc>>
  BY DEF SendAwait, Goto, Shape, messageVars, queueVars, threadVars, workerVars
<1>2. m \in Msgs /\ result[m] \in {0, 1}
  BY <1>1, Stations DEF Ownership, Shape
<1>3. ~WillBeAnswered(m)
  BY <1>1 DEF SendInv, AnswerReachesItsSender
<1>4. ran[m] <=> result[m] = 1
  BY <1>1, <1>3 DEF SendInv, Recorded, Unmarked, WillBeAnswered, Unanswered
<1>5. answer'[c] = "queued" <=> ran[m]
  BY <1>1, <1>2, <1>4
<1>6. /\ \A x : WillBeAnswered(x)' <=> WillBeAnswered(x)
      /\ \A x : NotYetRun(x)' <=> NotYetRun(x)
      /\ \A x : Unmarked(x)' <=> Unmarked(x)
  BY <1>1 DEF WillBeAnswered, NotYetRun, Unmarked, Queued
<1>7. /\ "unsignal" \in Locked /\ "await" \in Locked
      /\ "unsignal" \in Sends /\ "await" \in Sends
      /\ "unsignal" \notin BeforePost
  BY DEF Locked, Sends, BeforePost
<1>8. LockHeld' BY <1>1, <1>7 DEF SendInv, LockHeld
<1>9. Marked' BY <1>1, <1>7 DEF SendInv, Marked
<1>10. Unposted' BY <1>1, <1>7 DEF SendInv, Unposted
<1>11. Awaited' BY <1>1, <1>3, <1>6 DEF SendInv, Awaited
<1>12. AnswerReachesItsSender'
  BY <1>1, <1>6 DEF SendInv, AnswerReachesItsSender
<1>13. DoneIsTakenBack' BY <1>1 DEF DoneIsTakenBack
<1>14. Recorded' BY <1>1, <1>6 DEF SendInv, Recorded
<1>15. Settled' BY <1>1, <1>3, <1>5, <1>6 DEF SendInv, Settled
<1> QED BY <1>8, <1>9, <1>10, <1>11, <1>12, <1>13, <1>14, <1>15 DEF SendInv

(* Only the one that has the lock can be waiting: it takes down the event  *)
(* that was its own, and then lets the next one in.                        *)
LEMMA SendTakesBack ==
  ASSUME NEW c \in Clients, Shape, SendInv, SendUnsignal(c) \/ SendUnlock(c)
  PROVE  SendInv'
<1>1. CASE SendUnsignal(c)
  <2>1. /\ \A d \in Clients : pc'[d] = IF d = c THEN "unlock" ELSE pc[d]
        /\ pc[c] = "unsignal" /\ ~done'
        /\ UNCHANGED <<isSend, ran, result, items, sendLock, mine, answer, cur,
                       wpc>>
    BY <1>1 DEF SendUnsignal, UnsignalDone, Goto, Shape, messageVars,
                threadVars, workerVars
  <2>2. \A d \in Clients : pc'[d] # "await"
    BY <2>1 DEF SendInv, LockHeld, Locked
  <2>3. /\ \A x : WillBeAnswered(x)' <=> WillBeAnswered(x)
        /\ \A x : NotYetRun(x)' <=> NotYetRun(x)
        /\ \A x : Unmarked(x)' <=> Unmarked(x)
    BY <2>1 DEF WillBeAnswered, NotYetRun, Unmarked, Queued
  <2>4. /\ "unlock" \in Locked /\ "unsignal" \in Locked
        /\ "unlock" \in Sends /\ "unsignal" \in Sends
        /\ "unlock" \notin BeforePost /\ "unsignal" \in Told
    BY DEF Locked, Sends, BeforePost, Told
  <2>5. Awaited' BY <2>1, <2>3 DEF SendInv, Awaited
  <2>6. Settled' BY <2>1, <2>3, <2>4 DEF SendInv, Settled
  <2> QED BY <2>1, <2>2, <2>4, <2>5, <2>6
    DEF SendInv, LockHeld, Marked, Unposted, AnswerReachesItsSender,
        DoneIsTakenBack, Recorded
<1>2. CASE SendUnlock(c)
  <2>1. /\ \A d \in Clients : pc'[d] = IF d = c THEN "letgo" ELSE pc[d]
        /\ pc[c] = "unlock" /\ sendLock' = Nobody
        /\ UNCHANGED <<isSend, ran, result, items, done, mine, answer, cur, wpc>>
    BY <1>2 DEF SendUnlock, Goto, Shape, messageVars, queueVars, workerVars
  <2>2. \A d \in Clients : d # c => pc[d] \notin Locked
    BY <2>1 DEF SendInv, LockHeld, Locked
  <2>3. /\ \A x : WillBeAnswered(x)' <=> WillBeAnswered(x)
        /\ \A x : NotYetRun(x)' <=> NotYetRun(x)
        /\ \A x : Unmarked(x)' <=> Unmarked(x)
    BY <2>1 DEF WillBeAnswered, NotYetRun, Unmarked, Queued
  <2>4. /\ "letgo" \notin Locked /\ "letgo" \in Sends /\ "unlock" \in Sends
        /\ "letgo" \notin BeforePost /\ "unlock" \in Told
        /\ "letgo" # "await" /\ "unlock" \notin {"await", "unsignal"}
    BY DEF Locked, Sends, BeforePost, Told
  <2>5. LockHeld'
    BY <2>1, <2>2, <2>4, ClientAssumption DEF LockHeld, ClientAssumption
  <2>6. Awaited' BY <2>1, <2>3, <2>4 DEF SendInv, Awaited
  <2>7. Settled' BY <2>1, <2>3, <2>4 DEF SendInv, Settled
  <2>8. Recorded' BY <2>1, <2>3, <2>4 DEF SendInv, Recorded
  <2>9. AnswerReachesItsSender' /\ DoneIsTakenBack'
    BY <2>1, <2>3, <2>4 DEF SendInv, AnswerReachesItsSender, DoneIsTakenBack
  <2> QED BY <2>1, <2>4, <2>5, <2>6, <2>7, <2>8, <2>9
    DEF SendInv, Marked, Unposted
<1> QED BY <1>1, <1>2

(* Whoever waits for a message that a stop throws away is told.            *)
LEMMA SendSuspended ==
  ASSUME NEW c \in Clients, Shape, Ownership, SendInv, Suspend(c)
  PROVE  SendInv'
<1>1. /\ \A d \in Clients : pc'[d] = IF d = c THEN "turn" ELSE pc[d]
      /\ pc[c] = "suspend"
      /\ done' <=> (done \/ \E m \in Queued : isSend[m])
      /\ items' = <<>>
      /\ UNCHANGED <<isSend, ran, result, sendLock, mine, answer, cur, wpc>>
  BY DEF Suspend, SuspendQueue, ReleaseAll, Goto, Shape, threadVars, workerVars
<1>2. Queued' = {}
  BY <1>1 DEF Queued
<1>3. /\ \A x : WillBeAnswered(x)' <=> (cur = x /\ wpc \in Unanswered)
      /\ \A x : NotYetRun(x)' => NotYetRun(x)
      /\ \A x : Unmarked(x)' <=> Unmarked(x)
  BY <1>1, <1>2 DEF WillBeAnswered, NotYetRun, Unmarked
<1>4. /\ \A x \in {"turn", "suspend"} :
           /\ x \notin Locked /\ x \notin Sends /\ x \notin BeforePost
           /\ x \notin Told /\ x \notin {"await", "unsignal"}
      /\ "await" \in Sends /\ "await" \in Locked
  BY DEF Locked, Sends, BeforePost, Told
<1>5. LockHeld' /\ Marked' /\ Unposted'
  BY <1>1, <1>4 DEF SendInv, LockHeld, Marked, Unposted
<1>6. Awaited'
  <2> SUFFICES ASSUME NEW x \in Msgs, isSend'[x], WillBeAnswered(x)'
               PROVE  \E d \in Clients : pc'[d] = "await" /\ mine'[d] = x
    BY DEF Awaited
  <2>1. isSend[x] /\ WillBeAnswered(x)
    BY <1>1, <1>3 DEF WillBeAnswered
  <2>2. PICK d \in Clients : pc[d] = "await" /\ mine[d] = x
    BY <2>1 DEF SendInv, Awaited
  <2> QED BY <1>1, <1>4, <2>2
<1>7. ASSUME NEW m \in Queued, isSend[m]
      PROVE  \E d \in Clients : pc[d] = "await" /\ mine[d] = m
  <2>1. m \in Msgs
    BY DEF Ownership, Queued
  <2> QED BY <1>7, <2>1 DEF SendInv, Awaited, WillBeAnswered
<1>8. AnswerReachesItsSender'
  <2> SUFFICES ASSUME NEW d \in Clients, pc'[d] = "await"
               PROVE  (done <=> ~WillBeAnswered(mine[d]))'
    BY DEF AnswerReachesItsSender
  <2>1. pc[d] = "await" /\ isSend[mine[d]] /\ d # c
    BY <1>1, <1>4 DEF SendInv, Marked
  <2>2. done <=> ~WillBeAnswered(mine[d])
    BY <2>1 DEF SendInv, AnswerReachesItsSender
  <2>3. CASE mine[d] \in Queued
    <3>1. mine[d] # cur
      BY <2>3 DEF Ownership
    <3> QED BY <1>1, <1>3, <2>1, <2>3, <3>1
  <2>4. CASE mine[d] \notin Queued
    <3>1. ~\E m \in Queued : isSend[m]
      <4> SUFFICES ASSUME NEW m \in Queued, isSend[m] PROVE FALSE
        OBVIOUS
      <4>1. PICK e \in Clients : pc[e] = "await" /\ mine[e] = m
        BY <1>7
      <4>2. e = d
        BY <1>4, <2>1, <4>1 DEF SendInv, LockHeld
      <4> QED BY <2>4, <4>1, <4>2
    <3> QED BY <1>1, <1>3, <2>2, <2>4, <3>1 DEF WillBeAnswered
  <2> QED BY <2>3, <2>4
<1>9. DoneIsTakenBack'
  <2>1. done' => \E d \in Clients : pc[d] \in {"await", "unsignal"}
    BY <1>1, <1>7 DEF SendInv, DoneIsTakenBack
  <2> QED BY <1>1, <1>4, <2>1 DEF DoneIsTakenBack
<1>10. Recorded' BY <1>1, <1>3, <1>4 DEF SendInv, Recorded
<1>11. Settled'
  BY <1>1, <1>3, <1>4 DEF SendInv, Settled, WillBeAnswered
<1> QED BY <1>5, <1>6, <1>8, <1>9, <1>10, <1>11 DEF SendInv

(* A step of the worker that finishes nothing keeps every promise.         *)
LEMMA SendStill ==
  ASSUME SendInv,
         UNCHANGED <<isSend, ran, result, done, sendLock, pc, mine, answer>>,
         \A x \in Msgs \cup {NoMsg} :
           /\ WillBeAnswered(x)' <=> WillBeAnswered(x)
           /\ NotYetRun(x)' <=> NotYetRun(x)
           /\ Unmarked(x)' <=> Unmarked(x),
         Shape
  PROVE  SendInv'
<1>1. \A c \in Clients : mine[c] \in Msgs \cup {NoMsg}
  BY DEF Shape
<1>2. LockHeld' /\ Marked' /\ Unposted'
  BY DEF SendInv, LockHeld, Marked, Unposted
<1>3. Awaited' BY DEF SendInv, Awaited
<1>4. AnswerReachesItsSender' BY <1>1 DEF SendInv, AnswerReachesItsSender
<1>5. DoneIsTakenBack' BY DEF SendInv, DoneIsTakenBack
<1>6. Recorded' BY <1>1 DEF SendInv, Recorded
<1>7. Settled' BY <1>1 DEF SendInv, Settled
<1> QED BY <1>2, <1>3, <1>4, <1>5, <1>6, <1>7 DEF SendInv

(* What the worker has in its hand is nobody's to post, and a sender that  *)
(* was told does not hold it any more.                                     *)
LEMMA SendInHand ==
  ASSUME Shape, Ownership, SendInv, cur # NoMsg
  PROVE  /\ cur \in Msgs /\ cur \notin Queued
         /\ \A c \in Clients : pc[c] \in BeforePost => mine[c] # cur
         /\ wpc \in Unanswered =>
              \A c \in Clients : pc[c] \in Told => mine[c] # cur
BY DEF Shape, Ownership, SendInv, Settled, WillBeAnswered

LEMMA SendWorker ==
  ASSUME Shape, Ownership, SendInv, WorkerStep
  PROVE  SendInv'
<1> USE DEF messageVars, queueVars, threadVars, exitVars, clientVars, WGoto
<1>1. CASE WTop \/ WWait \/ WTurn \/ WExited \/ WLeave \/ WLast
  <2>1. /\ UNCHANGED <<isSend, ran, result, done, sendLock, pc, mine, answer,
                       items, cur>>
        /\ wpc \notin Unanswered /\ wpc' \notin Unanswered
    BY <1>1 DEF WTop, WWait, WTurn, WExited, WLeave, WLast, Unanswered
  <2>2. \A x : /\ WillBeAnswered(x)' <=> WillBeAnswered(x)
               /\ NotYetRun(x)' <=> NotYetRun(x)
               /\ Unmarked(x)' <=> Unmarked(x)
    BY <2>1 DEF WillBeAnswered, NotYetRun, Unmarked, Queued, Unanswered
  <2> QED BY <2>1, <2>2, SendStill
<1>2. CASE WPop
  <2>1. /\ UNCHANGED <<isSend, ran, result, done, sendLock, pc, mine, answer>>
        /\ wpc = "pop" /\ cur = NoMsg
    BY <1>2 DEF WPop, PopFirst, PopNothing, Ownership, Holding, Unanswered
  <2>2. CASE PopFirst
    <3>1. wpc' = "run" /\ cur' = Head(items)
      BY <1>2, <2>2 DEF WPop, PopFirst, PopNothing
    <3>2. Queued' = Queued \ {Head(items)} /\ Head(items) \in Queued
      <4>1. /\ items \in Seq(Msgs) /\ items # <<>> /\ NoTwice(items)
            /\ items' = Tail(items)
        BY <2>2 DEF PopFirst, Ownership
      <4>2. Queued = Elems(items) /\ Queued' = Elems(Tail(items))
        BY <4>1 DEF Queued, Elems
      <4> QED BY <4>1, <4>2, ElemsTail
    <3>3. \A x : /\ WillBeAnswered(x)' <=> WillBeAnswered(x)
                 /\ NotYetRun(x)' <=> NotYetRun(x)
                 /\ Unmarked(x)' <=> Unmarked(x)
      BY <2>1, <3>1, <3>2 DEF WillBeAnswered, NotYetRun, Unmarked, Unanswered
    <3> QED BY <2>1, <3>3, SendStill
  <2>3. CASE PopNothing
    <3>1. UNCHANGED <<items, cur>> /\ wpc' = "turn"
      BY <1>2, <2>3 DEF WPop, PopFirst, PopNothing
    <3>2. \A x : /\ WillBeAnswered(x)' <=> WillBeAnswered(x)
                 /\ NotYetRun(x)' <=> NotYetRun(x)
                 /\ Unmarked(x)' <=> Unmarked(x)
      BY <2>1, <3>1 DEF WillBeAnswered, NotYetRun, Unmarked, Queued, Unanswered
    <3> QED BY <2>1, <3>2, SendStill
  <2> QED BY <1>2, <2>2, <2>3 DEF WPop
<1>3. CASE WRun
  <2>1. /\ UNCHANGED <<isSend, result, done, sendLock, pc, mine, answer,
                       items, cur>>
        /\ wpc = "run" /\ wpc' = "mark" /\ cur # NoMsg
    BY <1>3 DEF WRun, NoteRun, Ownership, Holding, Unanswered
  <2>2. /\ cur \in Msgs /\ cur \notin Queued
        /\ \A c \in Clients : pc[c] \in BeforePost \cup Told => mine[c] # cur
    BY <2>1, SendInHand DEF Unanswered
  <2>3. \A x \in Msgs : ran'[x] <=> x = cur \/ ran[x]
    BY <1>3, <2>2 DEF WRun, NoteRun, Shape
  <2>4. ASSUME NEW c \in Clients, pc[c] \in Making PROVE mine[c] \in Msgs
    BY <2>4 DEF Ownership, Shape
  <2>5. \A x : x \in BeforePost \cup Told \cup {"await"} => x \in Making
    BY DEF Sends, BeforePost, Told, Making, SendPC, PostPC, Locked
  <2>6. /\ \A x : WillBeAnswered(x)' <=> WillBeAnswered(x)
        /\ \A x : NotYetRun(x)' <=> NotYetRun(x) /\ x # cur
        /\ \A x : Unmarked(x)' <=> x = cur
        /\ NotYetRun(cur) /\ \A x : ~Unmarked(x)
    BY <2>1, <2>2 DEF WillBeAnswered, NotYetRun, Unmarked, Queued, Unanswered
  <2>7. LockHeld' /\ Marked' BY <2>1 DEF SendInv, LockHeld, Marked
  <2>8. Unposted' BY <2>1, <2>2, <2>3, <2>4, <2>5 DEF SendInv, Unposted
  <2>9. Awaited' BY <2>1, <2>6 DEF SendInv, Awaited
  <2>10. AnswerReachesItsSender' /\ DoneIsTakenBack'
    BY <2>1, <2>6 DEF SendInv, AnswerReachesItsSender, DoneIsTakenBack
  <2>11. Recorded' BY <2>1, <2>3, <2>4, <2>5, <2>6 DEF SendInv, Recorded
  <2>12. Settled' BY <2>1, <2>2, <2>3, <2>4, <2>5, <2>6 DEF SendInv, Settled
  <2> QED BY <2>7, <2>8, <2>9, <2>10, <2>11, <2>12 DEF SendInv
<1>4. CASE WMark
  <2>1. /\ UNCHANGED <<isSend, ran, done, sendLock, pc, mine, answer, items,
                       cur>>
        /\ wpc = "mark" /\ wpc' = "answer" /\ cur # NoMsg
    BY <1>4 DEF WMark, MarkResult, Ownership, Holding, Unanswered
  <2>2. cur \in Msgs /\ cur \notin Queued
    BY <2>1, SendInHand
  <2>3. \A x \in Msgs : result'[x] = IF x = cur THEN 1 ELSE result[x]
    BY <1>4, <2>2 DEF WMark, MarkResult, Shape
  <2>4. ASSUME NEW c \in Clients, pc[c] = "await" PROVE mine[c] \in Msgs
    BY <2>4, Stations DEF Ownership, Shape
  <2>5. /\ \A x : WillBeAnswered(x)' <=> WillBeAnswered(x)
        /\ \A x : NotYetRun(x)' <=> NotYetRun(x)
        /\ \A x : ~Unmarked(x)'
        /\ \A x : Unmarked(x) <=> x = cur
    BY <2>1, <2>2 DEF WillBeAnswered, NotYetRun, Unmarked, Queued, Unanswered
  <2>6. Recorded' BY <2>1, <2>3, <2>4, <2>5 DEF SendInv, Recorded
  <2>7. Awaited' BY <2>1, <2>5 DEF SendInv, Awaited
  <2>8. Settled' BY <2>1, <2>5 DEF SendInv, Settled
  <2>9. AnswerReachesItsSender' /\ DoneIsTakenBack'
    BY <2>1, <2>5 DEF SendInv, AnswerReachesItsSender, DoneIsTakenBack
  <2> QED BY <2>1, <2>6, <2>7, <2>8, <2>9
    DEF SendInv, LockHeld, Marked, Unposted
<1>5. CASE WAnswer
  <2>1. /\ UNCHANGED <<isSend, ran, result, sendLock, pc, mine, answer, items,
                       cur>>
        /\ wpc = "answer" /\ wpc' = "release" /\ cur # NoMsg
        /\ done' <=> (done \/ isSend[cur])
    BY <1>5 DEF WAnswer, SignalProcessed, Ownership, Holding, Unanswered
  <2>2. cur \in Msgs /\ cur \notin Queued
    BY <2>1, SendInHand
  <2>3. /\ \A x : WillBeAnswered(x)' <=> WillBeAnswered(x) /\ x # cur
        /\ WillBeAnswered(cur)
        /\ \A x : NotYetRun(x)' <=> NotYetRun(x)
        /\ \A x : ~Unmarked(x)' /\ ~Unmarked(x)
    BY <2>1, <2>2 DEF WillBeAnswered, NotYetRun, Unmarked, Queued, Unanswered
  <2>4. isSend[cur] => \E c \in Clients : pc[c] = "await" /\ mine[c] = cur
    BY <2>2, <2>3 DEF SendInv, Awaited
  <2>5. Awaited' BY <2>1, <2>3 DEF SendInv, Awaited
  <2>6. AnswerReachesItsSender'
    <3> SUFFICES ASSUME NEW c \in Clients, pc[c] = "await"
                 PROVE  done' <=> ~WillBeAnswered(mine[c])'
      BY <2>1 DEF AnswerReachesItsSender
    <3>1. done <=> ~WillBeAnswered(mine[c])
      BY DEF SendInv, AnswerReachesItsSender
    <3>2. isSend[mine[c]]
      BY DEF SendInv, Marked, Sends, Locked
    <3>3. CASE isSend[cur]
      <4>1. PICK d \in Clients : pc[d] = "await" /\ mine[d] = cur
        BY <2>4, <3>3
      <4>2. d = c
        BY <4>1 DEF SendInv, LockHeld, Locked
      <4> QED BY <2>1, <2>3, <3>3, <4>1, <4>2
    <3>4. CASE ~isSend[cur]
      BY <2>1, <2>3, <3>1, <3>2, <3>4
    <3> QED BY <3>3, <3>4
  <2>7. DoneIsTakenBack' BY <2>1, <2>4 DEF SendInv, DoneIsTakenBack
  <2>8. Recorded' BY <2>1, <2>3 DEF SendInv, Recorded
  <2>9. Settled' BY <2>1, <2>3 DEF SendInv, Settled
  <2> QED BY <2>1, <2>5, <2>6, <2>7, <2>8, <2>9
    DEF SendInv, LockHeld, Marked, Unposted
<1>6. CASE WRelease
  <2>1. /\ UNCHANGED <<isSend, ran, result, done, sendLock, pc, mine, answer,
                       items>>
        /\ wpc = "release" /\ wpc' = "turn"
    BY <1>6 DEF WRelease, Release, ReleaseAll
  <2>2. \A x : /\ WillBeAnswered(x)' <=> WillBeAnswered(x)
               /\ NotYetRun(x)' <=> NotYetRun(x)
               /\ Unmarked(x)' <=> Unmarked(x)
    BY <2>1 DEF WillBeAnswered, NotYetRun, Unmarked, Queued, Unanswered
  <2> QED BY <2>1, <2>2, SendStill
<1> QED BY <1>1, <1>2, <1>3, <1>4, <1>5, <1>6 DEF WorkerStep

(* The places, sorted by what a sender at them has been promised.          *)
LEMMA Promises ==
  /\ \A p \in {"gate", "check", "post", "lock", "drop", "idle", "stopgate",
               "stopcheck", "suspend", "turn", "quiet", "resumegate",
               "resumecheck", "resume", "endgate", "endclose", "endopen",
               "exitgate", "exitclose", "exitdone", "exitlet",
               "exitfinished", "exitopen", "over"} :
       p \notin Locked /\ p \notin Sends /\ p \notin Told
  /\ "letgo" \notin Locked /\ "letgo" \in Sends /\ "letgo" \in Told
  /\ "quitdrop" \notin Locked /\ "quitdrop" \notin Sends /\ "quitdrop" \in Told
BY DEF Locked, Sends, Told

LEMMA SendClient ==
  ASSUME NEW c \in Clients, Shape, Ownership, Ownership', SendInv,
         ClientStart(c) \/ ClientStep(c)
  PROVE  SendInv'
<1> USE DEF messageVars, queueVars, threadVars, exitVars, workerVars, Goto
<1> DEFINE Moves(p) ==
      /\ pc' = [pc EXCEPT ![c] = p]
      /\ UNCHANGED <<isSend, ran, result, items, done, sendLock, cur, wpc>>
      /\ \A d \in Clients : d # c => mine'[d] = mine[d] /\ answer'[d] = answer[d]
<1>1. ASSUME NEW m \in Msgs, Begin(c, m) PROVE SendInv'
  <2>1. pc[c] \notin Making
    BY <1>1, Stations DEF Begin
  <2> QED BY <1>1, <2>1, SendMake DEF Begin
<1>2. CASE Post(c)
  <2>1. CASE PostQueued(mine[c]) /\ answer' = [answer EXCEPT ![c] = "queued"]
    BY <1>2, <2>1, SendPosted, Stations DEF Post, PostMessage
  <2>2. ASSUME NEW a \in {"failed", "refused"},
               PostFailed(mine[c]) \/ PostRefused(mine[c]),
               answer' = [answer EXCEPT ![c] = a]
        PROVE  SendInv'
    <3>1. pc' = [pc EXCEPT ![c] = "drop"] /\ pc[c] = "post"
      BY <1>2 DEF Post, PostMessage
    <3>2. UNCHANGED <<sendLock, mine, cur, wpc>>
      BY <1>2 DEF Post, PostMessage
    <3> QED BY <2>2, <3>1, <3>2, SendUnposted
  <2> QED BY <1>2, <2>1, <2>2 DEF Post, PostMessage
<1>3. CASE SendPost(c)
  <2>1. CASE PostQueued(mine[c]) /\ answer' = [answer EXCEPT ![c] = "queued"]
    <3>1. pc' = [pc EXCEPT ![c] = "await"] /\ pc[c] = "sendpost"
      BY <1>3, <2>1 DEF SendPost, PostMessage, PostQueued, PostFailed,
                        PostRefused, Shape
    <3>2. UNCHANGED <<sendLock, mine, cur, wpc>>
      BY <1>3 DEF SendPost, PostMessage
    <3> QED BY <2>1, <3>1, <3>2, SendPosted, Stations
  <2>2. ASSUME NEW a \in {"failed", "refused"},
               PostFailed(mine[c]) \/ PostRefused(mine[c]),
               answer' = [answer EXCEPT ![c] = a],
               pc' = [pc EXCEPT ![c] = "unlock"]
        PROVE  SendInv'
    <3>1. pc[c] = "sendpost" /\ UNCHANGED <<sendLock, mine, cur, wpc>>
      BY <1>3 DEF SendPost, PostMessage
    <3> QED BY <2>2, <3>1, SendUnposted
  <2> QED BY <1>3, <2>1, <2>2 DEF SendPost, PostMessage
<1>4. CASE SendLock(c) BY <1>4, SendLocks
<1>5. CASE SendAwait(c) BY <1>5, SendWoken
<1>6. CASE SendUnsignal(c) \/ SendUnlock(c) BY <1>6, SendTakesBack
<1>7. CASE Suspend(c) BY <1>7, SendSuspended
<1>8. CASE SendRelease(c)
  <2>1. PICK p \in {"quitdrop", "drop"} : Moves(p)
    BY <1>8 DEF SendRelease, Release, ReleaseAll
  <2>2. pc[c] = "letgo" /\ mine' = mine /\ answer' = answer
    BY <1>8 DEF SendRelease
  <2> QED BY <2>1, <2>2, SendMove, Stations, Promises
<1>9. CASE Drop(c) \/ QuitDrop(c)
  <2>1. PICK p \in {"idle", "endopen"} : Moves(p)
    BY <1>9 DEF Drop, QuitDrop, Release, ReleaseAll, Shape
  <2>2. pc[c] \in {"drop", "quitdrop"}
    BY <1>9 DEF Drop, QuitDrop
  <2> QED BY <2>1, <2>2, SendMove, Stations, Promises
<1>10. CASE EndClose(c) /\ ~asked
  <2>1. PICK m \in Msgs : Make(m) /\ mine' = [mine EXCEPT ![c] = m]
    BY <1>10 DEF EndClose
  <2>2. pc[c] \notin Making /\ pc' = [pc EXCEPT ![c] = "lock"]
    BY <1>10, Stations DEF EndClose
  <2>3. UNCHANGED <<items, done, sendLock, cur, wpc, answer>>
    BY <1>10 DEF EndClose
  <2> QED BY <2>1, <2>2, <2>3, SendMake
<1>11. CASE Gate(c) \/ Check(c)
  <2>1. PICK p \in {"check", "post", "lock", "drop"} : Moves(p)
    BY <1>11 DEF Gate, PassGate, Check, Shape
  <2>2. pc[c] \in {"gate", "check"} /\ mine' = mine
    BY <1>11 DEF Gate, PassGate, Check
  <2> QED BY <2>1, <2>2, SendMove, Stations, Promises
<1>12. ASSUME BeginStop(c) \/ BeginEnd(c) \/ EndAgain(c)
              \/ (StopStep(c) /\ ~Suspend(c))
              \/ (EndStep(c) /\ ~QuitDrop(c) /\ (EndClose(c) => asked))
       PROVE  SendInv'
  <2> DEFINE Apart == {"idle", "stopgate", "stopcheck", "suspend", "turn",
                "quiet", "resumegate", "resumecheck", "resume", "endgate",
                "endclose", "endopen", "exitgate", "exitclose", "exitdone",
                "exitlet", "exitfinished", "exitopen", "over"}
  <2>1. PICK p \in Apart : Moves(p) /\ pc[c] \in Apart
    <3>1. CASE BeginStop(c) \/ BeginEnd(c) \/ EndAgain(c)
      BY <3>1 DEF BeginStop, BeginEnd, EndAgain
    <3>2. CASE StopStep(c) /\ ~Suspend(c)
      BY <3>2 DEF StopStep, StopGate, StopCheck, AwaitTurn, BeginResume,
                  ResumeGate, ResumeCheck, Resume, ResumeQueue, PassGate,
                  CheckTaking
    <3>3. CASE EndStep(c) /\ ~QuitDrop(c) /\ (EndClose(c) => asked)
      BY <3>3 DEF EndStep, EndGate, EndClose, EndNoMemory, EndOpen, ExitGate,
                  ExitClose, ExitDone, ExitLet, ExitFinished, ExitOpen,
                  PassGate, OpenGate
    <3> QED BY <1>12, <3>1, <3>2, <3>3
  <2>2. \A x \in Apart : /\ x \notin Making /\ x \notin BeforePost
                         /\ x \notin Sends /\ x \notin Locked /\ x \notin Told
                         /\ x \notin {"await", "unsignal", "sendpost"}
    BY Stations, Promises
  <2>3. Moves(p) /\ p \in Apart /\ pc[c] \in Apart
    BY <2>1
  <2> HIDE DEF Apart
  <2> QED BY <2>2, <2>3, SendMove
<1> QED
  BY <1>1, <1>2, <1>3, <1>4, <1>5, <1>6, <1>7, <1>8, <1>9, <1>10, <1>11, <1>12
  DEF ClientStart, ClientStep, SendStep, StopStep, EndStep

(* Every step keeps every promise.                                         *)
LEMMA SendNext ==
  Shape /\ Ownership /\ Ownership' /\ SendInv /\ [Next]_vars => SendInv'
<1>1. ASSUME Shape, SendInv, UNCHANGED vars PROVE SendInv'
  <2>1. UNCHANGED <<isSend, ran, result, done, sendLock, pc, mine, answer,
                    items, cur, wpc>>
    BY <1>1 DEF vars, messageVars, queueVars, threadVars, clientVars,
                workerVars
  <2>2. \A x : /\ WillBeAnswered(x)' <=> WillBeAnswered(x)
               /\ NotYetRun(x)' <=> NotYetRun(x)
               /\ Unmarked(x)' <=> Unmarked(x)
    BY <2>1 DEF WillBeAnswered, NotYetRun, Unmarked, Queued
  <2> QED BY <1>1, <2>1, <2>2, SendStill
<1> QED BY <1>1, SendWorker, SendClient DEF Next

LEMMA SendCorrect == Spec => []SendInv
BY ShapeCorrect, OwnershipCorrect, SendInit, SendNext, PTL DEF Spec

-----------------------------------------------------------------------------
(* No answer is taken by the wrong sender and none is lost, though there   *)
(* is one event for all of them (q_sendMessage, mq_signalProcessed,        *)
(* q_clearMessages).                                                       *)
THEOREM AnswersArrive == Spec => []AnswerReachesItsSender
<1>1. SendInv => AnswerReachesItsSender
  BY DEF SendInv
<1> QED BY <1>1, SendCorrect, PTL

(* The next sender always starts with the event down.                      *)
THEOREM DoneTakenBack == Spec => []DoneIsTakenBack
<1>1. SendInv => DoneIsTakenBack
  BY DEF SendInv
<1> QED BY <1>1, SendCorrect, PTL

(* A send says that a message was run exactly when it was.                 *)
THEOREM SendsAnswerTruly == Spec => []SendAnswersTruly
<1>1. SendInv => SendAnswersTruly
  BY DEF SendInv, Settled, Told, SendAnswersTruly
<1> QED BY <1>1, SendCorrect, PTL

-----------------------------------------------------------------------------
(* The end of the thread (th_waitForExit against th_execute), for any set  *)
(* of clients and any number of messages.                                  *)

(* Where the one that ends the thread can be, but for its own send; and    *)
(* where the end has come back.                                            *)
Ending == {"endgate", "endclose", "quitdrop", "endopen", "exitgate",
           "exitclose", "exitdone", "exitlet", "exitfinished", "exitopen",
           "over"}
Ended == {"exitopen", "over"}
Released == {"exitlet", "exitfinished"}

(* Only one client ends the thread, and only its messages are quit         *)
(* messages.                                                               *)
OneEnder ==
  \A c \in Clients :
    /\ pc[c] \in Ending => "end" \in MayDo[c]
    /\ mine[c] # NoMsg /\ quit[mine[c]] => "end" \in MayDo[c]

(* The three semaphores are passed back and forth: each is up for as long  *)
(* as the other side has not taken it, and says where both sides are.      *)
Handshake ==
  /\ status = "finished" <=> wpc \in {"last", "gone"}
  /\ thDone => wpc = "leave" /\ \A c \in Clients : pc[c] \notin Released
  /\ mayFinish => wpc = "leave" /\ \E c \in Clients : pc[c] = "exitfinished"
  /\ finished => wpc = "gone"
  /\ wpc = "last" => \E c \in Clients : pc[c] = "exitfinished"
  /\ \A c \in Clients : pc[c] = "exitlet" => wpc = "leave" /\ ~mayFinish
  /\ \A c \in Clients : pc[c] = "exitfinished" =>
       \/ wpc = "leave" /\ mayFinish
       \/ wpc = "last"
       \/ wpc = "gone" /\ finished

(* Once the end has come back having asked, the worker is gone.            *)
GoneWhenEnded ==
  \A c \in Clients : pc[c] \in Ended /\ asked => wpc = "gone"

EndInv == OneEnder /\ Handshake /\ GoneWhenEnded

LEMMA EndInit == Init => EndInv
BY DEF Init, EndInv, OneEnder, Handshake, GoneWhenEnded, Ending, Ended,
       Released

LEMMA OneAtTheEnd ==
  ASSUME OneEnder, NEW c \in Clients, NEW d \in Clients,
         pc[c] \in Ending, pc[d] \in Ending
  PROVE  c = d
BY ClientAssumption DEF OneEnder, ClientAssumption

(* A client that is not at the handshake leaves it as it is.               *)
LEMMA EndMove ==
  ASSUME NEW c \in Clients, NEW p, Shape, EndInv,
         pc' = [pc EXCEPT ![c] = p],
         UNCHANGED <<quit, asked, status, thDone, mayFinish, finished, wpc>>,
         \A d \in Clients : d # c => mine'[d] = mine[d],
         mine'[c] = mine[c] \/ mine'[c] = NoMsg,
         p \in Ending => "end" \in MayDo[c],
         p \notin Released,
         p \in Ended => pc[c] \in Ended,
         pc[c] \notin Released
  PROVE  EndInv'
<1>1. \A d \in Clients : pc'[d] = IF d = c THEN p ELSE pc[d]
  BY DEF Shape
<1>2. OneEnder' BY <1>1 DEF EndInv, OneEnder
<1>3. Handshake' BY <1>1 DEF EndInv, Handshake, Released
<1>4. GoneWhenEnded' BY <1>1 DEF EndInv, GoneWhenEnded
<1> QED BY <1>2, <1>3, <1>4 DEF EndInv

(* A new message is a quit message only if the one that ends makes it.     *)
LEMMA EndMake ==
  ASSUME NEW c \in Clients, NEW m \in Msgs, NEW p, NEW q \in BOOLEAN,
         Shape, Ownership', EndInv,
         pc' = [pc EXCEPT ![c] = p], mine' = [mine EXCEPT ![c] = m],
         quit' = [quit EXCEPT ![m] = q],
         UNCHANGED <<asked, status, thDone, mayFinish, finished, wpc>>,
         q => "end" \in MayDo[c],
         p \notin Ending,
         pc[c] \notin Released
  PROVE  EndInv'
<1>1. /\ \A d \in Clients : pc'[d] = IF d = c THEN p ELSE pc[d]
      /\ \A d \in Clients : mine'[d] = IF d = c THEN m ELSE mine[d]
      /\ \A x \in Msgs : quit'[x] = IF x = m THEN q ELSE quit[x]
  BY DEF Shape
<1>2. ASSUME NEW d \in Clients, d # c, mine[d] # NoMsg
      PROVE  mine[d] \in Msgs /\ mine[d] # m
  BY <1>1, <1>2, NoMsgAssumption DEF Ownership, Shape
<1>3. OneEnder' BY <1>1, <1>2 DEF EndInv, OneEnder
<1>4. p \notin Released /\ p \notin Ended
  BY DEF Ending, Released, Ended
<1>5. Handshake' BY <1>1, <1>4 DEF EndInv, Handshake, Released
<1>6. GoneWhenEnded' BY <1>1, <1>4 DEF EndInv, GoneWhenEnded
<1> QED BY <1>3, <1>5, <1>6 DEF EndInv

(* What the quit message was told is taken note of by the only one that    *)
(* could have come back from an end.                                       *)
LEMMA EndQuit ==
  ASSUME NEW c \in Clients, Shape, EndInv, QuitDrop(c)
  PROVE  EndInv'
<1>1. /\ \A d \in Clients : pc'[d] = IF d = c THEN "endopen" ELSE pc[d]
      /\ \A d \in Clients : mine'[d] = IF d = c THEN NoMsg ELSE mine[d]
      /\ pc[c] = "quitdrop"
      /\ UNCHANGED <<quit, status, thDone, mayFinish, finished, wpc>>
  BY DEF QuitDrop, Goto, Shape, exitVars, workerVars
<1>2. /\ "quitdrop" \in Ending /\ "endopen" \notin Released
      /\ "endopen" \notin Ended
  BY DEF Ending, Released, Ended
<1>3. OneEnder' BY <1>1, <1>2 DEF EndInv, OneEnder
<1>4. Handshake' BY <1>1, <1>2 DEF EndInv, Handshake, Released
<1>5. \A d \in Clients : pc[d] \in Ended => d = c
  BY <1>1, <1>2, OneAtTheEnd DEF EndInv, Ended, Ending
<1>6. GoneWhenEnded'
  <2>1. \A d \in Clients : pc'[d] \notin Ended
    BY <1>1, <1>2, <1>5
  <2> QED BY <2>1 DEF GoneWhenEnded
<1> QED BY <1>3, <1>4, <1>6 DEF EndInv

(* The end looks at a thread that is running, or already gone: it never    *)
(* finds one half way out, for only itself could have let it go.           *)
LEMMA EndLooks ==
  ASSUME NEW c \in Clients, Shape, EndInv, ExitClose(c)
  PROVE  EndInv'
<1>1. PICK p \in {"exitdone", "exitopen"} :
        /\ \A d \in Clients : pc'[d] = IF d = c THEN p ELSE pc[d]
        /\ p = "exitopen" => ~(asked /\ status = "running")
  BY DEF ExitClose, Goto, Shape
<1>2. /\ pc[c] = "exitclose"
      /\ UNCHANGED <<mine, quit, asked, status, thDone, mayFinish, finished, wpc>>
  BY DEF ExitClose, exitVars, workerVars
<1>3. \A d \in Clients : pc[d] \notin Released
  BY <1>2, OneAtTheEnd DEF EndInv, Released, Ending
<1>4. OneEnder' BY <1>1, <1>2 DEF EndInv, OneEnder, Ending
<1>5. Handshake' BY <1>1, <1>2, <1>3 DEF EndInv, Handshake, Released
<1>6. GoneWhenEnded'
  <2>1. p = "exitopen" /\ asked => wpc = "gone"
    BY <1>1, <1>3 DEF EndInv, Handshake, Released, Shape
  <2> QED BY <1>1, <1>2, <2>1 DEF EndInv, GoneWhenEnded, Ended
<1> QED BY <1>4, <1>5, <1>6 DEF EndInv

(* The steps of the handshake on the side of the one that waits.           *)
LEMMA EndWaits ==
  ASSUME NEW c \in Clients, Shape, EndInv,
         ExitDone(c) \/ ExitLet(c) \/ ExitFinished(c)
  PROVE  EndInv'
<1> USE DEF Goto, Released, exitVars, threadVars, workerVars
<1>1. UNCHANGED <<mine, quit, asked, status, wpc>>
  BY DEF ExitDone, ExitLet, ExitFinished
<1>2. CASE ExitDone(c)
  <2>1. \A d \in Clients : pc'[d] = IF d = c THEN "exitlet" ELSE pc[d]
    BY <1>2 DEF ExitDone, Shape
  <2>2. thDone /\ ~thDone' /\ UNCHANGED <<mayFinish, finished>> /\ pc[c] = "exitdone"
    BY <1>2 DEF ExitDone
  <2> QED BY <1>1, <2>1, <2>2
    DEF EndInv, OneEnder, Handshake, GoneWhenEnded, Ended, Ending
<1>3. CASE ExitLet(c)
  <2>1. \A d \in Clients : pc'[d] = IF d = c THEN "exitfinished" ELSE pc[d]
    BY <1>3 DEF ExitLet, Shape
  <2>2. mayFinish' /\ UNCHANGED <<thDone, finished>> /\ pc[c] = "exitlet"
    BY <1>3 DEF ExitLet
  <2>3. \A d \in Clients : d # c => pc[d] \notin Released
    BY <2>2, OneAtTheEnd DEF EndInv, Ending
  <2> QED BY <1>1, <2>1, <2>2, <2>3
    DEF EndInv, OneEnder, Handshake, GoneWhenEnded, Ended, Ending
<1>4. CASE ExitFinished(c)
  <2>1. \A d \in Clients : pc'[d] = IF d = c THEN "exitopen" ELSE pc[d]
    BY <1>4 DEF ExitFinished, Shape
  <2>2. /\ finished /\ ~finished' /\ UNCHANGED <<thDone, mayFinish>>
        /\ pc[c] = "exitfinished"
    BY <1>4 DEF ExitFinished
  <2>3. \A d \in Clients : d # c => pc[d] \notin Released
    BY <2>2, OneAtTheEnd DEF EndInv, Ending
  <2> QED BY <1>1, <2>1, <2>2, <2>3
    DEF EndInv, OneEnder, Handshake, GoneWhenEnded, Ended, Ending
<1> QED BY <1>2, <1>3, <1>4

(* The worker's side of it.                                                *)
LEMMA EndWorker ==
  ASSUME Shape, EndInv, WorkerStep
  PROVE  EndInv'
<1> USE DEF messageVars, queueVars, threadVars, exitVars, clientVars, WGoto
<1>1. UNCHANGED <<pc, mine, quit, asked>>
  BY DEF WorkerStep, WTop, WWait, WPop, WRun, WMark, WAnswer, WRelease, WTurn,
         WExited, WLeave, WLast
<1>2. OneEnder' BY <1>1 DEF EndInv, OneEnder
<1>3. CASE ~WExited /\ ~WLeave /\ ~WLast
  <2>1. /\ UNCHANGED <<status, thDone, mayFinish, finished>>
        /\ wpc \notin {"leave", "last", "gone"}
        /\ wpc' \notin {"leave", "last", "gone"}
    BY <1>3 DEF WorkerStep, WTop, WWait, WPop, WRun, WMark, WAnswer, WRelease,
                WTurn
  <2> QED BY <1>1, <1>2, <2>1 DEF EndInv, Handshake, GoneWhenEnded, Released
<1>4. CASE WExited
  BY <1>1, <1>2, <1>4
  DEF WExited, EndInv, Handshake, GoneWhenEnded, Released
<1>5. CASE WLeave
  BY <1>1, <1>2, <1>5
  DEF WLeave, EndInv, Handshake, GoneWhenEnded, Released
<1>6. CASE WLast
  BY <1>1, <1>2, <1>6
  DEF WLast, EndInv, Handshake, GoneWhenEnded, Released
<1> QED BY <1>3, <1>4, <1>5, <1>6

LEMMA EndClient ==
  ASSUME NEW c \in Clients, Shape, Ownership, Ownership', EndInv,
         ClientStart(c) \/ ClientStep(c)
  PROVE  EndInv'
<1> USE DEF messageVars, queueVars, threadVars, exitVars, workerVars, Goto
<1> DEFINE Moves(p) ==
      /\ pc' = [pc EXCEPT ![c] = p]
      /\ UNCHANGED <<quit, asked, status, thDone, mayFinish, finished, wpc>>
      /\ \A d \in Clients : d # c => mine'[d] = mine[d]
      /\ mine'[c] = mine[c] \/ mine'[c] = NoMsg
<1> DEFINE Apart == {"gate", "check", "post", "drop", "lock", "sendpost",
                     "await", "unsignal", "unlock", "letgo", "idle",
                     "stopgate", "stopcheck", "suspend", "turn", "quiet",
                     "resumegate", "resumecheck", "resume"}
<1>a. \A x \in Apart : x \notin Ending /\ x \notin Ended /\ x \notin Released
  BY DEF Ending, Ended, Released
<1>1. ASSUME NEW m \in Msgs, Begin(c, m) PROVE EndInv'
  BY <1>1, <1>a, EndMake DEF Begin
<1>2. CASE QuitDrop(c) BY <1>2, EndQuit
<1>3. CASE ExitClose(c) BY <1>3, EndLooks
<1>4. CASE ExitDone(c) \/ ExitLet(c) \/ ExitFinished(c) BY <1>4, EndWaits
<1>5. CASE EndClose(c) /\ ~asked
  <2>1. PICK m \in Msgs : /\ quit' = [quit EXCEPT ![m] = TRUE]
                          /\ mine' = [mine EXCEPT ![c] = m]
    BY <1>5 DEF EndClose
  <2>2. /\ pc[c] = "endclose" /\ pc' = [pc EXCEPT ![c] = "lock"]
        /\ UNCHANGED <<asked, status, thDone, mayFinish, finished, wpc>>
    BY <1>5 DEF EndClose
  <2>3. "end" \in MayDo[c] /\ pc[c] \notin Released /\ "lock" \notin Ending
    BY <2>2 DEF EndInv, OneEnder, Ending, Released
  <2> QED BY <2>1, <2>2, <2>3, EndMake
<1>6. CASE SendRelease(c)
  <2>1. pc[c] = "letgo" /\ UNCHANGED <<quit, asked, status, thDone, mayFinish,
                                       finished, wpc, mine>>
    BY <1>6 DEF SendRelease
  <2>2. mine[c] # NoMsg
    BY <2>1, Stations DEF Ownership
  <2>3. PICK p \in {"quitdrop", "drop"} : /\ pc' = [pc EXCEPT ![c] = p]
                                          /\ p = "quitdrop" => quit[mine[c]]
    BY <1>6 DEF SendRelease
  <2>4. p \in Ending => "end" \in MayDo[c]
    BY <1>a, <2>2, <2>3 DEF EndInv, OneEnder
  <2>5. p \notin Released /\ p \notin Ended /\ pc[c] \notin Released
    BY <2>1, <2>3 DEF Released, Ended
  <2> QED BY <2>1, <2>3, <2>4, <2>5, EndMove
<1>7. ASSUME BeginStop(c) \/ StopStep(c) \/ Gate(c) \/ Check(c) \/ Post(c)
             \/ Drop(c) \/ (SendStep(c) /\ ~SendRelease(c))
      PROVE  EndInv'
  <2>1. PICK p \in Apart : Moves(p) /\ pc[c] \in Apart
    <3>1. CASE BeginStop(c) \/ StopStep(c)
      BY <3>1 DEF BeginStop, StopStep, StopGate, StopCheck, AwaitTurn,
                  BeginResume, ResumeGate, ResumeCheck, Resume, Suspend,
                  PassGate, CheckTaking
    <3>2. CASE Gate(c) \/ Check(c) \/ Post(c) \/ Drop(c)
      BY <3>2 DEF Gate, PassGate, Check, Post, PostMessage, Drop, Shape
    <3>3. CASE SendStep(c) /\ ~SendRelease(c)
      BY <3>3 DEF SendStep, SendLock, SendPost, PostMessage, SendAwait,
                  SendUnsignal, SendUnlock
    <3> QED BY <1>7, <3>1, <3>2, <3>3
  <2>2. Moves(p) /\ p \in Apart /\ pc[c] \in Apart
    BY <2>1
  <2> HIDE DEF Apart
  <2> QED BY <1>a, <2>2, EndMove
<1>8. CASE BeginEnd(c)
  BY <1>8, EndMove DEF BeginEnd, Ending, Ended, Released
<1>9. ASSUME EndAgain(c) \/ EndGate(c) \/ (EndClose(c) /\ asked)
             \/ EndNoMemory(c) \/ EndOpen(c) \/ ExitGate(c) \/ ExitOpen(c)
      PROVE  EndInv'
  <2>1. PICK p \in {"endgate", "endclose", "endopen", "exitgate", "exitclose",
                    "over"} :
          /\ pc' = [pc EXCEPT ![c] = p]
          /\ UNCHANGED <<mine, quit, asked, status, thDone, mayFinish,
                         finished, wpc>>
          /\ pc[c] \in Ending \ Released
          /\ p = "over" => pc[c] = "exitopen"
    BY <1>9 DEF EndAgain, EndGate, EndClose, EndNoMemory, EndOpen, ExitGate,
                ExitOpen, PassGate, OpenGate, Ending, Released
  <2>2. "end" \in MayDo[c]
    BY <2>1 DEF EndInv, OneEnder
  <2>3. p \notin Released /\ (p \in Ended => pc[c] \in Ended)
    BY <2>1 DEF Released, Ended
  <2> QED BY <2>1, <2>2, <2>3, EndMove
<1> QED
  BY <1>1, <1>2, <1>3, <1>4, <1>5, <1>6, <1>7, <1>8, <1>9
  DEF ClientStart, ClientStep, EndStep

LEMMA EndNext ==
  Shape /\ Ownership /\ Ownership' /\ EndInv /\ [Next]_vars => EndInv'
<1>1. ASSUME EndInv, UNCHANGED vars PROVE EndInv'
  BY <1>1 DEF vars, threadVars, exitVars, clientVars, workerVars, EndInv,
              OneEnder, Handshake, GoneWhenEnded
<1> QED BY <1>1, EndWorker, EndClient DEF Next

-----------------------------------------------------------------------------
(* When the end comes back having asked, the thread is gone, the first     *)
(* time and every time after (qt_terminate, qt_waitForExit, th_execute).   *)
THEOREM EndsGone == Spec => []EndMeansGone
<1>1. EndInv => EndMeansGone
  BY DEF EndInv, GoneWhenEnded, Ended, EndMeansGone
<1> QED BY <1>1, ShapeCorrect, OwnershipCorrect, EndInit, EndNext, PTL DEF Spec
=============================================================================
