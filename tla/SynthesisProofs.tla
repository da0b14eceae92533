--------------------------- MODULE SynthesisProofs ---------------------------
(***************************************************************************)
(* What holds of speaking for any callers, rights, lengths and bounds.     *)
(***************************************************************************)
EXTENDS Synthesis, WellFoundedInduction, TLAPS

(* A callback that puts things off is given them back by polls, which may  *)
(* then not be made, or overtaken by a stop, from two threads.             *)
OneCaller == \A c, d \in Callers : c = d
NothingPutOff == "again" \notin Answers
PutOffByOne == OneCaller \/ NothingPutOff

(* What is on the queue: a block, or something with a number.              *)
Numbered == [kind : Queueing, units : Nat, n : 1..MaxPosted]
Queued == Numbered \cup {BlockMessage}

Committing == {"read", "commit"}
InQueueing == Committing \cup ManualPC

-----------------------------------------------------------------------------
(* Types, and who may be where.                                            *)

Scalars ==
  /\ len \in Nat /\ read \in Int /\ found \in Int /\ pending \in Int
  /\ posted \in 0..MaxPosted /\ seen \in 0..MaxPosted
  /\ doing \in [Callers -> Calls]
  /\ wanted \in {"text", "synth", "none"}
  /\ blocker \in Int
  /\ last \in Queueing

Flags ==
  /\ asking \in BOOLEAN /\ synthesizing \in BOOLEAN /\ closed \in BOOLEAN
  /\ stopping \in BOOLEAN /\ busy \in BOOLEAN
  /\ gate \in BOOLEAN /\ loose \in BOOLEAN

Elements == [kind : {"text", "mark"}, units : Nat]

Queues ==
  /\ inbox \in Seq(Queued)
  /\ engine \in Seq(Item) /\ items \in Seq(Item)
  /\ manual \in Seq(Elements)
  /\ due \in Seq(1..MaxPosted) /\ heard \in Seq(1..MaxPosted)

(* What the thread runs is what the place it is at is for.                 *)
Running ==
  /\ tpc \in ThreadPC
  /\ run \in Queued \cup {Nothing}
  /\ tpc = "idle" <=> run = Nothing
  /\ tpc \in {"block", "held"} => run = BlockMessage
  /\ tpc \in {"filter", "adjust", "speak"} => run \in Numbered /\ run.kind = "text"
  /\ tpc = "enter" => run \in Numbered /\ run.kind \in {"text", "mark"}
  /\ tpc = "count" => run \in Numbered /\ run.kind \in {"text", "mark", "change"}
  /\ tpc = "flush" => run \in Numbered /\ run.kind \in {"change", "synth"}
  /\ tpc \in {"wind", "close", "remain", "tell"} =>
       run \in Numbered /\ run.kind = "synth"

(* One caller at a time is in a call that queues, and no other is in any;  *)
(* it has the lock and a slot between a post and its commit.               *)
Sending ==
  /\ pc \in [Callers -> CallerPC]
  /\ lock \in Callers \cup {Nobody}
  /\ claimed \in Numbered \cup {Nothing}
  /\ \A c \in Callers : pc[c] \in Committing <=> lock = c
  /\ lock = Nobody <=> claimed = Nothing
  /\ claimed # Nothing => claimed.n = posted + 1
  /\ \A c, d \in Callers :
       pc[c] \in InQueueing /\ c # d => pc[d] = "idle"
  /\ wanted # "none" => \E c \in Callers : pc[c] \in InQueueing
  /\ \A c \in Callers : pc[c] \in {"manual", "post"} => wanted # "none"
  /\ \A c \in Callers : pc[c] \in {"unblock", "post"} => manual = <<>>

(* There is a slot for what is kept back, and for what reads it out.       *)
Fits ==
  posted + Len(manual)
    + (IF manual # <<>> \/ wanted # "none" THEN 1 ELSE 0)
    + (IF claimed # Nothing THEN 1 ELSE 0) <= MaxPosted

(* An item is in a caller's hand while it is being collected or heard, and *)
(* what was put off is there for the poll that went for it.                *)
Holding ==
  /\ hand \in [Callers -> Item \cup {Nothing}]
  /\ held \in Item \cup {Nothing}
  /\ \A c \in Callers :
       /\ pc[c] = "call" => hand[c] \in Item /\ hand[c].what # "count"
       /\ pc[c] = "collect" => hand[c] \in Item /\ hand[c].what = "count"
       /\ pc[c] \notin {"call", "collect"} => hand[c] = Nothing
       /\ pc[c] = "recall" => held # Nothing
  /\ held # Nothing => held.what # "count" /\ ~NothingPutOff

Shape == Scalars /\ Flags /\ Queues /\ Running /\ Sending /\ Fits /\ Holding

-----------------------------------------------------------------------------
(* What a queue is after a step of it.                                     *)
LEMMA Behind ==
  ASSUME NEW S, NEW q \in Seq(S), NEW a \in S
  PROVE  /\ Append(q, a) \in Seq(S)
         /\ Len(q) \in Nat
         /\ Len(Append(q, a)) = Len(q) + 1
         /\ \A i \in 1..Len(q) : Append(q, a)[i] = q[i]
         /\ Append(q, a)[Len(q) + 1] = a
         /\ Append(q, a) # <<>>
  OBVIOUS

LEMMA InFront ==
  ASSUME NEW S, NEW q \in Seq(S), q # <<>>
  PROVE  /\ Head(q) \in S /\ Head(q) = q[1]
         /\ Tail(q) \in Seq(S)
         /\ Len(q) \in Nat /\ Len(q) >= 1
         /\ Len(Tail(q)) = Len(q) - 1
         /\ \A i \in 1..Len(q) - 1 : Tail(q)[i] = q[i + 1]
  OBVIOUS

LEMMA Empty ==
  ASSUME NEW S
  PROVE  /\ <<>> \in Seq(S) /\ Len(<<>>) = 0
         /\ \A q \in Seq(S) : Len(q) = 0 <=> q = <<>>
  OBVIOUS

LEMMA MaybeEmptied ==
  ASSUME NEW S, NEW q \in Seq(S), NEW r \in {q, <<>>}
  PROVE  /\ q \in Seq(S) /\ r \in Seq(S)
         /\ Len(q) \in Nat /\ Len(r) \in Nat
         /\ r # <<>> => Len(r) = Len(q) /\ q # <<>>
         /\ Len(<<>>) = 0
<1>1. Len(q) \in Nat /\ <<>> \in Seq(S) /\ Len(<<>>) = 0
  OBVIOUS
<1>2. CASE r = q
  BY <1>1, <1>2
<1>3. CASE r = <<>>
  BY <1>1, <1>3
<1> QED
  BY <1>2, <1>3

LEMMA BlockHasNoNumber ==
  /\ BlockMessage \notin Numbered
  /\ BlockMessage.kind = "block" /\ BlockMessage.units = 0
  /\ BlockMessage.n = 0
  /\ \A m \in Numbered : m.kind # "block" /\ m.kind \in Queueing
                         /\ m.units \in Nat /\ m.n \in 1..MaxPosted
  BY DEF BlockMessage, Numbered, Queueing

LEMMA NothingIsNothing ==
  /\ Queued \subseteq Message
  /\ Nothing \notin Queued /\ Nothing \notin Item
<1>1. Numbered \subseteq Message
  <2>1. 1..MaxPosted \subseteq 0..MaxPosted /\ Queueing \subseteq Queueing \cup {"block"}
    BY BoundAssumption
  <2> QED
    BY <2>1 DEF Numbered, Message
<1>2. BlockMessage \in Message
  BY BoundAssumption DEF BlockMessage, Message
<1> QED
  BY <1>1, <1>2, NothingAssumption DEF Queued

LEMMA ShapeIsTyped == Shape => TypeOK
<1> SUFFICES ASSUME Shape PROVE TypeOK
  OBVIOUS
<1>1. inbox \in Seq(Message)
  <2>1. inbox \in Seq(Queued)
    BY DEF Shape, Queues
  <2> QED
    BY <2>1, NothingIsNothing
<1>2. run \in Message \cup {Nothing} /\ claimed \in Message \cup {Nothing}
  BY NothingIsNothing DEF Shape, Running, Sending, Queued
<1> QED
  BY <1>1, <1>2 DEF Shape, Scalars, Flags, Queues, Elements, Running, Sending, Holding, TypeOK

LEMMA ShapeInit == Init => Shape
<1> SUFFICES ASSUME Init PROVE Shape
  OBVIOUS
<1>1. Scalars
  BY BoundAssumption DEF Init, Scalars, Calls, Queueing
<1>2. Queues
  BY DEF Init, Queues
<1>3. Running
  BY DEF Init, Running, ThreadPC
<1>4. Sending
  BY CallerAssumption DEF Init, Sending, CallerPC, Committing, InQueueing, ManualPC
<1>5. Fits
  BY BoundAssumption DEF Init, Fits
<1>6. Holding
  BY DEF Init, Holding
<1>7. Flags
  BY DEF Init, Flags
<1> QED
  BY <1>1, <1>2, <1>3, <1>4, <1>5, <1>6, <1>7 DEF Shape

-----------------------------------------------------------------------------
(* The thread's own steps.                                                 *)

(* They are none of the callers' business.                                 *)
LEMMA ThreadLeaves ==
  ASSUME ThreadStep
  PROVE  UNCHANGED <<callVars, lock, claimed, found, synthesizing, posted,
                     seen, held, stopping, closed, manual, wanted, loose,
                     historyVars>>
<1> USE DEF manualVars, semaphoreVars, countVars, appVars, callVars, historyVars,
            TGoto, Done
<1>1. CASE TTake
  BY <1>1 DEF TTake
<1>2. CASE TBlock \/ TLetGo
  BY <1>2 DEF TBlock, TLetGo
<1>3. CASE TFilter \/ TAdjust \/ TEnter
  BY <1>3 DEF TFilter, TAdjust, TEnter
<1>4. CASE TSendSamples \/ TPostMark
  BY <1>4 DEF TSendSamples, TPostMark, Say
<1>5. CASE TSpoken \/ TFlushed \/ TCount
  BY <1>5 DEF TSpoken, TFlushed, TCount
<1>6. CASE TWind \/ TClose \/ TRemained \/ TTell
  BY <1>6 DEF TWind, TClose, TRemained, TTell
<1> QED
  BY <1>1, <1>2, <1>3, <1>4, <1>5, <1>6 DEF ThreadStep

(* What it takes it has, and goes where that is run.                       *)
LEMMA TTakeKeeps ==
  ASSUME Shape, TTake
  PROVE  Scalars' /\ Flags' /\ Queues' /\ Running'
<1>1. /\ inbox \in Seq(Queued) /\ inbox # <<>>
      /\ run' = Head(inbox) /\ inbox' = Tail(inbox)
  BY DEF Shape, Queues, TTake
<1>2. run' \in Queued /\ inbox' \in Seq(Queued)
  BY <1>1, InFront
<1>3. UNCHANGED <<manualVars, len, read, engine, asking, countVars, appVars,
                  callVars, historyVars>>
  BY DEF TTake
<1> USE DEF manualVars, semaphoreVars, countVars, appVars, callVars, historyVars
<1>4. Scalars'
  BY <1>3 DEF Shape, Scalars
<1>5. Flags'
  BY <1>3 DEF Shape, Flags
<1>6. Queues'
  BY <1>2, <1>3 DEF Shape, Queues
<1>7. Running'
  <2>1. run' # Nothing
    BY <1>2, NothingIsNothing
  <2>2. run'.kind # "block" => run' \in Numbered
    BY <1>2, BlockHasNoNumber DEF Queued
  <2>3. run'.kind = "block" => run' = BlockMessage
    BY <1>2, BlockHasNoNumber DEF Queued
  <2> QED
    BY <1>2, <2>1, <2>2, <2>3 DEF TTake, TGoto, Running, ThreadPC
<1> QED
  BY <1>4, <1>5, <1>6, <1>7

(* Being held, and let go.                                                 *)
LEMMA TBlockKeeps ==
  ASSUME Shape, TBlock \/ TLetGo
  PROVE  Scalars' /\ Flags' /\ Queues' /\ Running'
<1>1. UNCHANGED <<inbox, read, engine, asking, countVars, appVars, callVars,
                  historyVars, manual, wanted, loose>>
  BY DEF TBlock, TLetGo
<1> USE DEF countVars, appVars, callVars, historyVars
<1>2. len' \in Nat /\ blocker' \in Int
  BY DEF TBlock, TLetGo, Done, Shape, Scalars
<1>3. Scalars'
  BY <1>1, <1>2 DEF Shape, Scalars
<1>4. Flags'
  <2>1. gate' \in BOOLEAN
    BY DEF TBlock, TLetGo, Shape, Flags
  <2> QED
    BY <1>1, <2>1 DEF Shape, Flags
<1>5. Queues'
  BY <1>1 DEF Shape, Queues
<1>6. Running'
  BY DEF TBlock, TLetGo, Done, TGoto, Shape, Running, ThreadPC
<1> QED
  BY <1>3, <1>4, <1>5, <1>6

(* A text on its way into the engine.                                      *)
LEMMA TTextKeeps ==
  ASSUME Shape, TFilter \/ TAdjust \/ TEnter
  PROVE  Scalars' /\ Flags' /\ Queues' /\ Running'
<1>1. /\ run \in Numbered /\ run.kind \in {"text", "mark"}
      /\ run # Nothing
      /\ TFilter \/ TAdjust => run.kind = "text"
  BY NothingIsNothing DEF TFilter, TAdjust, TEnter, Shape, Running, Queued
<1>2. run.units \in Nat /\ run.n \in 1..MaxPosted
  BY <1>1, BlockHasNoNumber
<1>3. UNCHANGED <<manualVars, inbox, run, asking, synthesizing, lock, claimed,
                  found, appVars, callVars, historyVars>>
  BY DEF TFilter, TAdjust, TEnter, countVars
<1> USE DEF manualVars, semaphoreVars, appVars, callVars, historyVars
<1>4. len' \in Nat /\ read' \in Int /\ pending' \in Int
  <2>1. len \in Nat /\ read \in Int /\ pending \in Int
    BY DEF Shape, Scalars
  <2>2. CASE TFilter
    <3>1. PICK became \in {run.units} \cup Rewritten :
            len' = became /\ read' \in {read, pending}
      BY <2>2 DEF TFilter
    <3>2. became \in Nat
      BY <1>2, BoundAssumption
    <3> QED
      BY <2>1, <2>2, <3>1, <3>2 DEF TFilter, countVars
  <2>3. CASE TAdjust
    BY <1>2, <2>1, <2>3 DEF TAdjust
  <2>4. CASE TEnter
    BY <2>1, <2>4 DEF TEnter, countVars
  <2> QED
    BY <2>2, <2>3, <2>4
<1>5. engine' \in Seq(Item)
  <2>1. CASE TEnter
    <3>1. [what |-> IF run.kind = "text" THEN "sound" ELSE "mark",
           n |-> run.n] \in Item
      BY <1>2 DEF Item
    <3> QED
      BY <2>1, <3>1, Behind DEF TEnter, Shape, Queues
  <2>2. CASE TFilter \/ TAdjust
    BY <2>2 DEF TFilter, TAdjust, Shape, Queues
  <2> QED
    BY <2>1, <2>2
<1>6. Scalars'
  BY <1>3, <1>4 DEF Shape, Scalars
<1>7. Flags'
  BY <1>3 DEF Shape, Flags
<1>8. Queues'
  BY <1>3, <1>5 DEF Shape, Queues
<1>9. Running'
  BY <1>1, <1>3 DEF TFilter, TAdjust, TEnter, TGoto, Shape, Running, ThreadPC
<1> QED
  BY <1>6, <1>7, <1>8, <1>9

(* What comes out of the engine.                                           *)
LEMMA SayKeeps ==
  ASSUME Shape, TSendSamples \/ TPostMark
  PROVE  Scalars' /\ Flags' /\ Queues' /\ Running'
<1>1. /\ UNCHANGED <<manualVars, inbox, run, tpc, len, read, countVars, posted,
                     seen, closed, held, stopping, callVars, historyVars>>
      /\ engine \in Seq(Item) /\ engine # <<>> /\ items \in Seq(Item)
      /\ engine' = Tail(engine)
      /\ items' = IF closed THEN items ELSE Append(items, Head(engine))
  BY DEF TSendSamples, TPostMark, Say, Shape, Queues
<1> USE DEF manualVars, semaphoreVars, countVars, callVars, historyVars
<1>2. Scalars'
  BY <1>1 DEF Shape, Scalars
<1>3. Flags'
  <2>1. asking' \in BOOLEAN
    BY DEF TSendSamples, TPostMark, Shape, Flags
  <2> QED
    BY <1>1, <2>1 DEF Shape, Flags
<1>4. Queues'
  <2>1. Head(engine) \in Item /\ Tail(engine) \in Seq(Item)
    BY <1>1, InFront
  <2>2. Append(items, Head(engine)) \in Seq(Item)
    BY <1>1, <2>1, Behind
  <2>3. engine' \in Seq(Item) /\ items' \in Seq(Item)
    BY <1>1, <2>1, <2>2
  <2> QED
    BY <1>1, <2>3 DEF Shape, Queues
<1>5. Running'
  BY <1>1 DEF Shape, Running
<1> QED
  BY <1>2, <1>3, <1>4, <1>5

(* Counting off what was run, and the end of a run of speech.              *)
LEMMA CountingKeeps ==
  ASSUME Shape,
         TSpoken \/ TFlushed \/ TCount \/ TWind \/ TClose \/ TRemained \/ TTell
  PROVE  Scalars' /\ Flags' /\ Queues' /\ Running'
<1>1. /\ UNCHANGED <<manualVars, inbox, read, engine, asking, synthesizing,
                     lock, claimed, found, posted, seen, closed, held, stopping,
                     callVars, historyVars>>
      /\ run \in Numbered /\ run # Nothing
  BY NothingIsNothing
     DEF TSpoken, TFlushed, TCount, TWind, TClose, TRemained, TTell, countVars,
         appVars, Shape, Running, Queued
<1> USE DEF manualVars, semaphoreVars, callVars, historyVars
<1>2. run.units \in Nat /\ run.n \in 1..MaxPosted
  BY <1>1, BlockHasNoNumber
<1>3. Scalars'
  <2>1. len' \in Nat /\ pending' \in Int
    BY <1>2 DEF TSpoken, TFlushed, TCount, TWind, TClose, TRemained, TTell,
                RunStandsFor, Done, countVars, Shape, Scalars
  <2> QED
    BY <1>1, <2>1 DEF Shape, Scalars
<1>4. Flags'
  BY <1>1 DEF Shape, Flags
<1>5. Queues'
  <2>1. items' \in Seq(Item)
    <3>1. CASE TTell
      <4>1. [what |-> "count", n |-> run.n] \in Item
        BY <1>2 DEF Item
      <4>2. items \in Seq(Item)
        BY DEF Shape, Queues
      <4>3. Append(items, [what |-> "count", n |-> run.n]) \in Seq(Item)
        BY <4>1, <4>2, Behind
      <4> QED
        BY <3>1, <4>2, <4>3 DEF TTell
    <3>2. CASE ~TTell
      BY <3>2 DEF TSpoken, TFlushed, TCount, TWind, TClose, TRemained, appVars,
                  Shape, Queues
    <3> QED
      BY <3>1, <3>2
  <2> QED
    BY <1>1, <2>1 DEF Shape, Queues
<1>6. Running'
  BY <1>1 DEF TSpoken, TFlushed, TCount, TWind, TClose, TRemained, TTell, TGoto,
              Done, Shape, Running, ThreadPC
<1> QED
  BY <1>3, <1>4, <1>5, <1>6

LEMMA ThreadKeepsShape ==
  ASSUME Shape, ThreadStep
  PROVE  Shape'
<1>1. Scalars' /\ Flags' /\ Queues' /\ Running'
  BY TTakeKeeps, TBlockKeeps, TTextKeeps, SayKeeps, CountingKeeps DEF ThreadStep
<1>2. UNCHANGED <<pc, hand, lock, claimed, posted, held, manual, wanted>>
  BY ThreadLeaves DEF callVars
<1>3. Sending' /\ Fits' /\ Holding'
  BY <1>2 DEF Shape, Sending, Fits, Holding
<1> QED
  BY <1>1, <1>3 DEF Shape

-----------------------------------------------------------------------------
(* The callers' steps.                                                     *)

LEMMA Moved ==
  ASSUME pc \in [Callers -> CallerPC], NEW c \in Callers, NEW there,
         Goto(c, there)
  PROVE  /\ pc'[c] = there
         /\ \A d \in Callers : d # c => pc'[d] = pc[d]
         /\ there \in CallerPC => pc' \in [Callers -> CallerPC]
  BY DEF Goto

(* Whoever is in some other call, nobody is queueing.                      *)
LEMMA NobodyQueues ==
  ASSUME Shape, \A d \in Callers : pc[d] \notin InQueueing
  PROVE  lock = Nobody /\ claimed = Nothing /\ wanted = "none"
  BY DEF Shape, Scalars, Sending, InQueueing

LEMMA OtherCall ==
  ASSUME Shape, NEW c \in Callers, pc[c] # "idle", pc[c] \notin InQueueing
  PROVE  \A d \in Callers : pc[d] \notin InQueueing
  BY DEF Shape, Sending

(* A step between places where nothing is queued.                          *)
LEMMA StaysOutside ==
  ASSUME Shape, NEW c \in Callers, \A d \in Callers : pc[d] \notin InQueueing,
         NEW there \in CallerPC \ InQueueing, Goto(c, there),
         UNCHANGED <<lock, claimed, wanted>>
  PROVE  Sending'
<1>1. lock = Nobody /\ claimed = Nothing /\ wanted = "none"
  BY NobodyQueues
<1>2. pc \in [Callers -> CallerPC]
  BY DEF Shape, Sending
<1>3. /\ pc' \in [Callers -> CallerPC]
      /\ \A d \in Callers : pc'[d] \notin InQueueing
  BY <1>2, Moved
<1>4. \A d \in Callers : d # Nobody
  BY CallerAssumption
<1> QED
  BY <1>1, <1>3, <1>4 DEF Shape, Sending, InQueueing, ManualPC

(* A step that neither takes nor hands over an item.                       *)
LEMMA HoldsOn ==
  ASSUME Shape, NEW c \in Callers, pc[c] \notin {"call", "collect"},
         NEW there \in CallerPC \ {"call", "collect"}, Goto(c, there),
         there = "recall" => held # Nothing,
         UNCHANGED <<hand, held>>
  PROVE  Holding'
<1>1. pc \in [Callers -> CallerPC]
  BY DEF Shape, Sending
<1>2. /\ pc'[c] = there
      /\ \A d \in Callers : d # c => pc'[d] = pc[d]
  BY <1>1, Moved
<1> QED
  BY <1>2 DEF Shape, Holding

(* Looking, going in and coming out: nothing but flags.                    *)
LEMMA CallingKeeps ==
  ASSUME Shape, NEW c \in Callers,
         \/ \E call \in Calls : Ask(c, call)
         \/ Check(c) \/ Enter(c) \/ Look(c) \/ RecallPutOff(c) \/ Caught(c)
         \/ Leave(c) \/ Abort(c) \/ Interrupt(c) \/ AwaitTurn(c)
  PROVE  Shape'
<1>1. UNCHANGED <<threadVars, asking, pending, lock, claimed, found, appVars,
                  hand, historyVars, wanted, semaphoreVars, loose>>
  BY DEF Ask, Check, Enter, Look, RecallPutOff, Caught, Leave, Abort, Interrupt,
         AwaitTurn, manualVars, semaphoreVars, countVars, callVars
<1> USE DEF threadVars, appVars, historyVars, semaphoreVars
<1>2. PICK there \in CallerPC \ (InQueueing \cup {"call", "collect"}) :
        /\ Goto(c, there)
        /\ there = "recall" => held # Nothing
  <2> USE DEF CallerPC, InQueueing, ManualPC, Committing, StopPC
  <2>1. CASE \E call \in Calls : Ask(c, call)
    BY <2>1 DEF Ask
  <2>2. CASE Check(c) \/ Enter(c)
    BY <2>2 DEF Check, Enter
  <2>3. CASE Look(c)
    <3> DEFINE there == IF stopping \/ posted = seen THEN "leave"
                        ELSE IF doing[c] = "poll" /\ held # Nothing THEN "recall"
                        ELSE "pop"
    <3>1. Goto(c, there)
      BY <2>3 DEF Look
    <3>2. there \in {"leave", "recall", "pop"} /\ (there = "recall" => held # Nothing)
      OBVIOUS
    <3> HIDE DEF there
    <3> QED
      BY <3>1, <3>2
  <2>4. CASE RecallPutOff(c) \/ Caught(c) \/ Leave(c)
    BY <2>4 DEF RecallPutOff, Caught, Leave
  <2>5. CASE Abort(c) \/ Interrupt(c) \/ AwaitTurn(c)
    BY <2>5 DEF Abort, Interrupt, AwaitTurn
  <2> QED
    BY <2>1, <2>2, <2>3, <2>4, <2>5
<1>3. /\ \A d \in Callers : pc[d] \notin InQueueing
      /\ pc[c] \notin {"call", "collect"}
  <2>1. CASE \E call \in Calls : Ask(c, call)
    <3>1. lock = Nobody /\ pc[c] = "idle"
          /\ \A d \in Callers : pc[d] \notin ManualPC
      BY <2>1 DEF Ask
    <3>2. \A d \in Callers : pc[d] \notin Committing
      BY <3>1, CallerAssumption DEF Shape, Sending
    <3> QED
      BY <3>1, <3>2 DEF InQueueing
  <2>2. CASE ~\E call \in Calls : Ask(c, call)
    <3>1. pc[c] \in {"asked", "enter", "look", "recall", "caught", "leave",
                     "abort", "interrupt", "turn"}
      BY <2>2 DEF Check, Enter, Look, RecallPutOff, Caught, Leave, Abort,
                  Interrupt, AwaitTurn
    <3> QED
      BY <3>1, OtherCall DEF InQueueing, ManualPC, Committing
  <2> QED
    BY <2>1, <2>2
<1>4. Sending' /\ Holding'
  BY <1>1, <1>2, <1>3, StaysOutside, HoldsOn
<1>5. doing' \in [Callers -> Calls]
  BY DEF Ask, Check, Enter, Look, RecallPutOff, Caught, Leave, Abort, Interrupt,
         AwaitTurn, callVars, Calls, Shape, Scalars
<1>6. Scalars'
  BY <1>1, <1>5 DEF Shape, Scalars
<1>7. Flags'
  <2>1. busy' \in BOOLEAN /\ synthesizing' \in BOOLEAN
    BY DEF Ask, Check, Enter, Look, RecallPutOff, Caught, Leave, Abort, Interrupt,
           AwaitTurn, callVars, countVars, Shape, Flags
  <2> QED
    BY <1>1, <2>1 DEF Shape, Flags
<1>8. manual' \in {manual, <<>>}
  BY DEF Ask, Check, Enter, Look, RecallPutOff, Caught, Leave, Abort, Interrupt,
         AwaitTurn, manualVars
<1>9. manual \in Seq(Elements) /\ manual' \in Seq(Elements)
      /\ Len(manual) \in Nat /\ Len(manual') \in Nat
      /\ (manual' # <<>> => Len(manual') = Len(manual) /\ manual # <<>>)
      /\ Len(<<>>) = 0
  <2>1. manual \in Seq(Elements)
    BY DEF Shape, Queues
  <2> QED
    BY <1>8, <2>1, MaybeEmptied
<1>10. Queues'
  BY <1>1, <1>9 DEF Shape, Queues
<1>11. Fits'
  <2>1. posted \in Nat /\ MaxPosted \in Nat
    BY BoundAssumption DEF Shape, Scalars
  <2> QED
    BY <1>1, <1>8, <1>9, <2>1 DEF Shape, Fits
<1>12. Running'
  BY <1>1 DEF Shape, Running
<1> QED
  BY <1>4, <1>6, <1>7, <1>10, <1>11, <1>12 DEF Shape

(* A pause is one flag.                                                    *)
LEMMA PauseKeeps ==
  ASSUME Shape, NEW c \in Callers, Pause(c)
  PROVE  Shape'
<1>1. UNCHANGED <<manualVars, threadVars, asking, countVars, posted, seen, items,
                  closed, held, callVars, historyVars>>
  BY DEF Pause
<1> USE DEF manualVars, semaphoreVars, threadVars, countVars, callVars,
            historyVars
<1>2. Scalars' /\ Queues' /\ Running' /\ Sending' /\ Fits' /\ Holding'
  BY <1>1 DEF Shape, Scalars, Queues, Running, Sending, Fits, Holding
<1>3. Flags'
  <2>1. stopping' \in BOOLEAN
    BY DEF Pause
  <2> QED
    BY <1>1, <2>1 DEF Shape, Flags
<1> QED
  BY <1>2, <1>3 DEF Shape

(* Taking an item, and what the callback answers.                          *)
Taking(c) ==
  \/ RecallTook(c) \/ RecallAborted(c) \/ Pop(c) \/ Collect(c)
  \/ CallTook(c) \/ CallPutOff(c) \/ CallAborted(c)

LEMMA TakingKeeps ==
  ASSUME Shape, PutOffByOne, NEW c \in Callers, Taking(c)
  PROVE  Shape'
<1> USE DEF Taking
<1>1. UNCHANGED <<manualVars, threadVars, countVars, posted, closed, stopping,
                  busy, doing, last, due>>
  BY DEF RecallTook, RecallAborted, Pop, Collect, CallTook, CallPutOff,
         CallAborted, appVars, historyVars
<1> USE DEF manualVars, semaphoreVars, threadVars, countVars
<1>2. pc[c] \in {"recall", "pop", "collect", "call"}
  BY DEF RecallTook, RecallAborted, Pop, Collect, CallTook, CallPutOff,
         CallAborted
<1>3. pc \in [Callers -> CallerPC]
  BY DEF Shape, Sending
<1>4. \A d \in Callers : pc[d] \notin InQueueing
  BY <1>2, OtherCall DEF InQueueing, ManualPC, Committing
<1>5. /\ pc[c] \in {"call", "collect"} => hand[c] \in Item
      /\ pc[c] = "recall" => held \in Item
  BY DEF Shape, Holding
<1>6. seen' \in 0..MaxPosted
  <2>1. CASE Collect(c)
    <3>1. seen' = hand[c].n /\ hand[c] \in Item
      BY <2>1, <1>5 DEF Collect
    <3>2. \A i \in Item : i.n \in 0..MaxPosted
      BY BoundAssumption DEF Item
    <3> QED
      BY <3>1, <3>2
  <2>2. CASE ~Collect(c)
    BY <2>2 DEF RecallTook, RecallAborted, Pop, CallTook, CallPutOff,
                CallAborted, appVars, Shape, Scalars
  <2> QED
    BY <2>1, <2>2
<1>7. /\ items' \in Seq(Item) /\ heard' \in Seq(1..MaxPosted)
      /\ Pop(c) /\ items # <<>> => Head(items) \in Item
  <2>1. items \in Seq(Item) /\ heard \in Seq(1..MaxPosted)
    BY DEF Shape, Queues
  <2>2. items' \in Seq(Item)
    <3>1. CASE Pop(c)
      BY <2>1, <3>1, InFront DEF Pop
    <3>2. CASE ~Pop(c)
      BY <2>1, <3>2 DEF RecallTook, RecallAborted, Collect, CallTook, CallPutOff,
                        CallAborted, appVars
    <3> QED
      BY <3>1, <3>2
  <2>3. heard' \in Seq(1..MaxPosted)
    <3>1. CASE RecallTook(c) \/ CallTook(c)
      <4>1. PICK item \in Item : heard' = Append(heard, item.n)
        BY <1>5, <3>1 DEF RecallTook, CallTook, Hear
      <4>2. item.n \in 1..MaxPosted
        BY DEF Item
      <4> QED
        BY <2>1, <4>1, <4>2, Behind
    <3>2. CASE ~(RecallTook(c) \/ CallTook(c))
      BY <2>1, <3>2 DEF RecallAborted, Pop, Collect, CallPutOff, CallAborted,
                        historyVars
    <3> QED
      BY <3>1, <3>2
  <2>4. items # <<>> => Head(items) \in Item
    BY <2>1, InFront
  <2> QED
    BY <2>2, <2>3, <2>4
<1>8. PICK there \in {"pop", "leave", "collect", "call", "caught", "abort"} :
        Goto(c, there)
  <2>1. CASE Pop(c)
    BY <2>1 DEF Pop
  <2>2. CASE Collect(c)
    BY <2>2 DEF Collect
  <2>3. CASE ~Pop(c) /\ ~Collect(c)
    BY <2>3 DEF RecallTook, RecallAborted, CallTook, CallPutOff, CallAborted
  <2> QED
    BY <2>1, <2>2, <2>3
<1>9. /\ pc'[c] = there
      /\ \A d \in Callers : d # c => pc'[d] = pc[d]
  BY <1>3, <1>8, Moved
<1>10. Sending'
  <2>1. there \in CallerPC \ InQueueing
    BY DEF CallerPC, InQueueing, ManualPC, Committing
  <2> QED
    BY <1>1, <1>4, <1>8, <2>1, StaysOutside
<1>11. Holding'
  <2>1. hand \in [Callers -> Item \cup {Nothing}] /\ held \in Item \cup {Nothing}
    BY DEF Shape, Holding
  <2>2. CASE RecallTook(c) \/ RecallAborted(c)
    <3>1. /\ held' = Nothing /\ hand' = hand /\ pc[c] = "recall"
          /\ pc'[c] \in {"leave", "abort"}
      BY <1>3, <2>2, Moved DEF RecallTook, RecallAborted
    <3>2. held # Nothing
      BY <3>1 DEF Shape, Holding
    <3>3. \A d \in Callers : d = c
      BY <3>2 DEF Shape, Holding, PutOffByOne, OneCaller
    <3> QED
      BY <3>1, <3>3 DEF Shape, Holding
  <2>3. CASE Pop(c)
    <3>1. CASE items # <<>>
      <4>1. /\ hand' = [hand EXCEPT ![c] = Head(items)] /\ held' = held
            /\ pc'[c] = IF Head(items).what = "count" THEN "collect" ELSE "call"
        BY <1>3, <2>3, <3>1, Moved DEF Pop
      <4>2. Head(items) \in Item
        BY <1>7, <2>3, <3>1
      <4>3. hand' \in [Callers -> Item \cup {Nothing}] /\ hand'[c] = Head(items)
            /\ \A d \in Callers : d # c => hand'[d] = hand[d]
        BY <2>1, <4>1, <4>2
      <4> QED
        BY <1>9, <4>1, <4>2, <4>3 DEF Shape, Holding
    <3>2. CASE items = <<>>
      <4>1. Goto(c, "leave") /\ UNCHANGED <<hand, held>> /\ pc[c] = "pop"
        BY <2>3, <3>2 DEF Pop
      <4> QED
        BY <4>1, HoldsOn DEF CallerPC
    <3> QED
      BY <3>1, <3>2
  <2>4. CASE Collect(c) \/ CallTook(c) \/ CallPutOff(c) \/ CallAborted(c)
    <3>1. /\ hand' = [hand EXCEPT ![c] = Nothing]
          /\ CallPutOff(c) \/ held' = held
          /\ pc[c] \in {"call", "collect"}
      BY <2>4 DEF Collect, CallTook, CallPutOff, CallAborted, appVars
    <3>2. hand' \in [Callers -> Item \cup {Nothing}] /\ hand'[c] = Nothing
          /\ \A d \in Callers : d # c => hand'[d] = hand[d]
      BY <2>1, <3>1
    <3>3. pc'[c] \in {"pop", "leave", "abort", "caught"}
      <4>1. CASE Collect(c)
        BY <1>3, <4>1, Moved DEF Collect
      <4>2. CASE ~Collect(c)
        BY <1>3, <2>4, <4>2, Moved DEF CallTook, CallPutOff, CallAborted
      <4> QED
        BY <4>1, <4>2
    <3>4. /\ held' \in Item \cup {Nothing}
          /\ held # Nothing => held' # Nothing
          /\ held' # Nothing => held'.what # "count" /\ ~NothingPutOff
      <4>1. CASE CallPutOff(c)
        <5>1. /\ held' = hand[c] /\ pc[c] = "call" /\ ~NothingPutOff
          BY <4>1 DEF CallPutOff, NothingPutOff
        <5>2. hand[c] \in Item /\ hand[c].what # "count" /\ hand[c] # Nothing
          BY <5>1, NothingIsNothing DEF Shape, Holding
        <5> QED
          BY <5>1, <5>2
      <4>2. CASE held' = held
        BY <4>2 DEF Shape, Holding
      <4> QED
        BY <3>1, <4>1, <4>2
    <3> QED
      BY <1>9, <3>2, <3>3, <3>4 DEF Shape, Holding
  <2> QED
    BY <2>2, <2>3, <2>4
<1>12. Scalars'
  BY <1>1, <1>6 DEF Shape, Scalars
<1>13. Flags'
  <2>1. asking' \in BOOLEAN
    BY DEF RecallTook, RecallAborted, Pop, Collect, CallTook, CallPutOff,
           CallAborted, Finish, Shape, Flags
  <2>2. synthesizing' = synthesizing /\ gate' = gate /\ loose' = loose
        /\ busy' = busy /\ closed' = closed /\ stopping' = stopping
    BY <1>1
  <2> QED
    BY <2>1, <2>2 DEF Shape, Flags
<1>14. Queues'
  BY <1>1, <1>7 DEF Shape, Queues
<1>15. Running' /\ Fits'
  BY <1>1 DEF Shape, Running, Fits
<1> QED
  BY <1>10, <1>11, <1>12, <1>13, <1>14, <1>15 DEF Shape

(* What a stop does, but for its waits.                                    *)
Clearing(c) ==
  SuspendApp(c) \/ Quiesce(c) \/ Reset(c) \/ Recount(c) \/ Reopen(c)

LEMMA ClearingKeeps ==
  ASSUME Shape, PutOffByOne, NEW c \in Callers, Clearing(c)
  PROVE  Shape'
<1> USE DEF Clearing
<1>1. UNCHANGED <<manual, wanted, semaphoreVars, run, tpc, len, read, lock,
                  claimed, found, busy, doing, hand>>
  BY DEF SuspendApp, Quiesce, Reset, Recount, Reopen, manualVars, threadVars,
         countVars, callVars
<1> USE DEF semaphoreVars
<1>2. PICK there \in {"quiesce", "turn", "recount", "reopen", "leave"} :
        Goto(c, there)
  BY DEF SuspendApp, Quiesce, Reset, Recount, Reopen
<1>3. pc[c] \in {"suspend", "quiesce", "reset", "recount", "reopen"}
  BY DEF SuspendApp, Quiesce, Reset, Recount, Reopen
<1>4. \A d \in Callers : pc[d] \notin InQueueing
  BY <1>3, OtherCall DEF InQueueing, ManualPC, Committing
<1>5. there \in CallerPC \ (InQueueing \cup {"call", "collect", "recall"})
  BY DEF CallerPC, InQueueing, ManualPC, Committing, StopPC
<1>6. Sending'
  BY <1>1, <1>2, <1>4, <1>5, StaysOutside
<1>7. Holding'
  <2>1. pc \in [Callers -> CallerPC]
    BY DEF Shape, Sending
  <2>2. CASE held' = held
    BY <1>1, <1>2, <1>3, <1>5, <2>2, HoldsOn
  <2>3. CASE held' = Nothing
    <3>1. held # Nothing => \A d \in Callers : d = c
      BY DEF Shape, Holding, PutOffByOne, OneCaller
    <3>2. /\ pc'[c] = there
          /\ \A d \in Callers : d # c => pc'[d] = pc[d]
      BY <1>2, <2>1, Moved
    <3>3. hand'[c] = Nothing
      BY <1>1, <1>3 DEF Shape, Holding
    <3> QED
      BY <1>1, <1>5, <2>3, <3>1, <3>2, <3>3 DEF Shape, Holding
  <2> QED
    BY <2>2, <2>3 DEF SuspendApp, Quiesce, Reset, Recount, Reopen, appVars
<1>8. Scalars'
  <2>1. posted' \in 0..MaxPosted /\ seen' \in 0..MaxPosted /\ pending' \in Int
        /\ last' \in Queueing
    BY BoundAssumption
       DEF SuspendApp, Quiesce, Reset, Recount, Reopen, appVars, countVars,
           historyVars, Queueing, Shape, Scalars
  <2> QED
    BY <1>1, <2>1 DEF Shape, Scalars
<1>9. Flags'
  <2>1. asking' \in BOOLEAN /\ synthesizing' \in BOOLEAN
    BY DEF SuspendApp, Quiesce, Reset, Recount, Reopen, countVars, Shape, Flags
  <2>2. closed' \in BOOLEAN /\ stopping' \in BOOLEAN /\ loose' \in BOOLEAN
    BY DEF SuspendApp, Quiesce, Reset, Recount, Reopen, appVars, manualVars,
           Shape, Flags
  <2> QED
    BY <1>1, <2>1, <2>2 DEF Shape, Flags
<1>10. Queues'
  <2>1. inbox' \in {inbox, <<>>} /\ engine' \in {engine, <<>>}
        /\ items' \in {items, <<>>} /\ due' \in {due, <<>>}
        /\ heard' \in {heard, <<>>}
    BY DEF SuspendApp, Quiesce, Reset, Recount, Reopen, threadVars, appVars,
           historyVars
  <2>2. inbox' \in Seq(Queued) /\ engine' \in Seq(Item) /\ items' \in Seq(Item)
    BY <2>1, MaybeEmptied DEF Shape, Queues
  <2>3. due' \in Seq(1..MaxPosted) /\ heard' \in Seq(1..MaxPosted)
    BY <2>1, MaybeEmptied DEF Shape, Queues
  <2> QED
    BY <1>1, <2>2, <2>3 DEF Shape, Queues
<1>11. Running'
  BY <1>1 DEF Shape, Running
<1>12. Fits'
  <2>1. posted' \in {posted, 0} /\ posted \in Nat /\ Len(manual) \in Nat
        /\ MaxPosted \in Nat
    BY BoundAssumption
       DEF SuspendApp, Quiesce, Reset, Recount, Reopen, appVars, Shape, Scalars,
           Queues
  <2> QED
    BY <1>1, <2>1 DEF Shape, Fits
<1> QED
  BY <1>6, <1>7, <1>8, <1>9, <1>10, <1>11, <1>12 DEF Shape

(* Posting, from a call of its own or while reading out.  The lemma is     *)
(* told what the two have in common: who may post, and that there is room. *)
LEMMA PutKeeps ==
  ASSUME Shape, NEW c \in Callers, NEW kind \in Queueing, NEW units \in Nat,
         Put(c, kind, units),
         pc[c] \in {"idle", "manual", "post"},
         \A d \in Callers : d # c => pc[d] = "idle",
         manual' \in Seq(Elements), wanted' \in {"text", "synth", "none"},
         wanted' \in {wanted, "none"},
         posted + Len(manual')
           + (IF manual' # <<>> \/ wanted' # "none" THEN 1 ELSE 0)
           + 1 <= MaxPosted
  PROVE  Shape'
<1> DEFINE m == [kind |-> kind, units |-> units, n |-> posted + 1]
<1>1. /\ inbox' = Append(inbox, m)
      /\ claimed' = m
      /\ due' = IF kind \in {"text", "mark"} THEN Append(due, m.n) ELSE due
      /\ last' = kind /\ lock' = c
      /\ Goto(c, "read")
      /\ UNCHANGED <<run, tpc, len, read, engine, asking, pending, synthesizing,
                     found, appVars, busy, doing, hand, heard, semaphoreVars,
                     loose>>
  BY DEF Put, Claim
<1> USE DEF appVars, semaphoreVars
<1>2. m \in Numbered /\ m.n \in 1..MaxPosted
  <2>1. posted \in Nat /\ MaxPosted \in Nat /\ Len(manual') \in Nat
    BY BoundAssumption DEF Shape, Scalars
  <2>2. posted + 1 \in 1..MaxPosted
    BY <2>1
  <2> QED
    BY <2>2 DEF Numbered
<1>3. /\ pc'[c] = "read"
      /\ \A d \in Callers : d # c => pc'[d] = pc[d]
      /\ pc' \in [Callers -> CallerPC]
  BY <1>1, Moved DEF Shape, Sending, CallerPC
<1>4. m # Nothing /\ m.n = posted' + 1
  BY <1>1, <1>2, NothingIsNothing DEF Queued
<1> HIDE DEF m
<1>5. Queues'
  <2>1. inbox' \in Seq(Queued)
    BY <1>1, <1>2, Behind DEF Shape, Queues, Queued
  <2>2. due' \in Seq(1..MaxPosted)
    BY <1>1, <1>2, Behind DEF Shape, Queues
  <2> QED
    BY <1>1, <2>1, <2>2 DEF Shape, Queues
<1>6. Sending'
  <2>1. c # Nobody
    BY CallerAssumption
  <2> QED
    BY <1>1, <1>2, <1>3, <1>4, <2>1 DEF Sending, InQueueing, Committing, ManualPC
<1>7. Fits'
  BY <1>1, <1>4 DEF Fits
<1>8. Scalars'
  BY <1>1 DEF Shape, Scalars
<1>9. Flags'
  BY <1>1 DEF Shape, Flags
<1>10. Running'
  BY <1>1 DEF Shape, Running
<1>11. Holding'
  <2>1. "read" \in CallerPC
    BY DEF CallerPC
  <2> QED
    BY <1>1, <2>1, HoldsOn
<1> QED
  BY <1>5, <1>6, <1>7, <1>8, <1>9, <1>10, <1>11 DEF Shape

(* Counting what was posted.                                               *)
LEMMA CommitKeeps ==
  ASSUME Shape, NEW c \in Callers, CommitRead(c) \/ Commit(c)
  PROVE  Shape'
<1>1. /\ UNCHANGED <<manualVars, threadVars, asking, seen, items, closed, held,
                     stopping, busy, doing, hand, historyVars>>
      /\ pc[c] \in Committing
  BY DEF CommitRead, Commit, appVars, Committing
<1> USE DEF manualVars, semaphoreVars, threadVars, historyVars
<1>2. /\ lock = c /\ claimed \in Numbered /\ claimed # Nothing
      /\ claimed.n = posted + 1 /\ claimed.units \in Nat
      /\ \A d \in Callers : d # c => pc[d] = "idle"
  BY <1>1, CallerAssumption, BlockHasNoNumber
     DEF Shape, Sending, InQueueing
<1>3. PICK there \in {"commit", "idle", "manual"} :
        /\ Goto(c, there)
        /\ there = "commit" <=> CommitRead(c)
        /\ there = "idle" => wanted = "none"
        /\ there = "manual" => wanted # "none"
  BY DEF CommitRead, Commit
<1>4. /\ pc'[c] = there
      /\ \A d \in Callers : d # c => pc'[d] = "idle"
      /\ pc' \in [Callers -> CallerPC]
  BY <1>2, <1>3, Moved DEF Shape, Sending, CallerPC, ManualPC
<1>5. CASE CommitRead(c)
  <2>1. found' = pending /\ UNCHANGED <<pending, synthesizing, lock, claimed, posted>>
    BY <1>5 DEF CommitRead, appVars
  <2>2. Scalars' /\ Queues' /\ Running' /\ Fits'
    BY <1>1, <2>1 DEF Shape, Scalars, Queues, Running, Fits
  <2>3. Flags'
    BY <1>1, <2>1 DEF Shape, Flags
  <2>4. Sending'
    BY <1>1, <1>2, <1>3, <1>4, <1>5, <2>1, CallerAssumption
       DEF Shape, Sending, InQueueing, Committing, ManualPC
  <2> QED
    BY <1>1, <1>3, <2>2, <2>3, <2>4, HoldsOn DEF Shape, CallerPC, ManualPC, Committing
<1>6. CASE Commit(c)
  <2>1. /\ posted' = claimed.n /\ pending' = found + claimed.units
        /\ synthesizing' = TRUE /\ claimed' = Nothing /\ found' = 0
        /\ lock' = Nobody /\ there # "commit"
    BY <1>3, <1>6 DEF Commit, CommitRead
  <2>2. posted' = posted + 1 /\ posted' \in 0..MaxPosted
    BY <1>2, <2>1, BlockHasNoNumber, BoundAssumption
  <2>3. Scalars'
    BY <1>1, <1>2, <2>1, <2>2 DEF Shape, Scalars
  <2>4. Flags'
    BY <1>1, <2>1 DEF Shape, Flags
  <2>5. Queues' /\ Running'
    BY <1>1 DEF Shape, Queues, Running
  <2>6. Fits'
    <3>1. posted \in Nat /\ MaxPosted \in Nat /\ Len(manual) \in Nat
      BY BoundAssumption DEF Shape, Scalars, Queues
    <3> QED
      BY <1>1, <1>2, <2>1, <2>2, <3>1 DEF Shape, Fits
  <2>7. Sending'
    BY <1>1, <1>3, <1>4, <2>1, CallerAssumption
       DEF Sending, InQueueing, Committing, ManualPC
  <2> QED
    BY <1>1, <1>3, <2>3, <2>4, <2>5, <2>6, <2>7, HoldsOn
       DEF Shape, CallerPC, ManualPC, Committing
<1> QED
  BY <1>5, <1>6

(* Whoever is free to queue is the only one in any call.                   *)
LEMMA FreeAlone ==
  ASSUME Shape, NEW c \in Callers, Free(c)
  PROVE  /\ pc[c] = "idle" /\ \A d \in Callers : pc[d] = "idle"
         /\ wanted = "none" /\ claimed = Nothing /\ lock = Nobody
<1>1. \A d \in Callers : pc[d] = "idle"
  BY DEF Free, Alone
<1> QED
  BY <1>1, NobodyQueues DEF InQueueing, Committing, ManualPC

LEMMA RoomLeft ==
  ASSUME Shape
  PROVE  /\ posted \in Nat /\ MaxPosted \in Nat
         /\ manual \in Seq(Elements) /\ Len(manual) \in Nat
         /\ manual = <<>> <=> Len(manual) = 0
  BY BoundAssumption, Empty DEF Shape, Scalars, Queues

(* The calls that queue one thing.                                         *)
LEMMA QueueKeeps ==
  ASSUME Shape, NEW c \in Callers,
         QueueText(c) \/ QueueMark(c) \/ QueueChange(c) \/ QueueSynthesize(c)
  PROVE  Shape'
<1>1. PICK kind \in Queueing, units \in Nat : Queue(c, kind, units)
  BY BoundAssumption
     DEF QueueText, QueueMark, QueueChange, QueueSynthesize, Queueing
<1>2. Free(c) /\ Spare > 0 /\ Put(c, kind, units) /\ UNCHANGED <<manual, wanted>>
  BY <1>1 DEF Queue
<1>3. posted + Len(manual')
        + (IF manual' # <<>> \/ wanted' # "none" THEN 1 ELSE 0)
        + 1 <= MaxPosted
  BY <1>2, FreeAlone, RoomLeft DEF Spare
<1> QED
  BY <1>2, <1>3, FreeAlone, RoomLeft, PutKeeps

(* Keeping back, and throwing away what is kept back.                      *)
LEMMA KeepingBackKeeps ==
  ASSUME Shape, NEW c \in Callers, AddToManualQueue(c) \/ ClearInput(c)
  PROVE  Shape'
<1>1. /\ UNCHANGED <<wanted, semaphoreVars, loose, threadVars, asking, countVars,
                     appVars, callVars, historyVars>>
      /\ Free(c)
  BY DEF AddToManualQueue, ClearInput
<1> USE DEF semaphoreVars, threadVars, countVars, appVars, callVars, historyVars
<1>2. /\ manual' \in Seq(Elements)
      /\ posted + Len(manual') + (IF manual' # <<>> THEN 1 ELSE 0) <= MaxPosted
  <2>1. CASE AddToManualQueue(c)
    <3>1. PICK e \in Elements : manual' = Append(manual, e)
      BY <2>1, BoundAssumption DEF AddToManualQueue, Elements
    <3>2. manual' \in Seq(Elements) /\ Len(manual') = Len(manual) + 1
      BY <3>1, RoomLeft, Behind
    <3>3. MaxPosted - posted - Len(manual) > 1
      BY <2>1 DEF AddToManualQueue
    <3> QED
      BY <3>2, <3>3, RoomLeft
  <2>2. CASE ClearInput(c)
    <3>1. manual' = <<>> /\ posted \in 0..MaxPosted
      BY <2>2 DEF ClearInput, Shape, Scalars
    <3> QED
      BY <3>1, Empty, RoomLeft
  <2> QED
    BY <2>1, <2>2
<1>3. Scalars' /\ Running' /\ Sending' /\ Holding'
  BY <1>1, FreeAlone DEF Shape, Scalars, Running, Sending, Holding
<1>4. Queues'
  BY <1>1, <1>2 DEF Shape, Queues
<1>5. Flags'
  BY <1>1 DEF Shape, Flags
<1>6. Fits'
  <2>1. Len(manual') \in Nat
    BY <1>2
  <2> QED
    BY <1>1, <1>2, <2>1, FreeAlone, RoomLeft DEF Fits
<1> QED
  BY <1>3, <1>4, <1>5, <1>6 DEF Shape

(* Whoever is reading out is the only one in any call.                     *)
LEMMA ReadingAlone ==
  ASSUME Shape, NEW c \in Callers, pc[c] \in ManualPC
  PROVE  /\ \A d \in Callers : d # c => pc[d] = "idle"
         /\ claimed = Nothing /\ lock = Nobody
         /\ pc[c] \in {"manual", "post"} => wanted # "none"
<1>1. \A d \in Callers : d # c => pc[d] = "idle"
  BY DEF Shape, Sending, InQueueing
<1>2. \A d \in Callers : pc[d] \notin Committing
  BY <1>1 DEF ManualPC, Committing
<1> QED
  BY <1>1, <1>2 DEF Shape, Sending

(* A place on the way through reading out.                                 *)
LEMMA ReadingMoves ==
  ASSUME Shape, NEW c \in Callers, pc[c] \in ManualPC \/ Free(c),
         NEW there \in {"idle", "manual", "unblock", "post"}, Goto(c, there),
         UNCHANGED <<lock, claimed, posted>>,
         wanted' # "none" => there # "idle",
         there \in {"manual", "post"} => wanted' # "none",
         there \in {"unblock", "post"} => manual' = <<>>
  PROVE  Sending'
<1>1. /\ \A d \in Callers : d # c => pc[d] = "idle"
      /\ claimed = Nothing /\ lock = Nobody
  BY ReadingAlone, FreeAlone
<1>2. /\ pc'[c] = there
      /\ \A d \in Callers : d # c => pc'[d] = "idle"
      /\ pc' \in [Callers -> CallerPC]
  BY <1>1, Moved DEF Shape, Sending, CallerPC, ManualPC
<1> QED
  BY <1>1, <1>2, CallerAssumption
     DEF Shape, Sending, InQueueing, Committing, ManualPC

(* The block, the release, and the way out of the list.                    *)
Reading(c) == Block(c) \/ ReadOutFails(c) \/ ReadOutAll(c) \/ Unblock(c)

LEMMA ReadingKeeps ==
  ASSUME Shape, NEW c \in Callers, Reading(c)
  PROVE  Shape'
<1> USE DEF Reading
<1>1. UNCHANGED <<loose, run, tpc, len, read, engine, asking, countVars, appVars,
                  busy, doing, hand, historyVars>>
  BY DEF Block, ReadOutFails, ReadOutAll, Unblock, manualVars, threadVars
<1> USE DEF countVars, appVars, historyVars
<1>2. pc[c] \in ManualPC \/ Free(c)
  BY DEF Block, ReadOutFails, ReadOutAll, Unblock, ManualPC
<1>3. PICK there \in {"idle", "manual", "unblock", "post"} :
        /\ Goto(c, there)
        /\ wanted' # "none" => there # "idle"
        /\ there \in {"manual", "post"} => wanted' # "none"
        /\ there \in {"unblock", "post"} => manual' = <<>>
  BY DEF Block, ReadOutFails, ReadOutAll, Unblock, manualVars, Shape, Sending
<1>4. Sending'
  BY <1>1, <1>2, <1>3, ReadingMoves
<1>5. Holding'
  BY <1>1, <1>2, <1>3, HoldsOn DEF Free, CallerPC, ManualPC
<1>6. /\ wanted' \in {"text", "synth", "none"} /\ blocker' \in Int
      /\ manual' \in {manual, <<>>}
      /\ wanted' # "none" => manual # <<>> \/ wanted # "none"
  BY DEF Block, ReadOutFails, ReadOutAll, Unblock, manualVars, semaphoreVars,
         Shape, Scalars
<1>7. Scalars'
  BY <1>1, <1>6 DEF Shape, Scalars
<1>8. Flags'
  <2>1. gate' \in BOOLEAN
    BY DEF Block, ReadOutFails, ReadOutAll, Unblock, manualVars, semaphoreVars,
           Shape, Flags
  <2> QED
    BY <1>1, <2>1 DEF Shape, Flags
<1>9. Queues'
  <2>1. inbox' \in Seq(Queued)
    <3>1. inbox \in Seq(Queued) /\ BlockMessage \in Queued
      BY DEF Shape, Queues, Queued
    <3>2. inbox' = inbox \/ inbox' = Append(inbox, BlockMessage)
      BY DEF Block, ReadOutFails, ReadOutAll, Unblock, threadVars
    <3>3. Append(inbox, BlockMessage) \in Seq(Queued)
      BY <3>1, Behind
    <3> QED
      BY <3>1, <3>2, <3>3
  <2>2. manual' \in Seq(Elements)
    BY <1>6, RoomLeft, MaybeEmptied
  <2> QED
    BY <1>1, <2>1, <2>2 DEF Shape, Queues
<1>10. Running'
  BY <1>1 DEF Shape, Running
<1>11. Fits'
  <2>1. /\ Len(manual') \in Nat /\ Len(<<>>) = 0
        /\ manual' # <<>> => Len(manual') = Len(manual) /\ manual # <<>>
    BY <1>6, RoomLeft, MaybeEmptied
  <2> QED
    BY <1>1, <1>6, <2>1, RoomLeft DEF Shape, Fits
<1> QED
  BY <1>4, <1>5, <1>7, <1>8, <1>9, <1>10, <1>11 DEF Shape

(* What is posted from there: an element, a change, and what was wanted.   *)
LEMMA ReadOutKeeps ==
  ASSUME Shape, NEW c \in Callers,
         ReadOut(c) \/ ReadOutChange(c) \/ PostWanted(c)
  PROVE  Shape'
<1>1. /\ pc[c] \in {"manual", "post"}
      /\ pc[c] \in ManualPC
  BY DEF ReadOut, ReadOutChange, PostWanted, ManualPC
<1>2. /\ \A d \in Callers : d # c => pc[d] = "idle"
      /\ claimed = Nothing /\ wanted # "none"
  BY <1>1, ReadingAlone
<1>3. posted + Len(manual) + 1 <= MaxPosted
  BY <1>2, RoomLeft DEF Shape, Fits
<1>4. CASE ReadOut(c)
  <2>1. /\ manual # <<>> /\ manual' = Tail(manual) /\ wanted' = wanted
        /\ Put(c, Head(manual).kind, Head(manual).units)
    BY <1>4 DEF ReadOut
  <2>2. /\ manual' \in Seq(Elements) /\ Len(manual') = Len(manual) - 1
        /\ Head(manual) \in Elements
    BY <2>1, RoomLeft, InFront
  <2>3. Head(manual).kind \in Queueing /\ Head(manual).units \in Nat
    BY <2>2 DEF Elements, Queueing
  <2>4. posted + Len(manual') + 1 + 1 <= MaxPosted
    BY <1>3, <2>2, RoomLeft
  <2>5. wanted' \in {"text", "synth", "none"} /\ wanted' # "none"
    BY <1>2, <2>1 DEF Shape, Scalars
  <2> QED
    BY <1>1, <1>2, <2>1, <2>2, <2>3, <2>4, <2>5, PutKeeps
<1>5. CASE ReadOutChange(c)
  <2>1. /\ manual # <<>> /\ Spare > 0 /\ UNCHANGED <<manual, wanted>>
        /\ Put(c, "change", 1)
    BY <1>5 DEF ReadOutChange
  <2>2. posted + Len(manual') + 1 + 1 <= MaxPosted
    BY <2>1, RoomLeft DEF Spare
  <2>3. "change" \in Queueing /\ 1 \in Nat
    BY DEF Queueing
  <2>4. wanted' \in {"text", "synth", "none"} /\ wanted' # "none"
    BY <1>2, <2>1 DEF Shape, Scalars
  <2> QED
    BY <1>1, <1>2, <2>1, <2>2, <2>3, <2>4, RoomLeft, PutKeeps
<1>6. CASE PostWanted(c)
  <2>1. PICK units \in IF wanted = "text" THEN Lengths ELSE {1} :
          Put(c, wanted, units)
    BY <1>6 DEF PostWanted
  <2>2. units \in Nat /\ wanted \in Queueing
    BY <1>2, <2>1, BoundAssumption DEF Shape, Scalars, Queueing
  <2>3. wanted' = "none" /\ manual' = manual
    BY <1>6 DEF PostWanted
  <2>4. posted + Len(manual')
          + (IF manual' # <<>> \/ wanted' # "none" THEN 1 ELSE 0)
          + 1 <= MaxPosted
    <3>1. pc[c] = "post"
      BY <1>6 DEF PostWanted
    <3>2. manual = <<>>
      BY <3>1 DEF Shape, Sending
    <3> QED
      BY <1>3, <2>3, <3>2, RoomLeft
  <2> QED
    BY <1>1, <1>2, <2>1, <2>2, <2>3, <2>4, RoomLeft, PutKeeps
<1> QED
  BY <1>4, <1>5, <1>6

LEMMA ShapeNext ==
  ASSUME Shape, PutOffByOne, [Next]_vars
  PROVE  Shape'
<1>1. CASE ThreadStep
  BY <1>1, ThreadKeepsShape
<1>2. CASE UNCHANGED vars
  BY <1>2 DEF vars, threadVars, countVars, appVars, callVars, historyVars,
              manualVars, semaphoreVars, Shape, Scalars, Flags, Queues, Running,
              Sending, Fits, Holding
<1>3. ASSUME NEW c \in Callers, CallerStart(c) \/ CallerStep(c)
      PROVE  Shape'
  <2>1. CASE CallerStart(c)
    BY <2>1, QueueKeeps, KeepingBackKeeps, ReadingKeeps, PauseKeeps, CallingKeeps
       DEF CallerStart, Reading
  <2>2. CASE CallerStep(c) /\ ~StopStep(c) /\ ~ManualStep(c)
    BY <2>2, CommitKeeps, CallingKeeps, TakingKeeps DEF CallerStep, Taking
  <2>3. CASE StopStep(c)
    BY <2>3, CallingKeeps, ClearingKeeps DEF StopStep, Clearing
  <2>4. CASE ManualStep(c)
    BY <2>4, ReadOutKeeps, ReadingKeeps DEF ManualStep, Reading
  <2> QED
    BY <1>3, <2>1, <2>2, <2>3, <2>4
<1> QED
  BY <1>1, <1>2, <1>3 DEF Next

(* Who is where, what each may have in hand there, and what is on the       *)
(* queues: the invariant the other theorems start from, for any callers.   *)
THEOREM ShapeCorrect == ASSUME PutOffByOne PROVE Spec => []Shape
  BY ShapeInit, ShapeNext, PTL DEF Spec

(* However many callers there are, whatever they may do and whatever a     *)
(* text is made into, every reachable state has the declared shape: the    *)
(* thread never takes a block for a text nor a caller a mark for a count,  *)
(* and what is kept back always finds a slot when it is read out.          *)
THEOREM SynthesisTypeCorrect == ASSUME PutOffByOne PROVE Spec => []TypeOK
<1>1. Shape => TypeOK
  BY ShapeIsTyped
<1> QED
  BY <1>1, ShapeCorrect, PTL

-----------------------------------------------------------------------------
(* Stopping.                                                               *)

(* From the suspension on the application queue stays empty: it refuses,   *)
(* unless another stop has come to its end, and then the thread stands.    *)
(* From the stop of the thread's queue on nothing is on it.                *)
Cleared == {"quiesce", "turn", "reset", "recount", "reopen"}
Emptied == Cleared \ {"quiesce"}
Awaited == Emptied \ {"turn"}

Stands == inbox = <<>> /\ tpc = "idle"

StopInv ==
  /\ asking => tpc \in {"speak", "flush", "remain"}
  /\ \A c \in Callers :
       /\ pc[c] \in Cleared => /\ items = <<>> /\ held = Nothing
                               /\ closed \/ Stands
       /\ pc[c] \in Emptied => inbox = <<>>
       /\ pc[c] \in Awaited => Stands

LEMMA StopInvInit == Init => StopInv
  BY DEF Init, StopInv, Cleared, Emptied, Awaited

(* A thread that stands goes on standing, and one whose queue was emptied  *)
(* finds nothing on it.                                                    *)
LEMMA StopThread ==
  ASSUME Shape, StopInv, ThreadStep
  PROVE  StopInv'
<1>1. pc' = pc /\ held' = held /\ closed' = closed
  BY ThreadLeaves DEF callVars
<1>2. ~Stands
  BY DEF Stands, ThreadStep, TTake, TBlock, TLetGo, TFilter, TAdjust, TEnter,
         TSendSamples, TPostMark, Say, TSpoken, TFlushed, TCount, TWind, TClose,
         TRemained, TTell
<1>3. /\ inbox = <<>> => inbox' = <<>>
      /\ closed => items' = items
  <2>1. TTake => inbox # <<>> /\ items' = items
    BY DEF TTake, appVars
  <2>2. CASE ~TTake
    <3>1. inbox' = inbox
      BY <2>2 DEF ThreadStep, TBlock, TLetGo, TFilter, TAdjust, TEnter,
                  TSendSamples, TPostMark, Say, TSpoken, TFlushed, TCount, TWind,
                  TClose, TRemained, TTell
    <3>2. closed => items' = items
      BY <2>2 DEF ThreadStep, TBlock, TLetGo, TFilter, TAdjust, TEnter,
                  TSendSamples, TPostMark, Say, TSpoken, TFlushed, TCount, TWind,
                  TClose, TRemained, TTell, appVars
    <3> QED
      BY <3>1, <3>2
  <2> QED
    BY <2>1, <2>2
<1>4. asking' => tpc' \in {"speak", "flush", "remain"}
  BY DEF StopInv, ThreadStep, TTake, TBlock, TLetGo, TFilter, TAdjust, TEnter,
         TSendSamples, TPostMark, Say, TSpoken, TFlushed, TCount, TWind, TClose,
         TRemained, TTell, Done, TGoto
<1>5. ASSUME NEW c \in Callers
      PROVE  /\ pc[c] \notin Awaited
             /\ pc[c] \in Cleared => items = <<>> /\ held = Nothing /\ closed
             /\ pc[c] \in Emptied => inbox = <<>>
  BY <1>2 DEF StopInv
<1> QED
  BY <1>1, <1>3, <1>4, <1>5 DEF StopInv

(* Nobody is stopping while somebody queues.                               *)
LEMMA StopQueueing ==
  ASSUME Shape, StopInv, NEW c \in Callers,
         \A d \in Callers : d # c => pc[d] = "idle",
         NEW there \in CallerPC \ Cleared, Goto(c, there),
         UNCHANGED <<asking, tpc>>
  PROVE  StopInv'
<1>1. \A d \in Callers : pc'[d] \notin Cleared
  BY Moved DEF Shape, Sending, Cleared
<1> QED
  BY <1>1 DEF StopInv, Cleared, Emptied, Awaited

LEMMA StopPut ==
  ASSUME Shape, StopInv, NEW c \in Callers, NEW kind, NEW units,
         Put(c, kind, units), \A d \in Callers : d # c => pc[d] = "idle"
  PROVE  StopInv'
<1>1. Goto(c, "read") /\ UNCHANGED <<asking, tpc>>
  BY DEF Put
<1>2. "read" \in CallerPC \ Cleared
  BY DEF CallerPC, Cleared
<1> QED
  BY <1>1, <1>2, StopQueueing

(* The rest of a caller's steps are between places where nothing is        *)
(* queued, and leave the thread alone.                                     *)
LEMMA StopElsewhere ==
  ASSUME Shape, StopInv, NEW c \in Callers, NEW there \in CallerPC \ Cleared,
         Goto(c, there), UNCHANGED <<inbox, tpc, closed>>,
         asking' => asking, items = <<>> => items' = <<>>,
         held' # Nothing => held # Nothing
                            \/ \A d \in Callers \ {c} : pc[d] \notin Cleared
  PROVE  StopInv'
<1>1. /\ pc'[c] \notin Cleared
      /\ \A d \in Callers : d # c => pc'[d] = pc[d]
  BY Moved DEF Shape, Sending
<1> QED
  BY <1>1 DEF StopInv, Stands, Cleared, Emptied, Awaited

LEMMA StopCalls ==
  ASSUME Shape, StopInv, NEW c \in Callers,
         \/ \E call \in Calls : Ask(c, call)
         \/ Check(c) \/ Enter(c) \/ Look(c) \/ RecallPutOff(c) \/ Caught(c)
         \/ Leave(c) \/ Abort(c) \/ Interrupt(c)
  PROVE  StopInv'
<1>1. UNCHANGED <<inbox, tpc, closed, asking, items, held>>
  BY DEF Ask, Check, Enter, Look, RecallPutOff, Caught, Leave, Abort, Interrupt,
         threadVars, appVars
<1>2. PICK there \in CallerPC \ Cleared : Goto(c, there)
  <2> USE DEF CallerPC, Cleared, StopPC
  <2>1. CASE \E call \in Calls : Ask(c, call)
    BY <2>1 DEF Ask
  <2>2. CASE Check(c) \/ Enter(c)
    BY <2>2 DEF Check, Enter
  <2>3. CASE Look(c)
    BY <2>3 DEF Look
  <2>4. CASE RecallPutOff(c) \/ Caught(c) \/ Leave(c)
    BY <2>4 DEF RecallPutOff, Caught, Leave
  <2>5. CASE Abort(c) \/ Interrupt(c)
    BY <2>5 DEF Abort, Interrupt
  <2> QED
    BY <2>1, <2>2, <2>3, <2>4, <2>5
<1> QED
  BY <1>1, <1>2, StopElsewhere

LEMMA StopTaking ==
  ASSUME Shape, StopInv, PutOffByOne, NEW c \in Callers, Taking(c)
  PROVE  StopInv'
<1> USE DEF Taking
<1>1. /\ UNCHANGED <<inbox, tpc, closed>>
      /\ asking' => asking
      /\ items = <<>> => items' = <<>>
  <2>1. UNCHANGED <<inbox, tpc, closed>>
    BY DEF RecallTook, RecallAborted, Pop, Collect, CallTook, CallPutOff,
           CallAborted, threadVars, appVars
  <2>2. asking' => asking
    BY DEF RecallTook, RecallAborted, Pop, Collect, CallTook, CallPutOff,
           CallAborted, Finish
  <2>3. items = <<>> => items' = <<>>
    BY DEF RecallTook, RecallAborted, Pop, Collect, CallTook, CallPutOff,
           CallAborted, appVars
  <2> QED
    BY <2>1, <2>2, <2>3
<1>2. PICK there \in CallerPC \ Cleared : Goto(c, there)
  <2> USE DEF CallerPC, Cleared
  <2>1. CASE Pop(c)
    BY <2>1 DEF Pop
  <2>2. CASE Collect(c)
    BY <2>2 DEF Collect
  <2>3. CASE ~Pop(c) /\ ~Collect(c)
    BY <2>3 DEF RecallTook, RecallAborted, CallTook, CallPutOff, CallAborted
  <2> QED
    BY <2>1, <2>2, <2>3
<1>3. held' # Nothing => held # Nothing
                         \/ \A d \in Callers \ {c} : pc[d] \notin Cleared
  <2>1. CASE CallPutOff(c)
    <3>1. \A d \in Callers : d = c
      BY <2>1 DEF CallPutOff, PutOffByOne, OneCaller, NothingPutOff
    <3> QED
      BY <3>1
  <2>2. CASE ~CallPutOff(c)
    BY <2>2 DEF RecallTook, RecallAborted, Pop, Collect, CallTook, CallAborted,
                appVars
  <2> QED
    BY <2>1, <2>2
<1> QED
  BY <1>1, <1>2, <1>3, StopElsewhere

(* And the stop itself.                                                    *)
LEMMA StopStops ==
  ASSUME Shape, StopInv, NEW c \in Callers, AwaitTurn(c) \/ Clearing(c)
  PROVE  StopInv'
<1> USE DEF Clearing
<1>1. pc \in [Callers -> CallerPC] /\ tpc' = tpc
  BY DEF Shape, Sending, AwaitTurn, SuspendApp, Quiesce, Reset, Recount, Reopen,
         threadVars
<1>2. asking' => asking
  BY DEF AwaitTurn, SuspendApp, Quiesce, Reset, Recount, Reopen
<1>3. CASE SuspendApp(c)
  <2>1. /\ items' = <<>> /\ held' = Nothing /\ closed' = TRUE /\ inbox' = inbox
        /\ Goto(c, "quiesce")
    BY <1>3 DEF SuspendApp, threadVars
  <2> QED
    BY <1>1, <1>2, <2>1, Moved DEF StopInv, Stands, Cleared, Emptied, Awaited
<1>4. CASE Quiesce(c)
  <2>1. /\ UNCHANGED <<items, held, closed>> /\ inbox' = <<>>
        /\ Goto(c, "turn") /\ pc[c] = "quiesce"
    BY <1>4 DEF Quiesce, appVars
  <2> QED
    BY <1>1, <1>2, <2>1, Moved DEF StopInv, Stands, Cleared, Emptied, Awaited
<1>5. CASE AwaitTurn(c)
  <2>1. /\ UNCHANGED <<items, held, closed, inbox>> /\ tpc = "idle"
        /\ Goto(c, "reset") /\ pc[c] = "turn"
    BY <1>5 DEF AwaitTurn, threadVars, appVars
  <2> QED
    BY <1>1, <1>2, <2>1, Moved DEF StopInv, Stands, Cleared, Emptied, Awaited
<1>6. CASE Reset(c) \/ Recount(c)
  <2>1. /\ UNCHANGED <<items, held, closed, inbox>>
        /\ \/ pc[c] = "reset" /\ Goto(c, "recount")
           \/ pc[c] = "recount" /\ Goto(c, "reopen")
    BY <1>6 DEF Reset, Recount, threadVars, appVars
  <2> QED
    BY <1>1, <1>2, <2>1, Moved DEF StopInv, Stands, Cleared, Emptied, Awaited
<1>7. CASE Reopen(c)
  <2>1. /\ UNCHANGED <<items, held, inbox>> /\ pc[c] = "reopen"
        /\ Goto(c, "leave")
    BY <1>7 DEF Reopen, threadVars
  <2>2. Stands
    BY <2>1 DEF StopInv, Awaited, Emptied, Cleared
  <2> QED
    BY <1>1, <1>2, <2>1, <2>2, Moved DEF StopInv, Stands, Cleared, Emptied, Awaited
<1> QED
  BY <1>3, <1>4, <1>5, <1>6, <1>7

LEMMA StopSends ==
  ASSUME Shape, StopInv, NEW c \in Callers,
         \/ QueueText(c) \/ QueueMark(c) \/ QueueChange(c) \/ QueueSynthesize(c)
         \/ CommitRead(c) \/ Commit(c) \/ Reading(c)
         \/ ReadOut(c) \/ ReadOutChange(c) \/ PostWanted(c)
  PROVE  StopInv'
<1>1. CASE QueueText(c) \/ QueueMark(c) \/ QueueChange(c) \/ QueueSynthesize(c)
  <2>1. PICK kind, units : Queue(c, kind, units)
    BY <1>1 DEF QueueText, QueueMark, QueueChange, QueueSynthesize
  <2> QED
    BY <2>1, FreeAlone, StopPut DEF Queue
<1>2. CASE ReadOut(c) \/ ReadOutChange(c) \/ PostWanted(c)
  <2>1. PICK kind, units : Put(c, kind, units)
    BY <1>2 DEF ReadOut, ReadOutChange, PostWanted
  <2>2. pc[c] \in ManualPC
    BY <1>2 DEF ReadOut, ReadOutChange, PostWanted, ManualPC
  <2> QED
    BY <2>1, <2>2, ReadingAlone, StopPut
<1>3. CASE CommitRead(c) \/ Commit(c)
  <2>1. UNCHANGED <<asking, tpc>> /\ pc[c] \in Committing
    BY <1>3 DEF CommitRead, Commit, threadVars, Committing
  <2>2. PICK there \in CallerPC \ Cleared : Goto(c, there)
    BY <1>3 DEF CommitRead, Commit, CallerPC, ManualPC, Cleared
  <2> QED
    BY <2>1, <2>2, StopQueueing DEF Shape, Sending, InQueueing
<1>4. CASE Reading(c)
  <2>1. UNCHANGED <<asking, tpc>> /\ (pc[c] \in ManualPC \/ Free(c))
    BY <1>4 DEF Reading, Block, ReadOutFails, ReadOutAll, Unblock, threadVars,
                ManualPC
  <2>2. PICK there \in CallerPC \ Cleared : Goto(c, there)
    BY <1>4 DEF Reading, Block, ReadOutFails, ReadOutAll, Unblock, CallerPC,
                ManualPC, Cleared
  <2> QED
    BY <2>1, <2>2, ReadingAlone, FreeAlone, StopQueueing
<1> QED
  BY <1>1, <1>2, <1>3, <1>4

LEMMA StopNext ==
  ASSUME Shape, StopInv, PutOffByOne, [Next]_vars
  PROVE  StopInv'
<1>1. CASE ThreadStep
  BY <1>1, StopThread
<1>2. ASSUME UNCHANGED <<pc, inbox, tpc, closed, asking, items, held>>
      PROVE  StopInv'
  BY <1>2 DEF StopInv, Stands
<1>3. CASE UNCHANGED vars
  BY <1>2, <1>3 DEF vars, threadVars, appVars, callVars
<1>4. ASSUME NEW c \in Callers, CallerStart(c) \/ CallerStep(c)
      PROVE  StopInv'
  <2>1. CASE AddToManualQueue(c) \/ ClearInput(c) \/ Pause(c)
    BY <1>2, <2>1 DEF AddToManualQueue, ClearInput, Pause, threadVars, appVars,
                      callVars
  <2>2. CASE CallerStart(c) /\ ~AddToManualQueue(c) /\ ~ClearInput(c) /\ ~Pause(c)
    BY <2>2, StopSends, StopCalls DEF CallerStart, Reading
  <2>3. CASE CallerStep(c) /\ ~StopStep(c) /\ ~ManualStep(c)
    BY <2>3, StopSends, StopCalls, StopTaking DEF CallerStep, Taking
  <2>4. CASE StopStep(c)
    BY <2>4, StopCalls, StopStops DEF StopStep, Clearing
  <2>5. CASE ManualStep(c)
    BY <2>5, StopSends DEF ManualStep, Reading
  <2> QED
    BY <1>4, <2>1, <2>2, <2>3, <2>4, <2>5
<1> QED
  BY <1>1, <1>3, <1>4 DEF Next

(* Nothing gets on a queue that a stop has emptied, nor into the thread's  *)
(* hand, before that stop lets go, whoever else is in a call (stl_stop,    *)
(* stm_qtSuspend, aq_suspend).                                             *)
THEOREM StopInvCorrect == ASSUME PutOffByOne PROVE Spec => []StopInv
  BY StopInvInit, StopNext, ShapeCorrect, PTL DEF Spec

(* However many callers stop, and whatever the others are in the middle    *)
(* of: from the quiet of a stop to the end of it both queues are empty,    *)
(* nothing is put off and the thread does nothing.                         *)
THEOREM StopsAreClean == ASSUME PutOffByOne PROVE Spec => []StopIsClean
<1>1. StopInv => StopIsClean
  BY DEF StopInv, StopIsClean, Stands, Cleared, Emptied, Awaited
<1> QED
  BY <1>1, StopInvCorrect, PTL

-----------------------------------------------------------------------------
(* Holding the thread.                                                     *)

(* The blocks the thread has still to wait at, and the release the caller  *)
(* that reads out still owes.                                              *)
HasBlock == Contains(inbox, BlockMessage)
Blocks == (IF HasBlock THEN 1 ELSE 0) + (IF tpc = "block" THEN 1 ELSE 0)
ReadingOut ==
  \E c \in Callers : \/ pc[c] \in {"manual", "unblock"}
                     \/ pc[c] \in Committing /\ wanted # "none"
Owing == IF ReadingOut THEN 1 ELSE 0

OneBlock ==
  \A i, j \in 1..Len(inbox) :
    inbox[i] = BlockMessage /\ inbox[j] = BlockMessage => i = j

(* Until a stop throws a block away, the count is one for each block with  *)
(* its release gone by, and the thread is held, with its event down,       *)
(* exactly while the count is below nought.                                *)
HeldInv ==
  /\ OneBlock
  /\ ~loose => /\ blocker = Blocks - Owing
               /\ gate => tpc = "held"
               /\ tpc = "held" /\ ~gate <=> blocker < 0

LEMMA HeldInit == Init => HeldInv
<1> SUFFICES ASSUME Init PROVE HeldInv
  OBVIOUS
<1>1. inbox = <<>> /\ Len(inbox) = 0
  BY DEF Init
<1>2. OneBlock /\ ~HasBlock
  BY <1>1 DEF OneBlock, HasBlock, Contains
<1>3. ~ReadingOut
  BY DEF Init, ReadingOut, Committing
<1>4. blocker = 0 /\ ~gate /\ tpc = "idle"
  BY DEF Init
<1> QED
  BY <1>2, <1>3, <1>4 DEF HeldInv, Blocks, Owing

(* A queue that grows by something else than a block, or loses its head.   *)
LEMMA BlocksBehind ==
  ASSUME NEW q \in Seq(Queued), NEW m \in Numbered
  PROVE  /\ Contains(Append(q, m), BlockMessage) <=> Contains(q, BlockMessage)
         /\ \A i, j \in 1..Len(Append(q, m)) :
              Append(q, m)[i] = BlockMessage /\ Append(q, m)[j] = BlockMessage
                => /\ i \in 1..Len(q) /\ j \in 1..Len(q)
                   /\ q[i] = BlockMessage /\ q[j] = BlockMessage
<1>1. m \in Queued /\ m # BlockMessage
  BY BlockHasNoNumber DEF Queued
<1>2. /\ Len(q) \in Nat /\ Len(Append(q, m)) = Len(q) + 1
      /\ \A i \in 1..Len(q) : Append(q, m)[i] = q[i]
      /\ Append(q, m)[Len(q) + 1] = m
  BY <1>1, Behind
<1> QED
  BY <1>1, <1>2 DEF Contains

LEMMA BlockBehind ==
  ASSUME NEW q \in Seq(Queued), ~Contains(q, BlockMessage)
  PROVE  /\ Contains(Append(q, BlockMessage), BlockMessage)
         /\ \A i, j \in 1..Len(Append(q, BlockMessage)) :
              /\ Append(q, BlockMessage)[i] = BlockMessage
              /\ Append(q, BlockMessage)[j] = BlockMessage
              => i = j
<1>1. BlockMessage \in Queued
  BY DEF Queued
<1>2. /\ Len(q) \in Nat /\ Len(Append(q, BlockMessage)) = Len(q) + 1
      /\ \A i \in 1..Len(q) : Append(q, BlockMessage)[i] = q[i]
      /\ Append(q, BlockMessage)[Len(q) + 1] = BlockMessage
  BY <1>1, Behind
<1> QED
  BY <1>2 DEF Contains

LEMMA BlocksInFront ==
  ASSUME NEW q \in Seq(Queued), q # <<>>,
         \A i, j \in 1..Len(q) :
           q[i] = BlockMessage /\ q[j] = BlockMessage => i = j
  PROVE  /\ Contains(Tail(q), BlockMessage)
              <=> Contains(q, BlockMessage) /\ Head(q) # BlockMessage
         /\ Head(q) = BlockMessage => Contains(q, BlockMessage)
         /\ \A i, j \in 1..Len(Tail(q)) :
              Tail(q)[i] = BlockMessage /\ Tail(q)[j] = BlockMessage => i = j
<1>1. /\ Head(q) = q[1] /\ Len(q) \in Nat /\ Len(q) >= 1
      /\ Len(Tail(q)) = Len(q) - 1
      /\ \A i \in 1..Len(q) - 1 : Tail(q)[i] = q[i + 1]
  BY InFront
<1>2. \A i \in 1..Len(Tail(q)) : i + 1 \in 1..Len(q) /\ i \in Nat
  BY <1>1
<1>3. Contains(Tail(q), BlockMessage)
        => Contains(q, BlockMessage) /\ Head(q) # BlockMessage
  <2> SUFFICES ASSUME NEW i \in 1..Len(Tail(q)), Tail(q)[i] = BlockMessage
               PROVE  Contains(q, BlockMessage) /\ Head(q) # BlockMessage
    BY DEF Contains
  <2>1. q[i + 1] = BlockMessage /\ i + 1 \in 1..Len(q) /\ i + 1 # 1 /\ 1 \in 1..Len(q)
    BY <1>1, <1>2
  <2> QED
    BY <1>1, <2>1 DEF Contains
<1>4. Contains(q, BlockMessage) /\ Head(q) # BlockMessage
        => Contains(Tail(q), BlockMessage)
  <2> SUFFICES ASSUME NEW i \in 1..Len(q), q[i] = BlockMessage, i # 1
               PROVE  Contains(Tail(q), BlockMessage)
    BY <1>1 DEF Contains
  <2>1. i - 1 \in 1..Len(Tail(q)) /\ Tail(q)[i - 1] = q[i]
    BY <1>1
  <2> QED
    BY <2>1 DEF Contains
<1>5. Head(q) = BlockMessage => Contains(q, BlockMessage)
  BY <1>1 DEF Contains
<1>6. ASSUME NEW i \in 1..Len(Tail(q)), NEW j \in 1..Len(Tail(q)),
             Tail(q)[i] = BlockMessage, Tail(q)[j] = BlockMessage
      PROVE  i = j
  <2>1. q[i + 1] = BlockMessage /\ q[j + 1] = BlockMessage
        /\ i + 1 \in 1..Len(q) /\ j + 1 \in 1..Len(q)
    BY <1>1, <1>2, <1>6
  <2>2. i + 1 = j + 1
    BY <2>1
  <2> QED
    BY <1>2, <2>2
<1> QED
  BY <1>3, <1>4, <1>5, <1>6

(* A step that neither holds nor lets go.                                  *)
LEMMA HeldStill ==
  ASSUME HeldInv, OneBlock', HasBlock' <=> HasBlock,
         ReadingOut' <=> ReadingOut,
         tpc' = tpc \/ (tpc \notin {"block", "held"} /\ tpc' \notin {"block", "held"}),
         UNCHANGED <<blocker, gate>>, loose => loose'
  PROVE  HeldInv'
<1>1. Blocks' = Blocks /\ Owing' = Owing
  BY DEF Blocks, Owing
<1>2. /\ tpc' = "held" <=> tpc = "held"
      /\ ~loose' => ~loose
  OBVIOUS
<1> QED
  BY <1>1, <1>2 DEF HeldInv

LEMMA HeldThread ==
  ASSUME Shape, HeldInv, ThreadStep
  PROVE  HeldInv'
<1>1. UNCHANGED <<pc, wanted, loose>>
  BY ThreadLeaves DEF callVars
<1>2. ReadingOut' <=> ReadingOut
  BY <1>1 DEF ReadingOut
<1>3. blocker \in Int /\ inbox \in Seq(Queued)
  BY DEF Shape, Scalars, Queues
<1>4. CASE TTake
  <2>1. /\ tpc = "idle" /\ inbox # <<>> /\ run' = Head(inbox) /\ inbox' = Tail(inbox)
        /\ UNCHANGED <<blocker, gate>>
        /\ tpc' \notin {"held"}
        /\ tpc' = "block" <=> run'.kind = "block"
    BY <1>4 DEF TTake, TGoto, manualVars, semaphoreVars
  <2>2. run' \in Queued
    BY <1>3, <2>1, InFront
  <2>3. tpc' = "block" <=> Head(inbox) = BlockMessage
    BY <2>1, <2>2, BlockHasNoNumber DEF Queued
  <2>4. /\ HasBlock' <=> HasBlock /\ Head(inbox) # BlockMessage
        /\ Head(inbox) = BlockMessage => HasBlock
        /\ OneBlock'
    BY <1>3, <2>1, BlocksInFront DEF HeldInv, OneBlock, HasBlock
  <2>5. Blocks' = Blocks
    BY <2>1, <2>3, <2>4 DEF Blocks
  <2>6. Owing' = Owing
    BY <1>2 DEF Owing
  <2>7. tpc' # "held" /\ tpc # "held"
    BY <2>1
  <2> QED
    BY <1>1, <2>1, <2>4, <2>5, <2>6, <2>7 DEF HeldInv
<1>5. CASE TBlock
  <2>1. /\ tpc = "block" /\ blocker' = blocker - 1
        /\ UNCHANGED <<gate, inbox>>
        /\ IF blocker - 1 < 0 THEN tpc' = "held" ELSE tpc' = "idle"
    BY <1>5 DEF TBlock, Waits, TGoto, Done
  <2>2. Blocks' = Blocks - 1
    BY <2>1 DEF Blocks, HasBlock
  <2>3. Owing' = Owing /\ Owing \in Int /\ Blocks \in Int
    BY <1>2 DEF Owing, Blocks
  <2>4. OneBlock'
    BY <2>1 DEF HeldInv, OneBlock
  <2>5. ASSUME ~loose
        PROVE  /\ blocker' = Blocks' - Owing'
               /\ tpc' = "held" <=> blocker' < 0
               /\ ~gate
    <3>1. blocker = Blocks - Owing /\ ~gate
      BY <2>1, <2>5 DEF HeldInv
    <3>2. blocker' = Blocks' - Owing'
      BY <1>3, <2>1, <2>2, <2>3, <3>1
    <3>3. tpc' = "held" <=> blocker' < 0
      BY <2>1
    <3> QED
      BY <3>1, <3>2, <3>3
  <2> QED
    BY <1>1, <2>1, <2>4, <2>5 DEF HeldInv
<1>6. CASE TLetGo
  <2>1. /\ tpc = "held" /\ gate /\ gate' = FALSE /\ tpc' = "idle"
        /\ UNCHANGED <<blocker, inbox>>
    BY <1>6 DEF TLetGo, Done, TGoto
  <2>2. Blocks' = Blocks /\ Owing' = Owing
    BY <1>2, <2>1 DEF Blocks, Owing, HasBlock
  <2>3. OneBlock'
    BY <2>1 DEF HeldInv, OneBlock
  <2>4. ~loose => ~(blocker < 0)
    BY <2>1 DEF HeldInv
  <2> QED
    BY <1>1, <2>1, <2>2, <2>3, <2>4 DEF HeldInv
<1>7. CASE ~TTake /\ ~TBlock /\ ~TLetGo
  <2>1. UNCHANGED <<blocker, gate, inbox>>
    BY <1>7 DEF ThreadStep, TFilter, TAdjust, TEnter,
                TSendSamples, TPostMark, Say, TSpoken, TFlushed, TCount, TWind,
                TClose, TRemained, TTell, manualVars, semaphoreVars
  <2>2. tpc \notin {"block", "held"} /\ tpc' \notin {"block", "held"}
    BY <1>7 DEF ThreadStep, TFilter, TAdjust, TEnter,
                TSendSamples, TPostMark, Say, TSpoken, TFlushed, TCount, TWind,
                TClose, TRemained, TTell, TGoto, Done
  <2>3. OneBlock' /\ (HasBlock' <=> HasBlock)
    BY <2>1 DEF HeldInv, OneBlock, HasBlock
  <2> QED
    BY <1>1, <1>2, <2>1, <2>2, <2>3, HeldStill
<1> QED
  BY <1>4, <1>5, <1>6, <1>7

(* Posting what has a number.                                              *)
LEMMA HeldPut ==
  ASSUME Shape, Shape', HeldInv, NEW c \in Callers, NEW kind, NEW units,
         Put(c, kind, units),
         \A d \in Callers : d # c => pc[d] = "idle",
         ReadingOut <=> wanted' # "none"
  PROVE  HeldInv'
<1>1. /\ inbox' = Append(inbox, claimed') /\ inbox \in Seq(Queued)
      /\ Goto(c, "read")
      /\ UNCHANGED <<tpc, blocker, gate, loose>>
      /\ lock' = c
  BY DEF Put, semaphoreVars, Shape, Queues
<1>2. claimed' \in Numbered
  BY <1>1, CallerAssumption DEF Shape, Sending
<1>3. OneBlock' /\ (HasBlock' <=> HasBlock)
  BY <1>1, <1>2, BlocksBehind DEF HeldInv, OneBlock, HasBlock
<1>4. ReadingOut' <=> wanted' # "none"
  <2>1. pc'[c] = "read" /\ \A d \in Callers : d # c => pc'[d] = "idle"
    BY <1>1, Moved DEF Shape, Sending
  <2> QED
    BY <2>1 DEF ReadingOut, Committing
<1> QED
  BY <1>1, <1>3, <1>4, HeldStill

LEMMA HeldQueueing ==
  ASSUME Shape, Shape', HeldInv, NEW c \in Callers,
         \/ QueueText(c) \/ QueueMark(c) \/ QueueChange(c) \/ QueueSynthesize(c)
         \/ ReadOut(c) \/ ReadOutChange(c) \/ PostWanted(c)
  PROVE  HeldInv'
<1>1. CASE QueueText(c) \/ QueueMark(c) \/ QueueChange(c) \/ QueueSynthesize(c)
  <2>1. PICK kind, units : Queue(c, kind, units)
    BY <1>1 DEF QueueText, QueueMark, QueueChange, QueueSynthesize
  <2>2. /\ Put(c, kind, units) /\ wanted' = "none"
        /\ \A d \in Callers : pc[d] = "idle"
    BY <2>1, FreeAlone DEF Queue
  <2>3. ~ReadingOut
    BY <2>2 DEF ReadingOut, Committing
  <2> QED
    BY <2>2, <2>3, HeldPut
<1>2. CASE ReadOut(c) \/ ReadOutChange(c) \/ PostWanted(c)
  <2>1. PICK kind, units : Put(c, kind, units)
    BY <1>2 DEF ReadOut, ReadOutChange, PostWanted
  <2>2. /\ pc[c] \in ManualPC
        /\ \/ pc[c] = "manual" /\ wanted' = wanted
           \/ pc[c] = "post" /\ wanted' = "none"
    BY <1>2 DEF ReadOut, ReadOutChange, PostWanted, ManualPC
  <2>3. /\ \A d \in Callers : d # c => pc[d] = "idle"
        /\ wanted # "none"
    BY <2>2, ReadingAlone
  <2>4. ReadingOut <=> wanted' # "none"
    BY <2>2, <2>3 DEF ReadingOut, Committing
  <2> QED
    BY <2>1, <2>3, <2>4, HeldPut
<1> QED
  BY <1>1, <1>2

(* The block, and the release that answers it.                             *)
LEMMA HeldReading ==
  ASSUME Shape, Shape', HeldInv, NEW c \in Callers,
         Reading(c) \/ CommitRead(c) \/ Commit(c)
  PROVE  HeldInv'
<1>1. loose' = loose /\ tpc' = tpc /\ blocker \in Int /\ inbox \in Seq(Queued)
  BY DEF Reading, Block, ReadOutFails, ReadOutAll, Unblock, CommitRead, Commit,
         manualVars, threadVars, Shape, Scalars, Queues
<1>2. \A d \in Callers : d # c => pc[d] = "idle" /\ pc'[d] = "idle"
  <2>1. pc[c] \in InQueueing \/ Free(c)
    BY DEF Reading, Block, ReadOutFails, ReadOutAll, Unblock, CommitRead, Commit,
           InQueueing, ManualPC, Committing
  <2>2. \A d \in Callers : d # c => pc[d] = "idle"
    BY <2>1, FreeAlone DEF Shape, Sending
  <2>3. \E there : Goto(c, there)
    BY DEF Reading, Block, ReadOutFails, ReadOutAll, Unblock, CommitRead, Commit
  <2> QED
    BY <2>2, <2>3, Moved DEF Shape, Sending
<1>3. pc \in [Callers -> CallerPC]
  BY DEF Shape, Sending
<1>4. CASE Block(c)
  <2>1. /\ inbox' = Append(inbox, BlockMessage) /\ ~HasBlock
        /\ Goto(c, "manual") /\ UNCHANGED <<blocker, gate>>
        /\ pc[c] = "idle"
    BY <1>4, FreeAlone DEF Block, HasBlock, semaphoreVars
  <2>2. OneBlock' /\ HasBlock'
    BY <1>1, <2>1, BlockBehind DEF OneBlock, HasBlock
  <2>3. ~ReadingOut /\ ReadingOut'
    BY <1>2, <1>3, <2>1, Moved DEF ReadingOut, Committing
  <2>4. Blocks' = Blocks + 1 /\ Owing' = Owing + 1 /\ Blocks \in Int /\ Owing \in Int
    BY <1>1, <2>1, <2>2, <2>3 DEF Blocks, Owing
  <2>5. Blocks' - Owing' = Blocks - Owing
    BY <2>4
  <2> QED
    BY <1>1, <2>1, <2>2, <2>5 DEF HeldInv
<1>5. CASE Unblock(c)
  <2>1. /\ pc[c] = "unblock" /\ inbox' = inbox /\ blocker' = blocker + 1
        /\ gate' = (gate \/ blocker + 1 <= 0)
        /\ Goto(c, IF wanted = "none" THEN "idle" ELSE "post")
    BY <1>5 DEF Unblock, Wakes, threadVars
  <2>2. OneBlock' /\ (HasBlock' <=> HasBlock)
    BY <2>1 DEF HeldInv, OneBlock, HasBlock
  <2>3. ReadingOut /\ ~ReadingOut'
    BY <1>2, <1>3, <2>1, Moved DEF ReadingOut, Committing
  <2>4. Blocks' = Blocks /\ Owing' = Owing - 1 /\ Owing = 1
        /\ Blocks \in Nat /\ Owing \in Nat
    BY <1>1, <2>2, <2>3 DEF Blocks, Owing
  <2>5. ASSUME ~loose
        PROVE  /\ blocker' = Blocks' - Owing'
               /\ ~(blocker' < 0)
               /\ blocker + 1 <= 0 <=> blocker < 0
    <3>1. blocker = Blocks - Owing
      BY <2>5 DEF HeldInv
    <3> QED
      BY <1>1, <2>1, <2>4, <3>1
  <2>6. ASSUME ~loose
        PROVE  /\ gate' => tpc = "held"
               /\ ~(tpc = "held" /\ ~gate')
    <3>1. /\ gate => tpc = "held"
          /\ tpc = "held" /\ ~gate <=> blocker < 0
      BY <2>6 DEF HeldInv
    <3>2. gate' <=> gate \/ blocker < 0
      BY <2>1, <2>5, <2>6
    <3> QED
      BY <3>1, <3>2
  <2> QED
    BY <1>1, <2>2, <2>5, <2>6 DEF HeldInv
<1>6. CASE ReadOutFails(c) \/ ReadOutAll(c) \/ CommitRead(c) \/ Commit(c)
  <2>1. UNCHANGED <<blocker, gate, inbox>>
    BY <1>6 DEF ReadOutFails, ReadOutAll, CommitRead, Commit, manualVars,
                semaphoreVars, threadVars
  <2>2. OneBlock' /\ (HasBlock' <=> HasBlock)
    BY <2>1 DEF HeldInv, OneBlock, HasBlock
  <2>3. \/ pc[c] = "manual" /\ pc'[c] = "unblock"
        \/ /\ wanted' = wanted /\ pc[c] \in Committing
           /\ \/ pc'[c] \in Committing
              \/ wanted = "none" /\ pc'[c] = "idle"
              \/ wanted # "none" /\ pc'[c] = "manual"
    BY <1>3, <1>6, Moved DEF ReadOutFails, ReadOutAll, CommitRead, Commit,
                             manualVars, Committing
  <2>4. ReadingOut' <=> ReadingOut
    BY <1>2, <2>3 DEF ReadingOut, Committing
  <2> QED
    BY <1>1, <2>1, <2>2, <2>4, HeldStill
<1> QED
  BY <1>4, <1>5, <1>6 DEF Reading

(* Everything else happens where nobody queues.                            *)
Elsewhere(c) ==
  \/ \E call \in Calls : Ask(c, call)
  \/ Check(c) \/ Enter(c) \/ Look(c) \/ RecallPutOff(c) \/ Caught(c)
  \/ Leave(c) \/ Abort(c) \/ Interrupt(c) \/ AwaitTurn(c)
  \/ Taking(c) \/ Clearing(c)

LEMMA StaysElsewhere ==
  ASSUME Shape, NEW c \in Callers, Elsewhere(c)
  PROVE  \A d \in Callers : pc[d] \notin InQueueing /\ pc'[d] \notin InQueueing
<1> USE DEF Elsewhere, InQueueing, ManualPC, Committing
<1>1. pc \in [Callers -> CallerPC]
  BY DEF Shape, Sending
<1>2. CASE \E call \in Calls : Ask(c, call)
  <2>1. /\ lock = Nobody /\ Goto(c, "asked")
        /\ \A d \in Callers : pc[d] \notin ManualPC
    BY <1>2 DEF Ask
  <2>2. \A d \in Callers : pc[d] \notin Committing
    BY <2>1, CallerAssumption DEF Shape, Sending
  <2> QED
    BY <1>1, <2>1, <2>2, Moved
<1>3. CASE ~\E call \in Calls : Ask(c, call)
  <2>1. /\ pc[c] # "idle" /\ pc[c] \notin InQueueing
        /\ pc'[c] \notin InQueueing
        /\ \A d \in Callers : d # c => pc'[d] = pc[d]
    <3>1. CASE Check(c) \/ Enter(c) \/ Look(c) \/ RecallPutOff(c) \/ Caught(c)
      BY <1>1, <3>1, Moved DEF Check, Enter, Look, RecallPutOff, Caught
    <3>2. CASE Leave(c) \/ Abort(c) \/ Interrupt(c) \/ AwaitTurn(c)
      BY <1>1, <3>2, Moved DEF Leave, Abort, Interrupt, AwaitTurn
    <3>3. CASE RecallTook(c) \/ RecallAborted(c) \/ CallTook(c) \/ CallPutOff(c)
               \/ CallAborted(c)
      BY <1>1, <3>3, Moved DEF RecallTook, RecallAborted, CallTook, CallPutOff,
                               CallAborted
    <3>4. CASE Pop(c)
      BY <1>1, <3>4, Moved DEF Pop
    <3>5. CASE Collect(c)
      BY <1>1, <3>5, Moved DEF Collect
    <3>6. CASE Clearing(c)
      BY <1>1, <3>6, Moved DEF Clearing, SuspendApp, Quiesce, Reset, Recount, Reopen
    <3> QED
      BY <1>3, <3>1, <3>2, <3>3, <3>4, <3>5, <3>6 DEF Taking
  <2>2. \A d \in Callers : pc[d] \notin InQueueing
    BY <2>1, OtherCall
  <2> QED
    BY <2>1, <2>2
<1> QED
  BY <1>2, <1>3

(* A stop may throw a block away, and then says so.                        *)
LEMMA HeldElsewhere ==
  ASSUME Shape, HeldInv, NEW c \in Callers,
         Elsewhere(c)
  PROVE  HeldInv'
<1> USE DEF Elsewhere
<1>1. UNCHANGED <<tpc, blocker, gate>>
  BY DEF Ask, Check, Enter, Look, RecallPutOff, Caught, Leave, Abort, Interrupt,
         AwaitTurn, Taking, RecallTook, RecallAborted, Pop, Collect, CallTook,
         CallPutOff, CallAborted, Clearing, SuspendApp, Quiesce, Reset, Recount,
         Reopen, manualVars, semaphoreVars, threadVars
<1>2. ~ReadingOut /\ ~ReadingOut'
  BY StaysElsewhere DEF ReadingOut, InQueueing, ManualPC
<1>3. CASE Quiesce(c)
  <2>1. inbox' = <<>> /\ loose' = (loose \/ HasBlock)
    BY <1>3 DEF Quiesce, HasBlock
  <2>2. OneBlock' /\ ~HasBlock'
    <3>1. Len(inbox') = 0
      BY <2>1
    <3> QED
      BY <3>1 DEF OneBlock, HasBlock, Contains
  <2>3. CASE HasBlock
    BY <2>1, <2>2, <2>3 DEF HeldInv
  <2>4. CASE ~HasBlock
    BY <1>1, <1>2, <2>1, <2>2, <2>4, HeldStill
  <2> QED
    BY <2>3, <2>4
<1>4. CASE ~Quiesce(c)
  <2>1. UNCHANGED <<inbox, loose>>
    BY <1>4
       DEF Ask, Check, Enter, Look, RecallPutOff, Caught, Leave, Abort, Interrupt,
           AwaitTurn, Taking, RecallTook, RecallAborted, Pop, Collect, CallTook,
           CallPutOff, CallAborted, Clearing, SuspendApp, Reset, Recount,
           Reopen, manualVars, threadVars
  <2>2. OneBlock' /\ (HasBlock' <=> HasBlock)
    BY <2>1 DEF HeldInv, OneBlock, HasBlock
  <2> QED
    BY <1>1, <1>2, <2>1, <2>2, HeldStill
<1> QED
  BY <1>3, <1>4

LEMMA HeldNext ==
  ASSUME Shape, Shape', HeldInv, [Next]_vars
  PROVE  HeldInv'
<1>1. CASE ThreadStep
  BY <1>1, HeldThread
<1>2. ASSUME UNCHANGED <<inbox, tpc, pc, wanted, blocker, gate, loose>>
      PROVE  HeldInv'
  BY <1>2 DEF HeldInv, OneBlock, Blocks, HasBlock, Owing, ReadingOut
<1>3. CASE UNCHANGED vars
  BY <1>2, <1>3 DEF vars, threadVars, callVars, manualVars, semaphoreVars
<1>4. ASSUME NEW c \in Callers, CallerStart(c) \/ CallerStep(c)
      PROVE  HeldInv'
  <2>1. CASE AddToManualQueue(c) \/ ClearInput(c) \/ Pause(c)
    BY <1>2, <2>1 DEF AddToManualQueue, ClearInput, Pause, threadVars, callVars,
                      manualVars, semaphoreVars
  <2>2. CASE CallerStart(c) /\ ~AddToManualQueue(c) /\ ~ClearInput(c) /\ ~Pause(c)
    BY <2>2, HeldQueueing, HeldReading, HeldElsewhere
       DEF CallerStart, Reading, Elsewhere
  <2>3. CASE CallerStep(c) /\ ~ManualStep(c)
    BY <2>3, HeldReading, HeldElsewhere
       DEF CallerStep, StopStep, Elsewhere, Taking, Clearing
  <2>4. CASE ManualStep(c)
    BY <2>4, HeldQueueing, HeldReading DEF ManualStep, Reading
  <2> QED
    BY <1>4, <2>1, <2>2, <2>3, <2>4
<1> QED
  BY <1>1, <1>3, <1>4 DEF Next

(* As many releases are still to come as there are blocks, counted with    *)
(* what the semaphore has: the thread is held by the block of the reading  *)
(* that is going on, or will be (st_block, blockRun, stw_unblock).         *)
THEOREM HeldInvCorrect == ASSUME PutOffByOne PROVE Spec => []HeldInv
  BY HeldInit, HeldNext, ShapeCorrect, PTL DEF Spec

(* While a caller reads out what was kept back, the thread is held or will *)
(* be before it gets to any of it, however often that was done before and  *)
(* whether the thread had come to those blocks in time or too late - until *)
(* a stop throws a block away.                                             *)
THEOREM HeldWhileReadOut == ASSUME PutOffByOne PROVE Spec => []HeldWhileRead
<1>1. HeldInv => HeldWhileRead
  <2> SUFFICES ASSUME HeldInv, ~loose, wanted # "none",
                      NEW c \in Callers, pc[c] \in {"manual", "read", "commit"}
               PROVE  tpc \in {"block", "held"} \/ Contains(inbox, BlockMessage)
    BY DEF HeldWhileRead
  <2>1. Owing = 1
    BY DEF Owing, ReadingOut, Committing
  <2>2. CASE ~HasBlock /\ tpc # "block"
    <3>1. blocker < 0
      BY <2>1, <2>2 DEF HeldInv, Blocks
    <3> QED
      BY <3>1 DEF HeldInv
  <2> QED
    BY <2>2 DEF HasBlock
<1> QED
  BY <1>1, HeldInvCorrect, PTL

-----------------------------------------------------------------------------
(* What a queue of messages stands for.                                    *)

(* Any set of numbers has a least one: what stands in for induction.       *)
LEMMA Least ==
  ASSUME NEW T, T \subseteq Nat, T # {}
  PROVE  \E n \in T : \A m \in T : n <= m
<1> DEFINE Less == OpToRel(<, Nat)
<1>1. IsWellFoundedOn(Less, Nat)
  BY NatLessThanWellFounded
<1>2. \A m, n \in Nat : m < n => <<m, n>> \in Less
  BY DEF OpToRel
<1> HIDE DEF Less
<1>3. PICK n \in T : \A m \in T : ~(<<m, n>> \in Less)
  BY <1>1, WFMin
<1>4. \A m \in T : ~(m < n) /\ m \in Nat /\ n \in Nat
  BY <1>2, <1>3
<1> QED
  BY <1>4

(* The running totals of a queue: f[i] is what the first i stand for.      *)
Totals(q, f) ==
  f = [i \in 0..Len(q) |-> IF i = 0 THEN 0 ELSE f[i - 1] + q[i].units]

LEMMA UnitsOfIsATotal ==
  ASSUME NEW q
  PROVE  UnitsOf(q) = (CHOOSE f : Totals(q, f))[Len(q)]
  BY DEF UnitsOf, Totals

(* There is one function of totals,                                        *)
LEMMA TotalsAgree ==
  ASSUME NEW q \in Seq(Queued), NEW f, NEW g, Totals(q, f), Totals(q, g)
  PROVE  f[Len(q)] = g[Len(q)]
<1> SUFFICES ASSUME f[Len(q)] # g[Len(q)]
             PROVE  FALSE
  OBVIOUS
<1> DEFINE Differ == {i \in 0..Len(q) : f[i] # g[i]}
<1>1. Len(q) \in Nat
  OBVIOUS
<1>2. PICK n \in Differ : \A i \in Differ : n <= i
  <2>1. Differ \subseteq Nat /\ Len(q) \in Differ
    BY <1>1
  <2> HIDE DEF Differ
  <2> QED
    BY <2>1, Least
<1>3. /\ \A i \in 0..Len(q) : f[i] = IF i = 0 THEN 0 ELSE f[i - 1] + q[i].units
      /\ \A i \in 0..Len(q) : g[i] = IF i = 0 THEN 0 ELSE g[i - 1] + q[i].units
  BY DEF Totals
<1>4. n \in 0..Len(q) /\ f[n] # g[n] /\ n # 0
  BY <1>2, <1>3
<1>5. n - 1 \in 0..Len(q) /\ n - 1 < n
  BY <1>1, <1>4
<1>6. f[n - 1] = g[n - 1]
  BY <1>2, <1>5, <1>4
<1> QED
  BY <1>3, <1>4, <1>6

(* and there is one.                                                       *)
LEMMA TotalsExist ==
  ASSUME NEW q \in Seq(Queued)
  PROVE  \E f \in [0..Len(q) -> Nat] : Totals(q, f)
<1> DEFINE Has(n) == \E f \in [0..n -> Nat] :
             f = [i \in 0..n |-> IF i = 0 THEN 0 ELSE f[i - 1] + q[i].units]
           Lack == {n \in 0..Len(q) : ~Has(n)}
<1>1. Len(q) \in Nat /\ \A i \in 1..Len(q) : q[i].units \in Nat
  BY BlockHasNoNumber DEF Queued
<1>2. Has(0)
  <2> DEFINE f == [i \in 0..0 |-> 0]
  <2>1. f \in [0..0 -> Nat]
    OBVIOUS
  <2>2. f = [i \in 0..0 |-> IF i = 0 THEN 0 ELSE f[i - 1] + q[i].units]
    OBVIOUS
  <2> QED
    BY <2>1, <2>2
<1>3. ASSUME NEW n \in 1..Len(q), Has(n - 1)
      PROVE  Has(n)
  <2>1. PICK f \in [0..n - 1 -> Nat] :
          f = [i \in 0..n - 1 |-> IF i = 0 THEN 0 ELSE f[i - 1] + q[i].units]
    BY <1>3
  <2> DEFINE g == [i \in 0..n |-> IF i = n THEN f[n - 1] + q[n].units ELSE f[i]]
  <2>2. n \in Nat /\ n >= 1 /\ q[n].units \in Nat /\ f[n - 1] \in Nat
    BY <1>1
  <2>3. g \in [0..n -> Nat]
    BY <2>2
  <2>4. ASSUME NEW i \in 0..n
        PROVE  g[i] = IF i = 0 THEN 0 ELSE g[i - 1] + q[i].units
    <3>1. CASE i = n
      BY <2>2, <3>1
    <3>2. CASE i # n
      <4>1. i \in 0..n - 1 /\ (i # 0 => i - 1 \in 0..n - 1 /\ i - 1 \in 0..n /\ i - 1 # n)
        BY <2>2, <3>2
      <4>2. f[i] = IF i = 0 THEN 0 ELSE f[i - 1] + q[i].units
        BY <2>1, <4>1
      <4> QED
        BY <3>2, <4>1, <4>2
    <3> QED
      BY <3>1, <3>2
  <2>5. g = [i \in 0..n |-> IF i = 0 THEN 0 ELSE g[i - 1] + q[i].units]
    <3>1. g = [i \in 0..n |-> g[i]]
      OBVIOUS
    <3> HIDE DEF g
    <3> QED
      BY <2>4, <3>1
  <2> HIDE DEF g
  <2> QED
    BY <2>3, <2>5
<1>4. Lack = {}
  <2> SUFFICES ASSUME Lack # {} PROVE FALSE
    OBVIOUS
  <2> HIDE DEF Has
  <2>1. Lack \subseteq Nat
    BY <1>1
  <2>2. PICK n \in Lack : \A m \in Lack : n <= m
    <3> HIDE DEF Lack
    <3> QED
      BY <2>1, Least
  <2>3. n \in 1..Len(q)
    BY <1>1, <1>2, <2>2
  <2>4. n - 1 \in 0..Len(q) /\ ~(n <= n - 1)
    BY <1>1, <2>3
  <2>5. Has(n - 1)
    BY <2>2, <2>4
  <2> QED
    BY <1>3, <2>2, <2>3, <2>5
<1>5. Has(Len(q))
  <2> HIDE DEF Has
  <2> QED
    BY <1>1, <1>4
<1> QED
  BY <1>5 DEF Totals

LEMMA UnitsOfAny ==
  ASSUME NEW q \in Seq(Queued), NEW f, Totals(q, f)
  PROVE  UnitsOf(q) = f[Len(q)]
<1>1. Totals(q, CHOOSE g : Totals(q, g))
  OBVIOUS
<1> QED
  BY <1>1, UnitsOfIsATotal, TotalsAgree

LEMMA TotalsStep ==
  ASSUME NEW q \in Seq(Queued)
  PROVE  \E f \in [0..Len(q) -> Nat] :
           /\ Totals(q, f)
           /\ f[0] = 0
           /\ \A i \in 1..Len(q) : f[i] = f[i - 1] + q[i].units
           /\ UnitsOf(q) = f[Len(q)]
<1>1. PICK f \in [0..Len(q) -> Nat] : Totals(q, f)
  BY TotalsExist
<1>2. Len(q) \in Nat
  OBVIOUS
<1>3. \A i \in 0..Len(q) : f[i] = IF i = 0 THEN 0 ELSE f[i - 1] + q[i].units
  BY <1>1 DEF Totals
<1>4. f[0] = 0 /\ \A i \in 1..Len(q) : f[i] = f[i - 1] + q[i].units
  BY <1>2, <1>3
<1> QED
  BY <1>1, <1>4, UnitsOfAny

(* What they make of a queue that is empty, grows or loses its head.       *)
LEMMA UnitsOfNone == UnitsOf(<<>>) = 0
<1>1. <<>> \in Seq(Queued) /\ Len(<<>>) = 0
  OBVIOUS
<1> QED
  BY <1>1, TotalsStep

LEMMA UnitsAreCounted == ASSUME NEW q \in Seq(Queued) PROVE UnitsOf(q) \in Nat
<1>1. Len(q) \in 0..Len(q)
  OBVIOUS
<1> QED
  BY <1>1, TotalsStep

LEMMA UnitsBehind ==
  ASSUME NEW q \in Seq(Queued), NEW m \in Queued
  PROVE  UnitsOf(Append(q, m)) = UnitsOf(q) + m.units
<1> DEFINE r == Append(q, m)
<1>1. PICK f \in [0..Len(q) -> Nat] :
        /\ f[0] = 0
        /\ \A i \in 1..Len(q) : f[i] = f[i - 1] + q[i].units
        /\ UnitsOf(q) = f[Len(q)]
  BY TotalsStep
<1>2. /\ r \in Seq(Queued) /\ Len(q) \in Nat /\ Len(r) = Len(q) + 1
      /\ \A i \in 1..Len(q) : r[i] = q[i]
      /\ r[Len(q) + 1] = m
  BY Behind
<1>3. PICK g \in [0..Len(r) -> Nat] :
        /\ g[0] = 0
        /\ \A i \in 1..Len(r) : g[i] = g[i - 1] + r[i].units
        /\ UnitsOf(r) = g[Len(r)]
  BY <1>2, TotalsStep
<1> HIDE DEF r
<1>4. g[Len(q)] = f[Len(q)]
  <2> SUFFICES ASSUME g[Len(q)] # f[Len(q)] PROVE FALSE
    OBVIOUS
  <2> DEFINE Differ == {i \in 0..Len(q) : f[i] # g[i]}
  <2>1. PICK n \in Differ : \A i \in Differ : n <= i
    <3>1. Differ \subseteq Nat /\ Len(q) \in Differ
      BY <1>2
    <3> HIDE DEF Differ
    <3> QED
      BY <3>1, Least
  <2>2. n \in 1..Len(q) /\ n \in 1..Len(r)
    BY <1>1, <1>2, <1>3, <2>1
  <2>3. n - 1 \in 0..Len(q) /\ ~(n <= n - 1)
    BY <1>2, <2>2
  <2>4. f[n - 1] = g[n - 1]
    BY <2>1, <2>3
  <2> QED
    BY <1>1, <1>2, <1>3, <2>1, <2>2, <2>4
<1>5. g[Len(r)] = g[Len(q)] + m.units
  <2>1. Len(r) \in 1..Len(r) /\ Len(r) - 1 = Len(q)
    BY <1>2
  <2> QED
    BY <1>2, <1>3, <2>1
<1> QED
  BY <1>1, <1>3, <1>4, <1>5 DEF r

LEMMA UnitsInFront ==
  ASSUME NEW q \in Seq(Queued), q # <<>>
  PROVE  UnitsOf(q) = Head(q).units + UnitsOf(Tail(q))
<1> DEFINE r == Tail(q)
<1>1. PICK f \in [0..Len(q) -> Nat] :
        /\ f[0] = 0
        /\ \A i \in 1..Len(q) : f[i] = f[i - 1] + q[i].units
        /\ UnitsOf(q) = f[Len(q)]
  BY TotalsStep
<1>2. /\ r \in Seq(Queued) /\ Len(q) \in Nat /\ Len(q) >= 1
      /\ Len(r) = Len(q) - 1
      /\ \A i \in 1..Len(q) - 1 : r[i] = q[i + 1]
      /\ Head(q) = q[1] /\ Head(q) \in Queued
  BY InFront
<1> HIDE DEF r
<1> DEFINE g == [i \in 0..Len(r) |-> f[i + 1] - f[1]]
<1>3. \A i \in 0..Len(r) :
        g[i] = IF i = 0 THEN 0 ELSE g[i - 1] + r[i].units
  <2> SUFFICES ASSUME NEW i \in 0..Len(r)
               PROVE  g[i] = IF i = 0 THEN 0 ELSE g[i - 1] + r[i].units
    OBVIOUS
  <2>1. /\ i + 1 \in 1..Len(q) /\ f[i + 1] \in Nat /\ f[1] \in Nat /\ i \in Nat
        /\ i # 0 => /\ i - 1 \in 0..Len(r) /\ f[i] \in Nat /\ r[i] = q[i + 1]
                    /\ f[i + 1] = f[i] + q[i + 1].units /\ (i - 1) + 1 = i
    BY <1>1, <1>2
  <2>2. i # 0 => q[i + 1].units \in Nat
    BY <1>2, <2>1, BlockHasNoNumber DEF Queued
  <2> QED
    BY <2>1, <2>2
<1>4. Totals(r, g)
  <2>1. g = [i \in 0..Len(r) |-> g[i]]
    OBVIOUS
  <2> HIDE DEF g
  <2> QED
    BY <1>3, <2>1 DEF Totals
<1>5. UnitsOf(r) = g[Len(r)]
  BY <1>2, <1>4, UnitsOfAny
<1>6. g[Len(r)] = f[Len(q)] - f[1]
  BY <1>2
<1>7. f[1] = Head(q).units /\ f[Len(q)] \in Nat /\ f[1] \in Nat
  BY <1>1, <1>2, BlockHasNoNumber DEF Queued
<1> QED
  BY <1>1, <1>5, <1>6, <1>7 DEF r

-----------------------------------------------------------------------------
(* The count of what is outstanding.                                       *)

(* Where a text that changed its length is adjusted without the lock, a    *)
(* commit may be lost, or lose the adjustment (see the violated run).      *)
NothingRewritten == Rewritten = {}

Claimed == IF claimed = Nothing THEN 0 ELSE claimed.units
OneUnit(m) == m.kind = "synth" => m.units = 1

OwedInv ==
  /\ tpc # "adjust"
  /\ \A i \in 1..Len(inbox) : OneUnit(inbox[i])
  /\ run # Nothing => OneUnit(run)
  /\ \A c \in Callers : pc[c] = "commit" => found = pending
  /\ (\A c \in Callers : pc[c] \notin {"turn", "reset"}) =>
       pending = Outstanding - Claimed

LEMMA OwedInit == Init => OwedInv
<1> SUFFICES ASSUME Init PROVE OwedInv
  OBVIOUS
<1>1. inbox = <<>> /\ Len(inbox) = 0 /\ tpc = "idle" /\ run = Nothing
      /\ pending = 0 /\ claimed = Nothing
  BY DEF Init
<1>2. \A c \in Callers : pc[c] # "commit"
  BY DEF Init
<1> QED
  BY <1>1, <1>2, UnitsOfNone DEF OwedInv, Outstanding, RunUnits, Claimed

(* What is run stands for a number of units.                               *)
LEMMA RunCounts ==
  ASSUME Shape
  PROVE  RunUnits \in Nat /\ UnitsOf(inbox) \in Nat /\ Claimed \in Nat
<1>1. tpc # "idle" => run.units \in Nat
  BY BlockHasNoNumber DEF Shape, Running, Queued
<1>2. len \in Nat
  BY DEF Shape, Scalars
<1>3. RunUnits \in Nat
  BY <1>1, <1>2 DEF RunUnits, RunStandsFor
<1>4. UnitsOf(inbox) \in Nat
  BY UnitsAreCounted DEF Shape, Queues
<1>5. Claimed \in Nat
  BY BlockHasNoNumber DEF Shape, Sending, Claimed
<1> QED
  BY <1>3, <1>4, <1>5

(* And so it does after a step.                                            *)
LEMMA RunStillCounts ==
  ASSUME Shape'
  PROVE  RunUnits' \in Nat /\ UnitsOf(inbox') \in Nat
<1>1. /\ run' \in Queued \cup {Nothing} /\ (tpc' # "idle" => run' # Nothing)
      /\ len' \in Nat /\ inbox' \in Seq(Queued)
  BY DEF Shape, Scalars, Running, Queues
<1>2. tpc' # "idle" => run'.units \in Nat
  BY <1>1, BlockHasNoNumber DEF Queued
<1> QED
  BY <1>1, <1>2, UnitsAreCounted DEF RunUnits, RunStandsFor

LEMMA OwedThread ==
  ASSUME Shape, Shape', OwedInv, NothingRewritten, ThreadStep
  PROVE  OwedInv'
<1>1. UNCHANGED <<pc, claimed, found, lock>>
  BY ThreadLeaves DEF callVars
<1>2. /\ pending \in Int /\ RunUnits \in Nat /\ RunUnits' \in Nat
      /\ UnitsOf(inbox) \in Nat /\ UnitsOf(inbox') \in Nat
      /\ Claimed \in Nat /\ Claimed' = Claimed
  BY <1>1, RunCounts, RunStillCounts DEF Shape, Scalars, Claimed
<1>3. CASE TTake
  <2>1. /\ inbox \in Seq(Queued) /\ inbox # <<>> /\ tpc = "idle"
        /\ run' = Head(inbox) /\ inbox' = Tail(inbox) /\ pending' = pending
    BY <1>3 DEF TTake, countVars, Shape, Queues
  <2>2. /\ run' \in Queued /\ run' = inbox[1] /\ 1 \in 1..Len(inbox)
        /\ \A i \in 1..Len(inbox') : i + 1 \in 1..Len(inbox)
                                     /\ inbox'[i] = inbox[i + 1]
    BY <2>1, InFront
  <2>3. tpc' # "adjust" /\ OneUnit(run')
        /\ \A i \in 1..Len(inbox') : OneUnit(inbox'[i])
    BY <1>3, <2>2 DEF TTake, TGoto, OwedInv
  <2>4. RunUnits = 0 /\ RunUnits' = run'.units
    BY <1>3, <2>1 DEF TTake, TGoto, RunUnits, RunStandsFor
  <2>5. UnitsOf(inbox) = run'.units + UnitsOf(inbox')
    BY <2>1, UnitsInFront
  <2>6. Outstanding' = Outstanding
    BY <1>2, <2>4, <2>5 DEF Outstanding
  <2> QED
    BY <1>1, <1>2, <2>1, <2>3, <2>6 DEF OwedInv
<1>4. CASE ~TTake
  <2>1. inbox' = inbox
    BY <1>4 DEF ThreadStep, TBlock, TLetGo, TFilter, TAdjust, TEnter,
                TSendSamples, TPostMark, Say, TSpoken, TFlushed, TCount, TWind,
                TClose, TRemained, TTell
  <2>2. tpc # "idle" /\ run # Nothing /\ OneUnit(run) /\ tpc # "adjust"
    <3>1. tpc # "idle"
      BY <1>4 DEF ThreadStep, TBlock, TLetGo, TFilter, TAdjust, TEnter,
                  TSendSamples, TPostMark, Say, TSpoken, TFlushed, TCount, TWind,
                  TClose, TRemained, TTell
    <3> QED
      BY <3>1 DEF OwedInv, Shape, Running
  <2>3. /\ tpc' # "adjust" /\ (run' # Nothing => OneUnit(run'))
        /\ pending' = pending - (RunUnits - RunUnits')
        /\ pending' = pending \/ lock = Nobody
    <3>1. CASE TBlock \/ TLetGo
      <4>1. run = BlockMessage /\ tpc \in {"block", "held"}
        BY <3>1 DEF TBlock, TLetGo, Shape, Running
      <4>2. RunUnits = 0
        BY <4>1, BlockHasNoNumber DEF RunUnits, RunStandsFor
      <4>3. \/ tpc' = "idle" /\ run' = Nothing
            \/ tpc' = "held" /\ run' = run
        BY <3>1 DEF TBlock, TLetGo, TGoto, Done
      <4>4. RunUnits' = 0
        BY <4>1, <4>3, BlockHasNoNumber DEF RunUnits, RunStandsFor
      <4>5. pending' = pending
        BY <3>1 DEF TBlock, TLetGo, countVars
      <4> QED
        BY <1>2, <2>2, <4>2, <4>3, <4>4, <4>5
    <3>2. CASE TFilter
      <4>1. /\ tpc = "filter" /\ run.kind = "text" /\ run' = run
            /\ len' = run.units /\ tpc' = "enter" /\ pending' = pending
        BY <3>2 DEF TFilter, TGoto, NothingRewritten, countVars, Shape, Running
      <4>2. RunUnits = run.units /\ RunUnits' = run.units
        BY <4>1 DEF RunUnits, RunStandsFor
      <4> QED
        BY <1>2, <2>2, <4>1, <4>2
    <3>3. CASE TEnter
      <4>1. /\ tpc = "enter" /\ run.kind \in {"text", "mark"} /\ UNCHANGED <<run, len>>
            /\ tpc' \in {"speak", "count"} /\ pending' = pending
        BY <3>3 DEF TEnter, TGoto, countVars, Shape, Running
      <4>2. RunUnits' = RunUnits
        BY <4>1 DEF RunUnits, RunStandsFor
      <4> QED
        BY <1>2, <2>2, <4>1, <4>2
    <3>4. CASE TSendSamples \/ TPostMark
      <4>1. UNCHANGED <<run, len, tpc, pending>>
        BY <3>4 DEF TSendSamples, TPostMark, Say, countVars
      <4>2. RunUnits' = RunUnits
        BY <4>1 DEF RunUnits, RunStandsFor
      <4> QED
        BY <1>2, <2>2, <4>1, <4>2
    <3>5. CASE TSpoken \/ TFlushed
      <4>1. /\ UNCHANGED <<run, len, pending>>
            /\ \/ tpc = "speak" /\ tpc' = "count" /\ run.kind = "text"
               \/ tpc = "flush" /\ tpc' = "count" /\ run.kind = "change"
               \/ tpc = "flush" /\ tpc' = "close" /\ run.kind = "synth"
        BY <3>5 DEF TSpoken, TFlushed, TGoto, countVars, Shape, Running
      <4>2. RunUnits' = RunUnits
        BY <4>1 DEF RunUnits, RunStandsFor
      <4> QED
        BY <1>2, <2>2, <4>1, <4>2
    <3>6. CASE TCount
      <4>1. /\ tpc = "count" /\ lock = Nobody /\ pending' = pending - RunStandsFor
            /\ tpc' = "idle" /\ run' = Nothing /\ run.kind # "synth"
        BY <3>6 DEF TCount, Done, TGoto, Shape, Running
      <4>2. RunUnits = RunStandsFor /\ RunUnits' = 0
        BY <4>1 DEF RunUnits
      <4> QED
        BY <1>2, <4>1, <4>2
    <3>7. CASE TWind
      <4>1. /\ tpc = "wind" /\ lock = Nobody /\ pending' = pending - 1
            /\ tpc' \in {"flush", "close"} /\ run' = run /\ run.kind = "synth"
        BY <3>7 DEF TWind, TGoto, Shape, Running
      <4>2. RunUnits = 1 /\ RunUnits' = 0
        BY <2>2, <4>1 DEF RunUnits, RunStandsFor, OneUnit
      <4> QED
        BY <1>2, <2>2, <4>1, <4>2
    <3>8. CASE TClose \/ TRemained \/ TTell
      <4>1. /\ pending' = pending /\ run.kind = "synth"
            /\ tpc \in {"close", "remain", "tell"}
            /\ \/ tpc' \in {"remain", "tell"} /\ run' = run
               \/ tpc' = "idle" /\ run' = Nothing
        BY <3>8 DEF TClose, TRemained, TTell, TGoto, Done, countVars, Shape, Running
      <4>2. RunUnits = 0 /\ RunUnits' = 0
        BY <4>1 DEF RunUnits
      <4> QED
        BY <1>2, <2>2, <4>1, <4>2
    <3>9. ~TAdjust
      BY <2>2 DEF TAdjust
    <3> QED
      BY <1>4, <3>1, <3>2, <3>3, <3>4, <3>5, <3>6, <3>7, <3>8, <3>9 DEF ThreadStep
  <2>4. lock = Nobody => \A c \in Callers : pc[c] # "commit"
    BY CallerAssumption DEF Shape, Sending, Committing
  <2>5. Outstanding' - Outstanding = RunUnits' - RunUnits
        /\ Outstanding \in Int /\ Outstanding' \in Int
    BY <1>2, <2>1 DEF Outstanding
  <2>6. pending = Outstanding - Claimed => pending' = Outstanding' - Claimed'
    BY <1>2, <2>3, <2>5
  <2> QED
    BY <1>1, <2>1, <2>3, <2>4, <2>6 DEF OwedInv
<1> QED
  BY <1>3, <1>4

(* A step that counts nothing.                                             *)
LEMMA OwedStill ==
  ASSUME OwedInv, UNCHANGED <<pending, found, inbox, run, tpc, len, claimed>>,
         \A c \in Callers : pc[c] \in {"turn", "reset"} => pc'[c] \in {"turn", "reset"},
         \A c \in Callers : pc'[c] = "commit" => pc[c] = "commit"
  PROVE  OwedInv'
<1>1. Outstanding' = Outstanding /\ Claimed' = Claimed
  BY DEF Outstanding, RunUnits, RunStandsFor, Claimed
<1> QED
  BY <1>1 DEF OwedInv

LEMMA OwedPut ==
  ASSUME Shape, Shape', OwedInv, NEW c \in Callers, NEW kind, NEW units,
         Put(c, kind, units), pc[c] \notin {"turn", "reset"},
         \A d \in Callers : d # c => pc[d] = "idle",
         claimed = Nothing, kind = "synth" => units = 1
  PROVE  OwedInv'
<1>1. /\ inbox' = Append(inbox, claimed') /\ inbox \in Seq(Queued)
      /\ Goto(c, "read") /\ UNCHANGED <<tpc, run, len, pending, found>>
      /\ OneUnit(claimed') /\ lock' = c
  BY DEF Put, OneUnit, Shape, Queues
<1>2. claimed' \in Numbered /\ claimed' \in Queued /\ claimed' # Nothing
  BY <1>1, CallerAssumption DEF Shape, Sending, Queued
<1>3. /\ \A i \in 1..Len(inbox) : inbox'[i] = inbox[i]
      /\ inbox'[Len(inbox) + 1] = claimed'
      /\ Len(inbox') = Len(inbox) + 1 /\ Len(inbox) \in Nat
  BY <1>1, <1>2, Behind
<1>4. \A i \in 1..Len(inbox') : OneUnit(inbox'[i])
  <2> SUFFICES ASSUME NEW i \in 1..Len(inbox') PROVE OneUnit(inbox'[i])
    OBVIOUS
  <2>1. CASE i \in 1..Len(inbox)
    BY <1>3, <2>1 DEF OwedInv
  <2>2. CASE i = Len(inbox) + 1
    BY <1>1, <1>3, <2>2
  <2> QED
    BY <1>3, <2>1, <2>2
<1>5. UnitsOf(inbox') = UnitsOf(inbox) + claimed'.units
  BY <1>1, <1>2, UnitsBehind
<1>6. RunUnits' = RunUnits
  BY <1>1 DEF RunUnits, RunStandsFor
<1>7. Claimed = 0 /\ Claimed' = claimed'.units /\ claimed'.units \in Nat
  BY <1>2, BlockHasNoNumber DEF Claimed
<1>8. RunUnits \in Nat /\ UnitsOf(inbox) \in Nat
  BY RunCounts
<1>9. Outstanding' - Claimed' = Outstanding - Claimed
  BY <1>5, <1>6, <1>7, <1>8 DEF Outstanding
<1>10. \A d \in Callers : pc[d] \notin {"turn", "reset"} /\ pc'[d] # "commit"
  BY <1>1, Moved DEF Shape, Sending
<1> QED
  BY <1>1, <1>4, <1>9, <1>10 DEF OwedInv

LEMMA OwedQueueing ==
  ASSUME Shape, Shape', OwedInv, NEW c \in Callers,
         \/ QueueText(c) \/ QueueMark(c) \/ QueueChange(c) \/ QueueSynthesize(c)
         \/ ReadOut(c) \/ ReadOutChange(c) \/ PostWanted(c)
  PROVE  OwedInv'
<1>1. CASE QueueText(c) \/ QueueMark(c) \/ QueueChange(c) \/ QueueSynthesize(c)
  <2>1. PICK kind, units : Queue(c, kind, units) /\ (kind = "synth" => units = 1)
    BY <1>1 DEF QueueText, QueueMark, QueueChange, QueueSynthesize
  <2> QED
    BY <2>1, FreeAlone, OwedPut DEF Queue
<1>2. CASE ReadOut(c) \/ ReadOutChange(c) \/ PostWanted(c)
  <2>1. PICK kind, units : Put(c, kind, units) /\ (kind = "synth" => units = 1)
    <3>1. CASE ReadOut(c)
      <4>1. Head(manual) \in Elements /\ Put(c, Head(manual).kind, Head(manual).units)
        BY <3>1, RoomLeft, InFront DEF ReadOut
      <4>2. Head(manual).kind # "synth"
        BY <4>1 DEF Elements
      <4> QED
        BY <4>1, <4>2
    <3>2. CASE ReadOutChange(c)
      BY <3>2 DEF ReadOutChange
    <3>3. CASE PostWanted(c)
      BY <3>3 DEF PostWanted
    <3> QED
      BY <1>2, <3>1, <3>2, <3>3
  <2>2. pc[c] \in ManualPC
    BY <1>2 DEF ReadOut, ReadOutChange, PostWanted, ManualPC
  <2>3. pc[c] \notin {"turn", "reset"}
    BY <2>2 DEF ManualPC
  <2> QED
    BY <2>1, <2>2, <2>3, ReadingAlone, OwedPut
<1> QED
  BY <1>1, <1>2

LEMMA OwedCommit ==
  ASSUME Shape, OwedInv, NEW c \in Callers, CommitRead(c) \/ Commit(c)
  PROVE  OwedInv'
<1>1. /\ UNCHANGED <<inbox, run, tpc, len>>
      /\ pc[c] \in Committing /\ pc \in [Callers -> CallerPC]
  BY DEF CommitRead, Commit, threadVars, Committing, Shape, Sending
<1>2. \A d \in Callers : d # c => pc[d] = "idle"
  BY <1>1 DEF Shape, Sending, InQueueing
<1>3. \A d \in Callers : pc[d] \notin {"turn", "reset"}
  BY <1>1, <1>2 DEF Committing
<1>4. Outstanding' = Outstanding
  BY <1>1 DEF Outstanding, RunUnits, RunStandsFor
<1>5. /\ pending = Outstanding - Claimed /\ pending \in Int
      /\ RunUnits \in Nat /\ UnitsOf(inbox) \in Nat
  BY <1>3, RunCounts DEF OwedInv, Shape, Scalars
<1>6. CASE CommitRead(c)
  <2>1. UNCHANGED <<pending, claimed>> /\ found' = pending
    BY <1>6 DEF CommitRead
  <2>2. Claimed' = Claimed
    BY <2>1 DEF Claimed
  <2> QED
    BY <1>1, <1>4, <1>5, <2>1, <2>2 DEF OwedInv
<1>7. CASE Commit(c)
  <2>1. /\ found = pending /\ pending' = found + claimed.units
        /\ claimed' = Nothing /\ lock = c
        /\ Goto(c, IF wanted = "none" THEN "idle" ELSE "manual")
    BY <1>1, <1>7 DEF Commit, OwedInv, Shape, Sending
  <2>2. claimed # Nothing /\ claimed.units \in Nat
    BY <2>1, CallerAssumption, BlockHasNoNumber DEF Shape, Sending
  <2>3. Claimed = claimed.units /\ Claimed' = 0
    BY <2>1, <2>2 DEF Claimed
  <2>4. \A d \in Callers : pc'[d] # "commit"
    BY <1>1, <1>2, <2>1, Moved
  <2>5. pending' = Outstanding' - Claimed'
    BY <1>4, <1>5, <2>1, <2>2, <2>3 DEF Outstanding
  <2> QED
    BY <1>1, <2>4, <2>5 DEF OwedInv
<1> QED
  BY <1>6, <1>7

LEMMA OwedReading ==
  ASSUME Shape, OwedInv, NEW c \in Callers, Reading(c)
  PROVE  OwedInv'
<1>1. /\ UNCHANGED <<pending, found, run, tpc, len, claimed>>
      /\ pc[c] \notin {"turn", "reset"}
      /\ \E there \in {"manual", "unblock", "post", "idle"} : Goto(c, there)
      /\ pc \in [Callers -> CallerPC] /\ inbox \in Seq(Queued)
  BY DEF Reading, Block, ReadOutFails, ReadOutAll, Unblock, countVars, threadVars,
         Free, Shape, Sending, Queues
<1>2. \A d \in Callers : /\ pc'[d] = "commit" => pc[d] = "commit"
                         /\ pc[d] \in {"turn", "reset"} => pc'[d] = pc[d]
  BY <1>1, Moved
<1>3. CASE ~Block(c)
  <2>1. inbox' = inbox
    BY <1>3 DEF Reading, ReadOutFails, ReadOutAll, Unblock, threadVars
  <2> QED
    BY <1>1, <1>2, <2>1, OwedStill
<1>4. CASE Block(c)
  <2>1. inbox' = Append(inbox, BlockMessage)
    BY <1>4 DEF Block
  <2>2. BlockMessage \in Queued /\ BlockMessage.units = 0 /\ OneUnit(BlockMessage)
    BY BlockHasNoNumber DEF Queued, OneUnit
  <2>3. /\ \A i \in 1..Len(inbox) : inbox'[i] = inbox[i]
        /\ inbox'[Len(inbox) + 1] = BlockMessage
        /\ Len(inbox') = Len(inbox) + 1 /\ Len(inbox) \in Nat
    BY <1>1, <2>1, <2>2, Behind
  <2>4. \A i \in 1..Len(inbox') : OneUnit(inbox'[i])
    <3> SUFFICES ASSUME NEW i \in 1..Len(inbox') PROVE OneUnit(inbox'[i])
      OBVIOUS
    <3>1. CASE i \in 1..Len(inbox)
      BY <2>3, <3>1 DEF OwedInv
    <3>2. CASE i = Len(inbox) + 1
      BY <2>2, <2>3, <3>2
    <3> QED
      BY <2>3, <3>1, <3>2
  <2>5. UnitsOf(inbox') = UnitsOf(inbox)
    BY <1>1, <2>1, <2>2, UnitsBehind, UnitsAreCounted
  <2>6. Outstanding' = Outstanding /\ Claimed' = Claimed
    BY <1>1, <2>5 DEF Outstanding, RunUnits, RunStandsFor, Claimed
  <2> QED
    BY <1>1, <1>2, <2>4, <2>6 DEF OwedInv
<1> QED
  BY <1>3, <1>4

(* A stop leaves nothing to be counted and no count.                       *)
LEMMA OwedElsewhere ==
  ASSUME Shape, StopInv, OwedInv, NEW c \in Callers, Elsewhere(c)
  PROVE  OwedInv'
<1> USE DEF Elsewhere
<1>1. /\ UNCHANGED <<run, tpc, len, claimed, found>>
      /\ pc \in [Callers -> CallerPC]
  BY DEF Ask, Check, Enter, Look, RecallPutOff, Caught, Leave, Abort, Interrupt,
         AwaitTurn, Taking, RecallTook, RecallAborted, Pop, Collect, CallTook,
         CallPutOff, CallAborted, Clearing, SuspendApp, Quiesce, Reset, Recount,
         Reopen, threadVars, countVars, Shape, Sending
<1>2. \A d \in Callers : pc'[d] # "commit"
  BY StaysElsewhere DEF InQueueing, Committing
<1>3. \A d \in Callers : d # c => pc'[d] = pc[d]
  <2>1. \E there : Goto(c, there)
    BY DEF Ask, Check, Enter, Look, RecallPutOff, Caught, Leave, Abort, Interrupt,
           AwaitTurn, Taking, RecallTook, RecallAborted, Pop, Collect, CallTook,
           CallPutOff, CallAborted, Clearing, SuspendApp, Quiesce, Reset, Recount,
           Reopen
  <2> QED
    BY <1>1, <2>1, Moved
<1>4. CASE Quiesce(c)
  <2>1. inbox' = <<>> /\ Len(inbox') = 0 /\ pc'[c] = "turn"
    BY <1>1, <1>4, Moved DEF Quiesce
  <2> QED
    BY <1>1, <1>2, <2>1 DEF OwedInv
<1>5. CASE Reset(c)
  <2>1. pending' = 0 /\ inbox' = inbox /\ pc[c] = "reset"
    BY <1>5 DEF Reset
  <2>2. inbox = <<>> /\ tpc = "idle"
    BY <2>1 DEF StopInv, Stands, Awaited, Emptied, Cleared
  <2>3. claimed = Nothing
    <3>1. \A d \in Callers : pc[d] \notin InQueueing
      BY StaysElsewhere
    <3> QED
      BY <3>1, NobodyQueues
  <2>4. Outstanding' = 0 /\ Claimed' = 0
    BY <1>1, <2>1, <2>2, <2>3, UnitsOfNone DEF Outstanding, RunUnits, Claimed
  <2> QED
    BY <1>1, <1>2, <2>1, <2>4 DEF OwedInv
<1>6. CASE ~Quiesce(c) /\ ~Reset(c)
  <2>1. UNCHANGED <<inbox, pending>>
    BY <1>6
       DEF Ask, Check, Enter, Look, RecallPutOff, Caught, Leave, Abort, Interrupt,
           AwaitTurn, Taking, RecallTook, RecallAborted, Pop, Collect, CallTook,
           CallPutOff, CallAborted, Clearing, SuspendApp, Recount, Reopen,
           threadVars, countVars
  <2>2. pc[c] \in {"turn", "reset"} => pc'[c] = "reset"
    <3>1. CASE AwaitTurn(c)
      BY <1>1, <3>1, Moved DEF AwaitTurn
    <3>2. CASE ~AwaitTurn(c)
      BY <1>6, <3>2
         DEF Ask, Check, Enter, Look, RecallPutOff, Caught, Leave, Abort, Interrupt,
             Taking, RecallTook, RecallAborted, Pop, Collect, CallTook,
             CallPutOff, CallAborted, Clearing, SuspendApp, Recount, Reopen
    <3> QED
      BY <3>1, <3>2
  <2> QED
    BY <1>1, <1>2, <1>3, <2>1, <2>2, OwedStill
<1> QED
  BY <1>4, <1>5, <1>6

LEMMA OwedNext ==
  ASSUME Shape, Shape', StopInv, OwedInv, NothingRewritten, [Next]_vars
  PROVE  OwedInv'
<1>1. CASE ThreadStep
  BY <1>1, OwedThread
<1>2. ASSUME UNCHANGED <<pending, found, inbox, run, tpc, len, claimed, pc>>
      PROVE  OwedInv'
  BY <1>2, OwedStill
<1>3. CASE UNCHANGED vars
  BY <1>2, <1>3 DEF vars, threadVars, callVars, countVars
<1>4. ASSUME NEW c \in Callers, CallerStart(c) \/ CallerStep(c)
      PROVE  OwedInv'
  <2>1. CASE AddToManualQueue(c) \/ ClearInput(c) \/ Pause(c)
    BY <1>2, <2>1 DEF AddToManualQueue, ClearInput, Pause, threadVars, callVars,
                      countVars
  <2>2. CASE CallerStart(c) /\ ~AddToManualQueue(c) /\ ~ClearInput(c) /\ ~Pause(c)
    BY <2>2, OwedQueueing, OwedReading, OwedElsewhere
       DEF CallerStart, Reading, Elsewhere
  <2>3. CASE CallerStep(c) /\ ~ManualStep(c)
    BY <2>3, OwedCommit, OwedElsewhere
       DEF CallerStep, StopStep, Elsewhere, Taking, Clearing
  <2>4. CASE ManualStep(c)
    BY <2>4, OwedQueueing, OwedReading DEF ManualStep, Reading
  <2> QED
    BY <1>4, <2>1, <2>2, <2>3, <2>4
<1> QED
  BY <1>1, <1>3, <1>4 DEF Next

(* Where nothing changes a text's length, ST_PENDING is what is            *)
(* outstanding: the units on the thread's queue and in its hand, but for a *)
(* message posted and not yet committed, which the thread may have run     *)
(* before it is counted.                                                   *)
THEOREM PendingIsWhatIsOwed ==
  ASSUME PutOffByOne, NothingRewritten PROVE Spec => []PendingIsOwed
<1>1. OwedInv => PendingIsOwed
  BY DEF OwedInv, PendingIsOwed, Claimed
<1> QED
  BY <1>1, OwedInit, OwedNext, ShapeCorrect, StopInvCorrect, PTL DEF Spec

-----------------------------------------------------------------------------
(* What is heard, and when everything has been.                            *)

(* A synchronize does not look at what a poll's callback has put off: what *)
(* it hears is out of order where both happen.                             *)
NothingPassed == NothingPutOff \/ \A c \in Callers : "sync" \notin MayDo[c]

Spoken == {item \in Item : item.what # "count"}
Said == {m \in Numbered : m.kind \in {"text", "mark"}}

Before(A, B) == \A x \in A, y \in B : x < y

(* The numbers of those on a queue that are in P, and that they rise.      *)
Among(q, P) == {q[i].n : i \in {j \in 1..Len(q) : q[j] \in P}}
Rising(q, P) ==
  \A i, j \in 1..Len(q) : i < j /\ q[i] \in P /\ q[j] \in P => q[i].n < q[j].n

(* The last number given to a message.                                     *)
Top == IF claimed = Nothing THEN posted ELSE posted + 1

InHand == (IF held = Nothing THEN {} ELSE {held.n})
          \cup {hand[c].n : c \in {d \in Callers : pc[d] = "call"}}
Out == Among(items, Spoken)
In == Among(engine, Spoken)
Entering == IF tpc \in {"filter", "adjust", "enter"} THEN {run.n} ELSE {}
Taken == IF run \in Numbered THEN {run.n} ELSE {}
Ahead == Among(inbox, Numbered)

(* They come in the order they were queued in.                             *)
InLine ==
  /\ Rising(items, Spoken) /\ Rising(engine, Spoken) /\ Rising(inbox, Numbered)
  /\ Before(InHand, Out \cup In) /\ Before(Out, In)
  /\ Before(InHand \cup Out \cup In, Entering \cup Ahead)
  /\ Before(Taken, Ahead)
  /\ \A x \in InHand \cup Among(items, Item) \cup In \cup Taken \cup Ahead : x <= Top
  /\ \A c \in Callers : pc[c] = "collect" => hand[c].n <= Top
  /\ seen <= Top
  /\ tpc \in {"close", "remain", "tell"} => run.n <= posted
  /\ tpc = "flush" /\ run.kind = "synth" => run.n <= posted

Inside == {"look", "recall", "pop", "collect", "caught", "call", "abort",
           "leave"} \cup StopPC

Calling ==
  /\ busy => \E c \in Callers : pc[c] \in Inside
  /\ closed => \E c \in Callers : pc[c] \in StopPC
  /\ \A c \in Callers :
       /\ doing[c] = "sync" => "sync" \in MayDo[c]
       /\ pc[c] = "look" => doing[c] # "stop"
       /\ pc[c] \in {"pop", "collect", "call"} => held = Nothing
       /\ pc[c] \in {"recount", "reopen"} => engine = <<>>

Stopping ==
  \E c \in Callers :
    \/ pc[c] \in StopPC \cup {"abort"}
    \/ pc[c] \in {"asked", "enter"} /\ doing[c] = "stop"

Travelling == InHand \cup Out \cup In \cup Entering \cup Among(inbox, Said)
Owed == {due[i] : i \in Len(heard) + 1..Len(due)}

Told ==
  /\ \A i, j \in 1..Len(due) : i < j => due[i] < due[j]
  /\ Len(heard) <= Len(due)
  /\ \A i \in 1..Len(heard) : heard[i] = due[i]
  /\ ~Stopping => /\ Travelling = Owed
                  /\ \A i \in 1..Len(due) : due[i] <= Top

Quiet == engine = <<>> /\ tpc \in {"idle", "block", "held"} /\ Ahead = {}

Counted ==
  /\ \A i \in 1..Len(items) :
       items[i].what = "count" /\ items[i].n = Top => i = Len(items) /\ Quiet
  /\ \A c \in Callers :
       pc[c] = "collect" /\ hand[c].n = Top => items = <<>> /\ Quiet
  /\ seen = Top => /\ items = <<>> /\ held = Nothing /\ Quiet
                   /\ \A c \in Callers : pc[c] \notin {"call", "collect"}
  /\ tpc \in {"close", "remain", "tell"} /\ posted = run.n /\ pending = 0
       => Len(engine) <= 1 /\ (tpc = "tell" => engine = <<>>)

OrderInv == InLine /\ Calling /\ Told /\ Counted

-----------------------------------------------------------------------------
(* The numbers on a queue.                                                 *)
LEMMA AmongNone == \A P : Among(<<>>, P) = {} /\ Rising(<<>>, P)
<1>1. Len(<<>>) = 0 /\ 1..0 = {}
  OBVIOUS
<1> QED
  BY <1>1 DEF Among, Rising

LEMMA AmongBehind ==
  ASSUME NEW S, NEW q \in Seq(S), NEW a \in S, NEW P
  PROVE  /\ Among(Append(q, a), P)
              = Among(q, P) \cup (IF a \in P THEN {a.n} ELSE {})
         /\ Rising(q, P) /\ (a \in P => \A x \in Among(q, P) : x < a.n)
              => Rising(Append(q, a), P)
<1> DEFINE r == Append(q, a)
<1>1. /\ Len(q) \in Nat /\ Len(r) = Len(q) + 1
      /\ \A i \in 1..Len(q) : r[i] = q[i]
      /\ r[Len(q) + 1] = a
  BY Behind
<1> HIDE DEF r
<1>2. \A i \in 1..Len(r) : i \in 1..Len(q) \/ i = Len(q) + 1
  BY <1>1
<1>3. 1..Len(q) \subseteq 1..Len(r) /\ Len(q) + 1 \in 1..Len(r)
  BY <1>1
<1>4. Among(r, P) = Among(q, P) \cup (IF a \in P THEN {a.n} ELSE {})
  BY <1>1, <1>2, <1>3 DEF Among
<1>5. ASSUME Rising(q, P), a \in P => \A x \in Among(q, P) : x < a.n
      PROVE  Rising(r, P)
  <2> SUFFICES ASSUME NEW i \in 1..Len(r), NEW j \in 1..Len(r), i < j,
                      r[i] \in P, r[j] \in P
               PROVE  r[i].n < r[j].n
    BY DEF Rising
  <2>1. i \in 1..Len(q)
    BY <1>1
  <2>2. CASE j \in 1..Len(q)
    BY <1>1, <1>5, <2>1, <2>2 DEF Rising
  <2>3. CASE j = Len(q) + 1
    BY <1>1, <1>5, <2>1, <2>3 DEF Among
  <2> QED
    BY <1>2, <2>2, <2>3
<1> QED
  BY <1>4, <1>5 DEF r

LEMMA NotAmongBehind ==
  ASSUME NEW S, NEW q \in Seq(S), NEW a \in S, NEW P, a \notin P
  PROVE  /\ Among(Append(q, a), P) = Among(q, P)
         /\ Rising(q, P) => Rising(Append(q, a), P)
<1>1. Among(Append(q, a), P) = Among(q, P) \cup (IF a \in P THEN {a.n} ELSE {})
  BY AmongBehind
<1>2. Rising(q, P) => Rising(Append(q, a), P)
  BY AmongBehind
<1> QED
  BY <1>1, <1>2

LEMMA AmongInFront ==
  ASSUME NEW S, NEW q \in Seq(S), q # <<>>, NEW P
  PROVE  /\ Among(q, P) = Among(Tail(q), P)
                            \cup (IF Head(q) \in P THEN {Head(q).n} ELSE {})
         /\ Rising(q, P) => /\ Rising(Tail(q), P)
                            /\ Head(q) \in P =>
                                 \A x \in Among(Tail(q), P) : Head(q).n < x
<1> DEFINE r == Tail(q)
<1>1. /\ Len(q) \in Nat /\ Len(q) >= 1 /\ Len(r) = Len(q) - 1
      /\ \A i \in 1..Len(q) - 1 : r[i] = q[i + 1]
      /\ Head(q) = q[1]
  BY InFront
<1> HIDE DEF r
<1>2. \A i \in 1..Len(r) : i + 1 \in 1..Len(q) /\ 1 < i + 1 /\ r[i] = q[i + 1]
  BY <1>1
<1>3. \A i \in 1..Len(q) : i = 1 \/ (i - 1 \in 1..Len(r) /\ r[i - 1] = q[i])
  BY <1>1
<1>4. 1 \in 1..Len(q)
  BY <1>1
<1>5. Among(q, P) = Among(r, P) \cup (IF q[1] \in P THEN {q[1].n} ELSE {})
  <2>1. \A x : x \in Among(q, P) =>
                 x \in Among(r, P) \cup (IF q[1] \in P THEN {q[1].n} ELSE {})
    BY <1>3 DEF Among
  <2>2. \A x : x \in Among(r, P) => x \in Among(q, P)
    BY <1>2 DEF Among
  <2>3. q[1] \in P => q[1].n \in Among(q, P)
    BY <1>4 DEF Among
  <2> QED
    BY <2>1, <2>2, <2>3
<1>6. ASSUME Rising(q, P)
      PROVE  Rising(r, P) /\ (q[1] \in P => \A x \in Among(r, P) : q[1].n < x)
  <2>1. Rising(r, P)
    <3> SUFFICES ASSUME NEW i \in 1..Len(r), NEW j \in 1..Len(r), i < j,
                        r[i] \in P, r[j] \in P
                 PROVE  r[i].n < r[j].n
      BY DEF Rising
    <3>1. i + 1 < j + 1
      BY <1>1
    <3> QED
      BY <1>2, <1>6, <3>1 DEF Rising
  <2>2. ASSUME q[1] \in P, NEW x \in Among(r, P) PROVE q[1].n < x
    <3>1. PICK i \in 1..Len(r) : r[i] \in P /\ x = r[i].n
      BY <2>2 DEF Among
    <3> QED
      BY <1>2, <1>4, <1>6, <2>2, <3>1 DEF Rising
  <2> QED
    BY <2>1, <2>2
<1> QED
  BY <1>1, <1>5, <1>6 DEF r

(* Every number is one, and whoever is among some is among more.           *)
LEMMA AmongAre ==
  ASSUME NEW S, NEW q \in Seq(S), NEW P,
         \A a \in S \cap P : a.n \in Nat
  PROVE  /\ Among(q, P) \subseteq Nat
         /\ \A Q : P \subseteq Q => Among(q, P) \subseteq Among(q, Q)
<1>1. \A i \in 1..Len(q) : q[i] \in S
  OBVIOUS
<1>2. Among(q, P) \subseteq Nat
  BY <1>1 DEF Among
<1>3. \A Q : P \subseteq Q => Among(q, P) \subseteq Among(q, Q)
  BY DEF Among
<1> QED
  BY <1>2, <1>3

LEMMA Numbers ==
  ASSUME Shape
  PROVE  /\ Out \subseteq Nat /\ In \subseteq Nat /\ Ahead \subseteq Nat
         /\ Among(items, Item) \subseteq Nat
         /\ InHand \subseteq Nat /\ Taken \subseteq Nat /\ Entering \subseteq Taken
         /\ Out \subseteq Among(items, Item)
         /\ Among(inbox, Said) \subseteq Ahead
         /\ posted \in Nat /\ seen \in Nat /\ Top \in Nat
<1>1. /\ items \in Seq(Item) /\ engine \in Seq(Item) /\ inbox \in Seq(Queued)
      /\ posted \in Nat /\ seen \in Nat
  BY BoundAssumption DEF Shape, Queues, Scalars
<1>2. \A a \in Item : a.n \in Nat
  BY BoundAssumption DEF Item
<1>3. \A a \in Numbered : a.n \in Nat
  BY BoundAssumption DEF Numbered
<1>4. Spoken \subseteq Item /\ Said \subseteq Numbered
  BY DEF Spoken, Said
<1>5. Out \subseteq Nat /\ In \subseteq Nat /\ Among(items, Item) \subseteq Nat
      /\ Out \subseteq Among(items, Item)
  BY <1>1, <1>2, <1>4, AmongAre DEF Out, In
<1>6. Ahead \subseteq Nat /\ Among(inbox, Said) \subseteq Ahead
  BY <1>1, <1>3, <1>4, AmongAre DEF Ahead
<1>7. InHand \subseteq Nat
  <2>1. held # Nothing => held.n \in Nat
    BY <1>2 DEF Shape, Holding
  <2>2. \A c \in Callers : pc[c] = "call" => hand[c].n \in Nat
    BY <1>2 DEF Shape, Holding
  <2> QED
    BY <2>1, <2>2 DEF InHand
<1>8. Taken \subseteq Nat /\ Entering \subseteq Taken
  BY <1>3 DEF Taken, Entering, Shape, Running
<1> QED
  BY <1>1, <1>5, <1>6, <1>7, <1>8 DEF Top

LEMMA OrderInit == Init => OrderInv
<1> SUFFICES ASSUME Init PROVE OrderInv
  OBVIOUS
<1>1. /\ items = <<>> /\ engine = <<>> /\ inbox = <<>> /\ run = Nothing
      /\ tpc = "idle" /\ held = Nothing /\ due = <<>> /\ heard = <<>>
      /\ posted = 0 /\ seen = 0 /\ claimed = Nothing /\ busy = FALSE
      /\ closed = FALSE /\ \A c \in Callers : pc[c] = "idle" /\ doing[c] = "poll"
      /\ Len(due) = 0 /\ Len(heard) = 0 /\ Len(items) = 0
  BY DEF Init
<1>2. /\ Out = {} /\ In = {} /\ Ahead = {} /\ InHand = {} /\ Taken = {}
      /\ Entering = {} /\ Among(items, Item) = {} /\ Among(inbox, Said) = {}
      /\ Rising(items, Spoken) /\ Rising(engine, Spoken) /\ Rising(inbox, Numbered)
      /\ Top = 0
  BY <1>1, AmongNone, NothingIsNothing
     DEF Out, In, Ahead, InHand, Taken, Entering, Top, Queued
<1>3. InLine
  BY <1>1, <1>2 DEF InLine, Before
<1>4. Calling
  BY <1>1 DEF Calling
<1>5. Told
  <2>1. Owed = {}
    BY <1>1 DEF Owed
  <2> QED
    BY <1>1, <1>2, <2>1 DEF Told, Travelling
<1>6. Counted
  BY <1>1, <1>2 DEF Counted, Quiet
<1> QED
  BY <1>3, <1>4, <1>5, <1>6 DEF OrderInv

-----------------------------------------------------------------------------
(* The thread.                                                             *)

(* What it does is none of the callers' business.                          *)
LEMMA OrderThreadLeaves ==
  ASSUME ThreadStep, OrderInv
  PROVE  /\ UNCHANGED <<pc, doing, hand, held, busy, closed, posted, seen,
                        claimed, due, heard>>
         /\ InHand' = InHand /\ Top' = Top /\ Owed' = Owed
         /\ Stopping' <=> Stopping
         /\ ~Stopping => ~closed
<1>1. UNCHANGED <<pc, doing, hand, held, busy, closed, posted, seen, claimed, due,
                  heard>>
  BY ThreadLeaves DEF callVars, historyVars
<1>2. ~Stopping => ~closed
  BY DEF OrderInv, Calling, Stopping
<1> QED
  BY <1>1, <1>2 DEF InHand, Top, Owed, Stopping

(* A step that moves no number, and that a quiet thread takes quietly.     *)
LEMMA OrderThreadStill ==
  ASSUME Shape, OrderInv, ThreadStep,
         UNCHANGED <<items, engine, inbox>>,
         Entering' = Entering, Taken' \subseteq Taken, Quiet => Quiet',
         tpc' \in {"close", "remain", "tell"} => run'.n <= posted,
         tpc' = "flush" /\ run'.kind = "synth" => run'.n <= posted,
         tpc' \in {"close", "remain", "tell"} /\ posted = run'.n /\ pending' = 0
           => Len(engine) <= 1 /\ (tpc' = "tell" => engine = <<>>)
  PROVE  OrderInv'
<1>1. /\ Out' = Out /\ In' = In /\ Ahead' = Ahead
      /\ Among(items', Item) = Among(items, Item)
      /\ Among(inbox', Said) = Among(inbox, Said)
  BY DEF Out, In, Ahead
<1>2. InLine'
  BY <1>1, OrderThreadLeaves DEF OrderInv, InLine, Before
<1>3. Calling'
  BY OrderThreadLeaves DEF OrderInv, Calling
<1>4. Told'
  BY <1>1, OrderThreadLeaves DEF OrderInv, Told, Travelling
<1>5. Counted'
  BY OrderThreadLeaves DEF OrderInv, Counted
<1> QED
  BY <1>2, <1>3, <1>4, <1>5 DEF OrderInv

LEMMA OrderThreadSettled ==
  ASSUME Shape, OrderInv,
         \/ TBlock \/ TLetGo \/ TFilter \/ TAdjust \/ TSpoken \/ TFlushed
         \/ TCount \/ TWind \/ TClose \/ TRemained
  PROVE  OrderInv'
<1>1. ThreadStep
  BY DEF ThreadStep
<1>2. UNCHANGED <<items, engine, inbox>>
  BY DEF TBlock, TLetGo, TFilter, TAdjust, TSpoken, TFlushed, TCount, TWind, TClose,
         TRemained, appVars
<1>3. /\ run' = run \/ (run' = Nothing /\ tpc' = "idle")
      /\ tpc \in {"filter", "adjust"} =>
           run' = run /\ tpc' \in {"filter", "adjust", "enter"}
      /\ tpc \notin {"filter", "adjust"} =>
           tpc # "enter" /\ tpc' \notin {"filter", "adjust", "enter"}
  BY DEF TBlock, TLetGo, TFilter, TAdjust, TSpoken, TFlushed, TCount, TWind, TClose,
         TRemained, Done, TGoto
<1>4. Entering' = Entering
  BY <1>3 DEF Entering
<1>5. Taken' \subseteq Taken
  BY <1>3, NothingIsNothing DEF Taken, Queued
<1>6. Quiet => Quiet'
  <2> SUFFICES ASSUME Quiet PROVE Quiet'
    OBVIOUS
  <2>1. TBlock \/ TLetGo
    BY DEF Quiet, TBlock, TLetGo, TFilter, TAdjust, TSpoken, TFlushed, TCount, TWind,
           TClose, TRemained
  <2>2. tpc' \in {"idle", "held"}
    BY <2>1 DEF TBlock, TLetGo, Done, TGoto
  <2> QED
    BY <1>2, <2>2 DEF Quiet, Ahead
<1>7. /\ tpc' \in {"close", "remain", "tell"} =>
           /\ run' = run /\ run.n <= posted
           /\ posted = run.n /\ pending' = 0 =>
                Len(engine) <= 1 /\ (tpc' = "tell" => engine = <<>>)
      /\ tpc' = "flush" /\ run'.kind = "synth" => run' = run /\ run.n <= posted
  <2>1. Len(engine) \in Nat /\ engine \in Seq(Item) /\ (Len(engine) = 0 <=> engine = <<>>)
    BY Empty DEF Shape, Queues
  <2>2. CASE TWind
    <3>1. run \in Numbered /\ run.n \in Taken
      BY <2>2 DEF TWind, Shape, Running, Taken
    <3>2. run.n <= Top /\ Top = posted
      BY <2>2, <3>1 DEF TWind, OrderInv, InLine, Shape, Sending, Top
    <3> QED
      BY <2>2, <3>2 DEF TWind, TGoto
  <2>3. CASE TFlushed
    BY <2>3 DEF TFlushed, TGoto, OrderInv, InLine, Shape, Running
  <2>4. CASE TClose
    BY <2>4 DEF TClose, TGoto, countVars, OrderInv, InLine, Counted
  <2>5. CASE TRemained
    <3>1. /\ tpc = "remain" /\ Len(engine) # 1 /\ tpc' = "tell" /\ run' = run
          /\ pending' = pending
      BY <2>5 DEF TRemained, TGoto, countVars
    <3>2. run.n <= posted /\ (posted = run.n /\ pending = 0 => Len(engine) <= 1)
      BY <3>1 DEF OrderInv, InLine, Counted
    <3>3. Len(engine) <= 1 => engine = <<>>
      <4>1. \A n \in Nat : n # 1 /\ n <= 1 => n = 0
        OBVIOUS
      <4>2. Len(engine) \in Nat /\ Len(engine) # 1
        BY <2>1, <3>1, Zenon
      <4> QED
        BY <2>1, <4>1, <4>2, Zenon
    <3> QED
      BY <3>1, <3>2, <3>3
  <2>6. CASE \/ TBlock \/ TLetGo \/ TFilter \/ TAdjust \/ TSpoken \/ TCount
    BY <2>6 DEF TBlock, TLetGo, TFilter, TAdjust, TSpoken, TCount, Done, TGoto
  <2> QED
    BY <2>2, <2>3, <2>4, <2>5, <2>6
<1> QED
  BY <1>1, <1>2, <1>4, <1>5, <1>6, <1>7, OrderThreadStill

LEMMA OrderTake ==
  ASSUME Shape, OrderInv, TTake
  PROVE  OrderInv'
<1>1. ThreadStep
  BY DEF ThreadStep
<1>2. /\ inbox \in Seq(Queued) /\ inbox # <<>> /\ tpc = "idle" /\ run = Nothing
      /\ run' = Head(inbox) /\ inbox' = Tail(inbox) /\ UNCHANGED <<items, engine, pending>>
  BY DEF TTake, Shape, Queues, Running, appVars, countVars
<1>3. run' \in Queued
  BY <1>2, InFront
<1>4. /\ tpc' \in {"filter", "enter", "block", "flush", "count", "wind"}
      /\ tpc' \in {"filter", "enter"} <=> run'.kind \in {"text", "mark"}
      /\ run'.kind = "block" => tpc' = "block"
      /\ tpc' = "flush" => run'.kind = "change"
  BY DEF TTake, TGoto
<1>5. /\ run' \in Said <=> run' \in Numbered /\ run'.kind \in {"text", "mark"}
      /\ run' \notin Numbered => run' = BlockMessage /\ run'.kind = "block"
      /\ run' \in Numbered => run'.kind # "block"
  BY <1>3, BlockHasNoNumber DEF Said, Queued
<1>6. Entering = {} /\ Taken = {}
  BY <1>2, NothingIsNothing DEF Entering, Taken, Queued
<1>7. /\ Taken' = (IF run' \in Numbered THEN {run'.n} ELSE {})
      /\ Entering' = (IF run' \in Said THEN {run'.n} ELSE {})
  BY <1>4, <1>5 DEF Taken, Entering
<1>8. /\ Ahead = Ahead' \cup Taken'
      /\ Among(inbox, Said) = Among(inbox', Said) \cup Entering'
      /\ Rising(inbox', Numbered) /\ Before(Taken', Ahead')
  <2>1. Rising(inbox, Numbered)
    BY DEF OrderInv, InLine
  <2> QED
    BY <1>2, <1>7, <2>1, AmongInFront DEF Ahead, Before
<1>9. Out' = Out /\ In' = In /\ Among(items', Item) = Among(items, Item)
      /\ Entering' \subseteq Ahead
  BY <1>2, <1>7, <1>8, Numbers, <1>5 DEF Out, In, Said
<1>10. InLine'
  BY <1>2, <1>4, <1>6, <1>8, <1>9, <1>1, OrderThreadLeaves DEF OrderInv, InLine, Before
<1>11. Calling'
  BY <1>1, <1>2, OrderThreadLeaves DEF OrderInv, Calling
<1>12. Told'
  <2>1. Travelling' = Travelling
    BY <1>1, <1>6, <1>8, <1>9, OrderThreadLeaves DEF Travelling
  <2> QED
    BY <1>1, <2>1, OrderThreadLeaves DEF OrderInv, Told
<1>13. Counted'
  <2>1. Quiet => Quiet'
    BY <1>2, <1>4, <1>5, <1>7, <1>8 DEF Quiet
  <2> QED
    BY <1>1, <1>2, <1>4, <2>1, OrderThreadLeaves DEF OrderInv, Counted
<1> QED
  BY <1>10, <1>11, <1>12, <1>13 DEF OrderInv

LEMMA OrderEnter ==
  ASSUME Shape, StopInv, OrderInv, TEnter
  PROVE  OrderInv'
<1>1. ThreadStep
  BY DEF ThreadStep
<1> DEFINE a == [what |-> IF run.kind = "text" THEN "sound" ELSE "mark", n |-> run.n]
<1>2. /\ engine \in Seq(Item) /\ tpc = "enter" /\ run \in Numbered
      /\ engine' = Append(engine, a)
      /\ UNCHANGED <<items, inbox, run, pending>> /\ tpc' \in {"speak", "count"}
  BY DEF TEnter, TGoto, Shape, Queues, Running, appVars, countVars
<1>3. a \in Item /\ a \in Spoken /\ a.n = run.n
  BY <1>2, BlockHasNoNumber DEF Item, Spoken
<1> HIDE DEF a
<1>4. Taken' = Taken /\ Taken = {run.n} /\ Entering = {run.n} /\ Entering' = {}
  BY <1>2 DEF Taken, Entering
<1>5. In' = In \cup {run.n} /\ Rising(engine', Spoken)
  <2>1. Rising(engine, Spoken) /\ \A x \in In : x < run.n
    BY <1>4 DEF OrderInv, InLine, Before
  <2> QED
    BY <1>2, <1>3, <2>1, AmongBehind DEF In
<1>6. /\ Out' = Out /\ Ahead' = Ahead /\ Among(items', Item) = Among(items, Item)
      /\ Among(inbox', Said) = Among(inbox, Said)
  BY <1>2 DEF Out, Ahead
<1>7. InLine'
  <2>1. Before(InHand, Out \cup In') /\ Before(Out, In')
    BY <1>4, <1>5 DEF OrderInv, InLine, Before
  <2>2. Before(InHand \cup Out \cup In', Ahead)
    BY <1>4, <1>5 DEF OrderInv, InLine, Before
  <2>3. \A x \in In' : x <= Top
    BY <1>4, <1>5 DEF OrderInv, InLine
  <2> QED
    BY <1>1, <1>2, <1>4, <1>5, <1>6, <2>1, <2>2, <2>3, OrderThreadLeaves
       DEF OrderInv, InLine
<1>8. Calling'
  <2>1. \A c \in Callers : pc[c] \notin {"recount", "reopen"}
    BY <1>2 DEF StopInv, Stands, Awaited, Emptied, Cleared
  <2> QED
    BY <1>1, <2>1, OrderThreadLeaves DEF OrderInv, Calling
<1>9. Told'
  <2>1. Travelling' = Travelling
    BY <1>1, <1>4, <1>5, <1>6, OrderThreadLeaves DEF Travelling
  <2> QED
    BY <1>1, <2>1, OrderThreadLeaves DEF OrderInv, Told
<1>10. Counted'
  <2>1. ~Quiet
    BY <1>2 DEF Quiet
  <2> QED
    BY <1>1, <1>2, <2>1, OrderThreadLeaves DEF OrderInv, Counted
<1> QED
  BY <1>7, <1>8, <1>9, <1>10 DEF OrderInv

LEMMA OrderSay ==
  ASSUME Shape, StopInv, OrderInv, TSendSamples \/ TPostMark
  PROVE  OrderInv'
<1>1. ThreadStep
  BY DEF ThreadStep
<1> DEFINE a == Head(engine)
<1>2. /\ engine \in Seq(Item) /\ items \in Seq(Item) /\ engine # <<>>
      /\ engine' = Tail(engine)
      /\ items' = IF closed THEN items ELSE Append(items, a)
      /\ UNCHANGED <<inbox, run, tpc, pending>>
      /\ tpc \in {"speak", "flush"} \/ (tpc = "remain" /\ Len(engine) = 1)
  BY DEF TSendSamples, TPostMark, Say, Shape, Queues, countVars
<1>3. a \in Spoken /\ a \in Item
  <2>1. a \in Item /\ a.what \in {"sound", "mark"}
    BY <1>2, InFront DEF TSendSamples, TPostMark
  <2> QED
    BY <2>1 DEF Spoken
<1>4. /\ In = In' \cup {a.n} /\ Rising(engine', Spoken) /\ a.n \in In
      /\ \A x \in In' : a.n < x
  <2>1. Rising(engine, Spoken)
    BY DEF OrderInv, InLine
  <2> QED
    BY <1>2, <1>3, <2>1, AmongInFront DEF In
<1>5. Len(engine') = Len(engine) - 1 /\ Len(engine) \in Nat
      /\ (Len(engine') = 0 <=> engine' = <<>>)
  BY <1>2, InFront, Empty
<1> HIDE DEF a
<1>6. CASE closed
  <2>1. Stopping
    BY <1>6, OrderThreadLeaves, <1>1
  <2>2. items' = items /\ Out' = Out /\ Among(items', Item) = Among(items, Item)
    BY <1>2, <1>6 DEF Out
  <2>3. InLine'
    BY <1>1, <1>2, <1>4, <2>2, OrderThreadLeaves
       DEF OrderInv, InLine, Before, Entering, Taken, Ahead
  <2>4. Calling'
    <3>1. \A c \in Callers : pc[c] \notin {"recount", "reopen"}
      BY <1>2 DEF StopInv, Stands, Awaited, Emptied, Cleared
    <3> QED
      BY <1>1, <3>1, OrderThreadLeaves DEF OrderInv, Calling
  <2>5. Told'
    BY <1>1, <2>1, OrderThreadLeaves DEF OrderInv, Told
  <2>6. Counted'
    <3>1. ~Quiet
      BY <1>2 DEF Quiet
    <3> QED
      BY <1>1, <1>2, <1>5, <2>2, <3>1, OrderThreadLeaves DEF OrderInv, Counted
  <2> QED
    BY <2>3, <2>4, <2>5, <2>6 DEF OrderInv
<1>7. CASE ~closed
  <2>1. /\ items' = Append(items, a)
        /\ Len(items) \in Nat /\ Len(items') = Len(items) + 1
        /\ \A i \in 1..Len(items) : items'[i] = items[i]
        /\ items'[Len(items) + 1] = a
    BY <1>2, <1>3, <1>7, Behind
  <2>2. /\ Out' = Out \cup {a.n} /\ Rising(items', Spoken)
        /\ Among(items', Item) = Among(items, Item) \cup {a.n}
    <3>1. Rising(items, Spoken) /\ \A x \in Out : x < a.n
      BY <1>4 DEF OrderInv, InLine, Before
    <3> QED
      BY <1>2, <1>3, <2>1, <3>1, AmongBehind DEF Out
  <2>3. /\ Entering' = Entering /\ Taken' = Taken /\ Ahead' = Ahead
        /\ Among(inbox', Said) = Among(inbox, Said)
    BY <1>2 DEF Entering, Taken, Ahead
  <2>4. InLine'
    <3>1. Before(InHand, Out' \cup In') /\ Before(Out', In')
      BY <1>4, <2>2 DEF OrderInv, InLine, Before
    <3>2. Before(InHand \cup Out' \cup In', Entering \cup Ahead)
      BY <1>4, <2>2 DEF OrderInv, InLine, Before
    <3>3. \A x \in InHand \cup Among(items', Item) \cup In' : x <= Top
      BY <1>4, <2>2 DEF OrderInv, InLine
    <3> QED
      BY <1>1, <1>2, <1>4, <2>2, <2>3, <3>1, <3>2, <3>3, OrderThreadLeaves
         DEF OrderInv, InLine
  <2>5. Calling'
    <3>1. \A c \in Callers : pc[c] \notin {"recount", "reopen"}
      BY <1>2 DEF StopInv, Stands, Awaited, Emptied, Cleared
    <3> QED
      BY <1>1, <3>1, OrderThreadLeaves DEF OrderInv, Calling
  <2>6. Told'
    <3>1. Travelling' = Travelling
      BY <1>1, <1>4, <2>2, <2>3, OrderThreadLeaves DEF Travelling
    <3> QED
      BY <1>1, <3>1, OrderThreadLeaves DEF OrderInv, Told
  <2>7. Counted'
    <3>1. ~Quiet /\ a.what # "count"
      BY <1>2, <1>3 DEF Quiet, Spoken
    <3>2. \A i \in 1..Len(items') :
            items'[i].what = "count" => items'[i].n # Top
      <4> SUFFICES ASSUME NEW i \in 1..Len(items'), items'[i].what = "count"
                   PROVE  items'[i].n # Top
        OBVIOUS
      <4>1. i \in 1..Len(items) /\ items'[i] = items[i]
        BY <2>1, <3>1
      <4> QED
        BY <3>1, <4>1 DEF OrderInv, Counted
    <3> QED
      BY <1>1, <1>2, <1>5, <3>1, <3>2, OrderThreadLeaves DEF OrderInv, Counted
  <2> QED
    BY <2>4, <2>5, <2>6, <2>7 DEF OrderInv
<1> QED
  BY <1>6, <1>7

LEMMA OrderTell ==
  ASSUME Shape, OrderInv, TTell
  PROVE  OrderInv'
<1>1. ThreadStep
  BY DEF ThreadStep
<1> DEFINE a == [what |-> "count", n |-> run.n]
<1>2. /\ items \in Seq(Item) /\ tpc = "tell" /\ lock = Nobody /\ run \in Numbered
      /\ \/ items' = items
         \/ items' = Append(items, a) /\ pending = 0
      /\ UNCHANGED <<inbox, engine, pending>> /\ tpc' = "idle" /\ run' = Nothing
  BY DEF TTell, Done, TGoto, Shape, Queues, Running, countVars
<1>3. a \in Item /\ a \notin Spoken /\ a.n = run.n /\ a.what = "count"
  BY <1>2, BlockHasNoNumber DEF Item, Spoken
<1> HIDE DEF a
<1>4. run.n \in Taken /\ run.n <= posted /\ Top = posted /\ run.n \in Nat
  <2>1. run.n \in Taken /\ run.n <= posted /\ Top = posted
    BY <1>2 DEF Taken, OrderInv, InLine, Shape, Sending, Top
  <2> QED
    BY <2>1, Numbers
<1>5. /\ Entering = {} /\ Entering' = {} /\ Taken' = {} /\ In' = In /\ Ahead' = Ahead
      /\ Among(inbox', Said) = Among(inbox, Said)
  BY <1>2, NothingIsNothing DEF Entering, Taken, In, Ahead, Queued
<1>6. /\ Out' = Out /\ Rising(items', Spoken)
      /\ Among(items', Item) \subseteq Among(items, Item) \cup {run.n}
  <2>1. Rising(items, Spoken)
    BY DEF OrderInv, InLine
  <2>2. CASE items' = items
    BY <2>1, <2>2 DEF Out
  <2>3. CASE items' = Append(items, a)
    <3>1. Among(items', Item) = Among(items, Item) \cup {run.n}
      BY <1>2, <1>3, <2>3, AmongBehind
    <3>2. Among(items', Spoken) = Among(items, Spoken) /\ Rising(items', Spoken)
      BY <1>2, <1>3, <2>1, <2>3, NotAmongBehind
    <3> QED
      BY <3>1, <3>2 DEF Out
  <2> QED
    BY <1>2, <2>2, <2>3
<1>7. InLine'
  <2>1. \A x \in InHand \cup Among(items', Item) \cup In \cup Ahead : x <= Top
    BY <1>4, <1>6 DEF OrderInv, InLine
  <2> QED
    BY <1>1, <1>2, <1>5, <1>6, <2>1, OrderThreadLeaves DEF OrderInv, InLine, Before
<1>8. Calling'
  BY <1>1, <1>2, OrderThreadLeaves DEF OrderInv, Calling
<1>9. Told'
  <2>1. Travelling' = Travelling
    BY <1>1, <1>5, <1>6, OrderThreadLeaves DEF Travelling
  <2> QED
    BY <1>1, <2>1, OrderThreadLeaves DEF OrderInv, Told
<1>10. Counted'
  <2>1. ~Quiet
    BY <1>2 DEF Quiet
  <2>2. CASE items' = items
    BY <1>1, <1>2, <2>1, <2>2, OrderThreadLeaves DEF OrderInv, Counted
  <2>3. CASE items' = Append(items, a) /\ pending = 0
    <3>1. /\ Len(items) \in Nat /\ Len(items') = Len(items) + 1
          /\ \A i \in 1..Len(items) : items'[i] = items[i]
          /\ items'[Len(items) + 1] = a
      BY <1>2, <1>3, <2>3, Behind
    <3>2. ASSUME run.n = Top PROVE Quiet'
      <4>1. engine = <<>>
        BY <1>2, <1>4, <2>3, <3>2 DEF OrderInv, Counted
      <4>2. Ahead = {}
        BY <1>4, <3>2, Numbers DEF OrderInv, InLine, Before
      <4> QED
        BY <1>2, <1>5, <4>1, <4>2 DEF Quiet
    <3>3. ASSUME NEW i \in 1..Len(items'), items'[i].what = "count", items'[i].n = Top
          PROVE  i = Len(items') /\ Quiet'
      <4>1. i \notin 1..Len(items)
        BY <2>1, <3>1, <3>3 DEF OrderInv, Counted
      <4>2. i = Len(items) + 1
        BY <3>1, <4>1
      <4> QED
        BY <1>3, <3>1, <3>2, <3>3, <4>2
    <3> QED
      BY <1>1, <1>2, <2>1, <3>3, OrderThreadLeaves DEF OrderInv, Counted
  <2> QED
    BY <1>2, <2>2, <2>3
<1> QED
  BY <1>7, <1>8, <1>9, <1>10 DEF OrderInv

LEMMA OrderThread ==
  ASSUME Shape, StopInv, OrderInv, ThreadStep
  PROVE  OrderInv'
  BY OrderThreadSettled, OrderTake, OrderEnter, OrderSay, OrderTell DEF ThreadStep

-----------------------------------------------------------------------------
(* The one caller.                                                         *)

(* Where it goes from and to.                                              *)
LEMMA OnlyMoved ==
  ASSUME Shape, OneCaller, NEW c \in Callers, NEW there, Goto(c, there)
  PROVE  pc'[c] = there /\ \A d \in Callers : d = c
  BY Moved DEF Shape, Sending, OneCaller

LEMMA OneHand ==
  ASSUME OneCaller, NEW c \in Callers
  PROVE  \A h, p : {h[d].n : d \in {e \in Callers : p[e] = "call"}}
                     = IF p[c] = "call" THEN {h[c].n} ELSE {}
  BY DEF OneCaller

(* Outside a call nothing is busy and nothing suspended.                   *)
LEMMA CallingOutside ==
  ASSUME Calling, OneCaller, NEW c \in Callers, pc[c] \notin Inside
  PROVE  ~busy /\ ~closed
<1>1. \A d \in Callers : d = c
  BY DEF OneCaller
<1> QED
  BY <1>1 DEF Calling, Inside

LEMMA CallingStays ==
  ASSUME Shape, OneCaller, Calling, NEW c \in Callers,
         pc[c] \notin Inside, pc'[c] \notin Inside,
         UNCHANGED <<busy, closed, held>>,
         doing' = doing \/ (doing'[c] = "sync" => "sync" \in MayDo[c])
  PROVE  Calling'
<1>1. \A d \in Callers : d = c
  BY DEF OneCaller
<1>2. ~busy /\ ~closed
  BY <1>1 DEF Calling, Inside
<1> QED
  BY <1>1, <1>2 DEF Calling, Inside, StopPC

LEMMA CallingQueueing ==
  ASSUME Shape, OneCaller, Calling, NEW c \in Callers,
         \/ QueueText(c) \/ QueueMark(c) \/ QueueChange(c) \/ QueueSynthesize(c)
         \/ ReadOut(c) \/ ReadOutChange(c) \/ PostWanted(c)
         \/ AddToManualQueue(c) \/ ClearInput(c) \/ Pause(c)
         \/ CommitRead(c) \/ Commit(c) \/ Reading(c)
         \/ Check(c) \/ \E call \in Calls : Ask(c, call)
  PROVE  Calling'
<1> USE DEF Inside, StopPC
<1>1. CASE QueueText(c) \/ QueueMark(c) \/ QueueChange(c) \/ QueueSynthesize(c)
           \/ ReadOut(c) \/ ReadOutChange(c) \/ PostWanted(c)
  <2>1. PICK kind, units : Put(c, kind, units)
    BY <1>1 DEF QueueText, QueueMark, QueueChange, QueueSynthesize, Queue, ReadOut,
                ReadOutChange, PostWanted
  <2>2. pc[c] \in {"idle", "manual", "post"}
    BY <1>1 DEF QueueText, QueueMark, QueueChange, QueueSynthesize, Queue, Free,
                ReadOut, ReadOutChange, PostWanted
  <2>3. pc'[c] = "read" /\ UNCHANGED <<busy, closed, held, doing>>
    BY <2>1, OnlyMoved DEF Put, appVars
  <2> QED
    BY <2>2, <2>3, CallingStays
<1>2. CASE AddToManualQueue(c) \/ ClearInput(c) \/ Pause(c)
  <2>1. pc[c] = "idle" /\ UNCHANGED <<pc, busy, closed, held, doing>>
    BY <1>2 DEF AddToManualQueue, ClearInput, Pause, Free, callVars, appVars
  <2> QED
    BY <2>1, CallingStays
<1>3. CASE CommitRead(c) \/ Commit(c) \/ Reading(c)
  <2>1. /\ pc[c] \in {"idle", "manual", "unblock", "read", "commit"}
        /\ \E there \in {"manual", "unblock", "idle", "commit", "post"} : Goto(c, there)
        /\ UNCHANGED <<busy, closed, held, doing>>
    BY <1>3 DEF CommitRead, Commit, Reading, Block, ReadOutFails, ReadOutAll,
                Unblock, Free, appVars
  <2>2. pc'[c] \in {"manual", "unblock", "idle", "commit", "post"}
    BY <2>1, OnlyMoved
  <2> QED
    BY <2>1, <2>2, CallingStays
<1>4. CASE Check(c)
  <2>1. /\ pc[c] = "asked" /\ \E there \in {"idle", "enter"} : Goto(c, there)
        /\ UNCHANGED <<busy, closed, held, doing>>
    BY <1>4 DEF Check, appVars
  <2>2. pc'[c] \in {"idle", "enter"}
    BY <2>1, OnlyMoved
  <2> QED
    BY <2>1, <2>2, CallingStays
<1>5. CASE \E call \in Calls : Ask(c, call)
  <2>1. PICK call \in Calls : Ask(c, call)
    BY <1>5
  <2>2. /\ pc[c] = "idle" /\ Goto(c, "asked") /\ UNCHANGED <<busy, closed, held>>
        /\ call \in MayDo[c] /\ doing' = [doing EXCEPT ![c] = call]
    BY <2>1 DEF Ask, appVars
  <2>3. pc'[c] = "asked" /\ doing'[c] = call
    BY <2>2, OnlyMoved DEF Shape, Scalars
  <2> QED
    BY <2>2, <2>3, CallingStays
<1> QED
  BY <1>1, <1>2, <1>3, <1>4, <1>5

(* Between the way in and the way out.                                     *)
LEMMA CallingInside ==
  ASSUME Shape, OneCaller, NothingPassed, Calling, NEW c \in Callers,
         \/ Enter(c) \/ Look(c) \/ RecallPutOff(c) \/ Caught(c) \/ Leave(c)
         \/ Abort(c) \/ Interrupt(c) \/ AwaitTurn(c) \/ Taking(c) \/ Clearing(c)
  PROVE  Calling'
<1>1. \A d \in Callers : d = c
  BY DEF OneCaller
<1>2. /\ busy => pc[c] \in Inside
      /\ closed => pc[c] \in StopPC
      /\ doing[c] = "sync" => "sync" \in MayDo[c]
      /\ pc[c] = "look" => doing[c] # "stop"
      /\ pc[c] \in {"pop", "collect", "call"} => held = Nothing
      /\ pc[c] \in {"recount", "reopen"} => engine = <<>>
  BY <1>1 DEF Calling
<1>3. ASSUME busy' => pc'[c] \in Inside, closed' => pc'[c] \in StopPC,
             doing'[c] = "sync" => "sync" \in MayDo[c],
             pc'[c] = "look" => doing'[c] # "stop",
             pc'[c] \in {"pop", "collect", "call"} => held' = Nothing,
             pc'[c] \in {"recount", "reopen"} => engine' = <<>>
      PROVE  Calling'
  BY <1>1, <1>3 DEF Calling
<1> USE DEF Inside, StopPC
<1>4. CASE Enter(c)
  <2>1. pc[c] = "enter" /\ UNCHANGED <<doing, closed>>
        /\ Goto(c, IF doing[c] = "stop" THEN "interrupt" ELSE "look")
    BY <1>4 DEF Enter, appVars
  <2> QED
    BY <1>2, <1>3, <2>1, OnlyMoved
<1>5. CASE Look(c)
  <2>1. /\ pc[c] = "look" /\ UNCHANGED <<doing, closed, held, busy>>
        /\ Goto(c, IF stopping \/ posted = seen THEN "leave"
                   ELSE IF doing[c] = "poll" /\ held # Nothing THEN "recall"
                   ELSE "pop")
    BY <1>5 DEF Look, appVars
  <2>2. pc'[c] \in {"leave", "recall", "pop"}
        /\ (pc'[c] = "pop" => doing[c] # "poll" \/ held = Nothing)
    BY <2>1, OnlyMoved
  <2>3. doing[c] = "sync" => held = Nothing
    BY <1>2 DEF NothingPassed, Shape, Holding
  <2>4. doing[c] \in {"poll", "sync", "stop"}
    BY DEF Shape, Scalars, Calls
  <2> QED
    BY <1>2, <1>3, <2>1, <2>2, <2>3, <2>4
<1>6. CASE RecallPutOff(c) \/ Caught(c) \/ Leave(c)
  <2>1. /\ pc[c] \notin StopPC /\ UNCHANGED <<doing, closed>>
        /\ \/ Goto(c, "leave")
           \/ Goto(c, "idle") /\ busy' = FALSE
    BY <1>6 DEF RecallPutOff, Caught, Leave, appVars
  <2> QED
    BY <1>2, <1>3, <2>1, OnlyMoved
<1>7. CASE Abort(c)
  <2>1. /\ pc[c] = "abort" /\ UNCHANGED closed /\ Goto(c, "asked")
        /\ busy' = FALSE /\ doing' = [doing EXCEPT ![c] = "stop"]
    BY <1>7 DEF Abort, appVars
  <2>2. doing'[c] = "stop"
    BY <2>1 DEF Shape, Scalars
  <2> QED
    BY <1>2, <1>3, <2>1, <2>2, OnlyMoved
<1>8. CASE Interrupt(c) \/ AwaitTurn(c) \/ SuspendApp(c) \/ Quiesce(c)
  <2>1. /\ UNCHANGED doing
        /\ \E there \in {"suspend", "reset", "quiesce", "turn"} : Goto(c, there)
    BY <1>8 DEF Interrupt, AwaitTurn, SuspendApp, Quiesce
  <2> QED
    BY <1>2, <1>3, <2>1, OnlyMoved
<1>9. CASE Reset(c) \/ Recount(c)
  <2>1. /\ UNCHANGED doing /\ engine' = <<>>
        /\ \E there \in {"recount", "reopen"} : Goto(c, there)
    BY <1>2, <1>9 DEF Reset, Recount, threadVars
  <2> QED
    BY <1>2, <1>3, <2>1, OnlyMoved
<1>10. CASE Reopen(c)
  <2>1. UNCHANGED doing /\ closed' = FALSE /\ Goto(c, "leave")
    BY <1>10 DEF Reopen
  <2> QED
    BY <1>2, <1>3, <2>1, OnlyMoved
<1>11. CASE RecallTook(c) \/ RecallAborted(c) \/ CallPutOff(c) \/ CallAborted(c)
  <2>1. /\ pc[c] \in {"recall", "call"} /\ UNCHANGED <<doing, closed, busy>>
        /\ \E there \in {"leave", "abort"} : Goto(c, there)
    BY <1>11 DEF RecallTook, RecallAborted, CallPutOff, CallAborted, appVars
  <2> QED
    BY <1>2, <1>3, <2>1, OnlyMoved
<1>12. CASE Pop(c) \/ Collect(c) \/ CallTook(c)
  <2>1. /\ pc[c] \in {"pop", "collect", "call"} /\ UNCHANGED <<doing, closed, busy, held>>
        /\ \E there \in {"leave", "collect", "call", "pop", "caught"} : Goto(c, there)
    BY <1>12 DEF Pop, Collect, CallTook, appVars
  <2> QED
    BY <1>2, <1>3, <2>1, OnlyMoved
<1> QED
  BY <1>4, <1>5, <1>6, <1>7, <1>8, <1>9, <1>10, <1>11, <1>12 DEF Taking, Clearing

(* A step that moves no number.                                            *)
LEMMA OrderStill ==
  ASSUME OrderInv, Calling',
         UNCHANGED <<items, engine, inbox, run, tpc, posted, seen, claimed, held,
                     hand, due, heard, pending>>,
         \A d \in Callers : /\ pc'[d] = "call" <=> pc[d] = "call"
                            /\ pc'[d] = "collect" => pc[d] = "collect",
         Stopping => Stopping'
  PROVE  OrderInv'
<1>1. /\ Out' = Out /\ In' = In /\ Ahead' = Ahead /\ Taken' = Taken
      /\ Entering' = Entering /\ InHand' = InHand
      /\ Top' = Top /\ Owed' = Owed
      /\ Quiet' = Quiet
  BY DEF Out, In, Ahead, Taken, Entering, InHand, Top, Owed, Quiet
<1>2. InLine'
  BY <1>1 DEF OrderInv, InLine, Before
<1>3. Told'
  BY <1>1 DEF OrderInv, Told, Travelling
<1>4. Counted'
  BY <1>1 DEF OrderInv, Counted
<1> QED
  BY <1>2, <1>3, <1>4 DEF OrderInv

LEMMA OrderPut ==
  ASSUME Shape, OrderInv, OneCaller, NEW c \in Callers, NEW kind, NEW units,
         Put(c, kind, units), pc[c] \in {"idle", "manual", "post"},
         claimed = Nothing, claimed' \in Numbered, Calling'
  PROVE  OrderInv'
<1>1. /\ inbox \in Seq(Queued) /\ due \in Seq(1..MaxPosted)
      /\ inbox' = Append(inbox, claimed') /\ Goto(c, "read")
      /\ claimed'.n = posted + 1 /\ claimed'.kind = kind
      /\ due' = IF kind \in {"text", "mark"} THEN Append(due, posted + 1) ELSE due
      /\ UNCHANGED <<items, engine, run, tpc, posted, seen, held, hand, heard, pending,
                     doing>>
  BY DEF Put, Claim, Shape, Queues, appVars
<1>2. pc'[c] = "read" /\ \A d \in Callers : d = c
  BY <1>1, OnlyMoved
<1>3. /\ Top = posted /\ Top' = posted + 1 /\ claimed' \in Queued
      /\ posted \in Nat /\ posted + 1 \in 1..MaxPosted
  BY Numbers, NothingIsNothing, <1>1 DEF Top, Queued, Numbered
<1>4. InHand' = InHand
  BY <1>1, <1>2, OneHand DEF InHand
<1>5. /\ Out' = Out /\ In' = In /\ Taken' = Taken /\ Entering' = Entering
      /\ Among(items', Item) = Among(items, Item)
  BY <1>1 DEF Out, In, Taken, Entering
<1>6. \A x \in InHand \cup Among(items, Item) \cup Out \cup In \cup Taken \cup Ahead :
        x \in Nat /\ x < posted + 1
  BY <1>3, Numbers DEF OrderInv, InLine
<1>7. /\ Ahead' = Ahead \cup {posted + 1} /\ Rising(inbox', Numbered)
  <2>1. Rising(inbox, Numbered) /\ \A x \in Ahead : x < posted + 1
    BY <1>6 DEF OrderInv, InLine
  <2> QED
    BY <1>1, <1>3, <2>1, AmongBehind DEF Ahead
<1>8. Among(inbox', Said) = Among(inbox, Said)
                              \cup (IF kind \in {"text", "mark"} THEN {posted + 1} ELSE {})
  <2>1. claimed' \in Said <=> kind \in {"text", "mark"}
    BY <1>1 DEF Said
  <2> QED
    BY <1>1, <1>3, <2>1, AmongBehind
<1>9. InLine'
  <2>1. Before(InHand \cup Out \cup In, Entering \cup Ahead') /\ Before(Taken, Ahead')
    BY <1>6, <1>7 DEF OrderInv, InLine, Before
  <2>2. \A x \in InHand \cup Among(items, Item) \cup In \cup Taken \cup Ahead' : x <= Top'
    BY <1>3, <1>6, <1>7
  <2>3. seen <= Top'
    BY <1>3, Numbers DEF OrderInv, InLine
  <2> QED
    BY <1>1, <1>2, <1>4, <1>5, <1>7, <2>1, <2>2, <2>3 DEF OrderInv, InLine
<1>10. Told'
  <2>1. ~Stopping
    BY <1>2 DEF Stopping, StopPC
  <2>2. /\ Len(due) \in Nat /\ Len(heard) \in Nat
        /\ \A i \in 1..Len(due) : due[i] \in Nat /\ due[i] < posted + 1
    <3>1. Len(due) \in Nat /\ \A i \in 1..Len(due) : due[i] \in Nat
      BY <1>1, BoundAssumption
    <3>2. Len(heard) \in Nat
      BY DEF Shape, Queues
    <3>3. \A i \in 1..Len(due) : due[i] <= posted
      BY <1>3, <2>1 DEF OrderInv, Told
    <3> QED
      BY <1>3, <3>1, <3>2, <3>3
  <2>3. CASE kind \notin {"text", "mark"}
    <3>1. due' = due /\ Owed' = Owed /\ Travelling' = Travelling
      BY <1>1, <1>4, <1>5, <1>8, <2>3 DEF Owed, Travelling
    <3> QED
      BY <1>1, <1>3, <2>1, <2>2, <3>1 DEF OrderInv, Told
  <2>4. CASE kind \in {"text", "mark"}
    <3>1. /\ Len(due') = Len(due) + 1
          /\ \A i \in 1..Len(due) : due'[i] = due[i]
          /\ due'[Len(due) + 1] = posted + 1
      BY <1>1, <1>3, <2>4, Behind
    <3>2. Travelling' = Travelling \cup {posted + 1}
      BY <1>4, <1>5, <1>8, <2>4 DEF Travelling
    <3>3. \A i \in 1..Len(due') : i \in 1..Len(due) \/ i = Len(due) + 1
      BY <2>2, <3>1
    <3>4. Owed' = Owed \cup {posted + 1}
      <4>1. Len(heard) <= Len(due)
        BY DEF OrderInv, Told
      <4>2. Len(heard) + 1..Len(due') = (Len(heard) + 1..Len(due)) \cup {Len(due) + 1}
            /\ Len(heard) + 1..Len(due) \subseteq 1..Len(due)
        BY <2>2, <3>1, <4>1
      <4>3. Owed' = {due'[i] : i \in Len(heard) + 1..Len(due')}
        BY <1>1 DEF Owed
      <4> QED
        BY <3>1, <4>2, <4>3 DEF Owed
    <3>5. ASSUME NEW i \in 1..Len(due'), NEW j \in 1..Len(due'), i < j
          PROVE  due'[i] < due'[j]
      <4>1. i \in 1..Len(due)
        BY <2>2, <3>1, <3>5
      <4> QED
        BY <2>2, <3>1, <3>3, <3>5, <4>1 DEF OrderInv, Told
    <3>6. \A i \in 1..Len(due') : due'[i] <= Top'
      BY <1>3, <2>2, <3>1, <3>3
    <3>7. /\ Len(heard) <= Len(due')
          /\ \A i \in 1..Len(heard) : heard[i] = due'[i]
      BY <2>2, <3>1 DEF OrderInv, Told
    <3> QED
      BY <1>1, <2>1, <3>2, <3>4, <3>5, <3>6, <3>7 DEF OrderInv, Told
  <2> QED
    BY <2>3, <2>4
<1>11. Counted'
  <2>1. \A i \in 1..Len(items) : items[i].n # Top'
    <3> SUFFICES ASSUME NEW i \in 1..Len(items) PROVE items[i].n # Top'
      OBVIOUS
    <3>1. items[i] \in Item
      BY DEF Shape, Queues
    <3>2. items[i].n \in Among(items, Item)
      BY <3>1 DEF Among
    <3> QED
      BY <1>3, <1>6, <3>2
  <2>2. seen # Top'
    BY <1>3, Numbers DEF OrderInv, InLine
  <2> QED
    BY <1>1, <1>2, <2>1, <2>2 DEF OrderInv, Counted
<1> QED
  BY <1>9, <1>10, <1>11 DEF OrderInv

LEMMA OrderQueueing ==
  ASSUME Shape, Shape', OrderInv, OneCaller, NEW c \in Callers,
         \/ QueueText(c) \/ QueueMark(c) \/ QueueChange(c) \/ QueueSynthesize(c)
         \/ ReadOut(c) \/ ReadOutChange(c) \/ PostWanted(c)
  PROVE  OrderInv'
<1>1. PICK kind, units : Put(c, kind, units)
  BY DEF QueueText, QueueMark, QueueChange, QueueSynthesize, Queue, ReadOut,
         ReadOutChange, PostWanted
<1>2. pc[c] \in {"idle", "manual", "post"} /\ claimed = Nothing
  <2>1. CASE QueueText(c) \/ QueueMark(c) \/ QueueChange(c) \/ QueueSynthesize(c)
    BY <2>1, FreeAlone DEF QueueText, QueueMark, QueueChange, QueueSynthesize, Queue
  <2>2. CASE ReadOut(c) \/ ReadOutChange(c) \/ PostWanted(c)
    <3>1. pc[c] \in {"manual", "post"}
      BY <2>2 DEF ReadOut, ReadOutChange, PostWanted
    <3>2. pc[c] \in ManualPC
      BY <3>1 DEF ManualPC
    <3> QED
      BY <3>1, <3>2, ReadingAlone
  <2> QED
    BY <2>1, <2>2
<1>3. claimed' \in Numbered
  <2>1. lock' = c
    BY <1>1 DEF Put
  <2> QED
    BY <2>1, CallerAssumption DEF Shape, Sending
<1>4. Calling'
  BY CallingQueueing DEF OrderInv
<1> QED
  BY <1>1, <1>2, <1>3, <1>4, OrderPut

LEMMA OrderCommit ==
  ASSUME Shape, OrderInv, OneCaller, NEW c \in Callers, Commit(c)
  PROVE  OrderInv'
<1>1. /\ pc[c] = "commit" /\ posted' = claimed.n /\ claimed' = Nothing
      /\ \E there \in {"idle", "manual"} : Goto(c, there)
      /\ UNCHANGED <<items, engine, inbox, run, tpc, seen, held, hand, due, heard,
                     doing>>
  BY DEF Commit, threadVars, historyVars
<1>2. /\ \A d \in Callers : d = c
      /\ pc'[c] \in {"idle", "manual"}
  BY <1>1, OnlyMoved
<1>3. /\ Top' = posted + 1 /\ Top = posted + 1 /\ posted' = posted + 1 /\ posted \in Nat
      /\ claimed # Nothing
  <2>1. claimed # Nothing
    BY <1>1, CallerAssumption DEF Shape, Sending, Committing
  <2> QED
    BY <1>1, <2>1, Numbers DEF Top, Shape, Sending
<1>4. /\ Out' = Out /\ In' = In /\ Ahead' = Ahead /\ Taken' = Taken
      /\ Entering' = Entering /\ Owed' = Owed /\ Quiet' = Quiet
      /\ Among(items', Item) = Among(items, Item)
      /\ Among(inbox', Said) = Among(inbox, Said)
  BY <1>1 DEF Out, In, Ahead, Taken, Entering, Owed, Quiet
<1>5. InHand' = InHand
  BY <1>1, <1>2, OneHand DEF InHand
<1>6. ~Stopping
  BY <1>1, <1>2 DEF Stopping, StopPC
<1>7. tpc \in {"flush", "close", "remain", "tell"} => run.n \in Nat
  BY BlockHasNoNumber DEF Shape, Running
<1>8. InLine'
  BY <1>1, <1>2, <1>3, <1>4, <1>5, <1>7 DEF OrderInv, InLine
<1>9. Calling'
  BY CallingQueueing DEF OrderInv
<1>10. Told'
  BY <1>1, <1>3, <1>4, <1>5, <1>6 DEF OrderInv, Told, Travelling
<1>11. Counted'
  <2>1. tpc \in {"close", "remain", "tell"} => run.n # posted'
    BY <1>3, <1>7 DEF OrderInv, InLine
  <2> QED
    BY <1>1, <1>2, <1>3, <1>4, <2>1 DEF OrderInv, Counted
<1> QED
  BY <1>8, <1>9, <1>10, <1>11 DEF OrderInv

(* A block has no number.                                                  *)
LEMMA OrderBlock ==
  ASSUME Shape, OrderInv, OneCaller, NEW c \in Callers, Block(c)
  PROVE  OrderInv'
<1>1. /\ pc[c] = "idle" /\ inbox' = Append(inbox, BlockMessage) /\ inbox \in Seq(Queued)
      /\ Goto(c, "manual")
      /\ UNCHANGED <<items, engine, run, tpc, posted, claimed, seen, held, hand, due,
                     heard, doing, pending>>
  BY DEF Block, Free, countVars, appVars, historyVars, Shape, Queues
<1>2. pc'[c] = "manual" /\ \A d \in Callers : d = c
  BY <1>1, OnlyMoved
<1>3. /\ BlockMessage \in Queued /\ BlockMessage \notin Numbered
      /\ BlockMessage \notin Said
  BY BlockHasNoNumber DEF Queued, Said
<1>4. /\ Ahead' = Ahead /\ Rising(inbox', Numbered)
      /\ Among(inbox', Said) = Among(inbox, Said)
  <2>1. Rising(inbox, Numbered)
    BY DEF OrderInv, InLine
  <2>2. Among(inbox', Said) = Among(inbox, Said)
    BY <1>1, <1>3, NotAmongBehind
  <2>3. Among(inbox', Numbered) = Among(inbox, Numbered) /\ Rising(inbox', Numbered)
    BY <1>1, <1>3, <2>1, NotAmongBehind
  <2> QED
    BY <2>2, <2>3 DEF Ahead
<1>5. /\ Out' = Out /\ In' = In /\ Taken' = Taken
      /\ Entering' = Entering /\ Owed' = Owed /\ Top' = Top
      /\ Among(items', Item) = Among(items, Item)
  BY <1>1 DEF Out, In, Taken, Entering, Owed, Top
<1>6. InHand' = InHand /\ Quiet' = Quiet
  BY <1>1, <1>2, <1>4, OneHand DEF InHand, Quiet
<1>7. InLine'
  BY <1>1, <1>2, <1>4, <1>5, <1>6 DEF OrderInv, InLine
<1>8. Calling'
  BY CallingQueueing DEF OrderInv, Reading
<1>9. Told'
  <2>1. ~Stopping
    BY <1>1, <1>2 DEF Stopping, StopPC
  <2> QED
    BY <1>1, <1>4, <1>5, <1>6, <2>1 DEF OrderInv, Told, Travelling
<1>10. Counted'
  BY <1>1, <1>2, <1>5, <1>6 DEF OrderInv, Counted
<1> QED
  BY <1>7, <1>8, <1>9, <1>10 DEF OrderInv

(* Steps that go somewhere and move nothing.                               *)
LEMMA OrderMoves ==
  ASSUME Shape, OrderInv, OneCaller, NothingPassed, NEW c \in Callers,
         \/ AddToManualQueue(c) \/ ClearInput(c) \/ Pause(c)
         \/ CommitRead(c) \/ ReadOutFails(c) \/ ReadOutAll(c) \/ Unblock(c)
         \/ Check(c) \/ \E call \in Calls : Ask(c, call)
         \/ Enter(c) \/ Look(c) \/ RecallPutOff(c) \/ Caught(c) \/ Leave(c)
         \/ Abort(c) \/ Interrupt(c) \/ AwaitTurn(c)
  PROVE  OrderInv'
<1>1. Calling'
  BY CallingQueueing, CallingInside DEF OrderInv, Reading
<1>2. UNCHANGED <<items, engine, inbox, run, tpc, posted, seen, claimed, held, hand,
                  due, heard, pending>>
  BY DEF AddToManualQueue, ClearInput, Pause, CommitRead, ReadOutFails, ReadOutAll,
         Unblock, Check, Ask, Enter, Look, RecallPutOff, Caught, Leave, Abort,
         Interrupt, AwaitTurn, threadVars, countVars, appVars, callVars, historyVars
<1>3. \A d \in Callers : d = c
  BY DEF OneCaller
<1>4. /\ pc' = pc \/ (pc[c] # "call" /\ pc'[c] \notin {"call", "collect"})
      /\ Stopping => Stopping'
  <2> USE DEF Stopping, StopPC
  <2>1. CASE AddToManualQueue(c) \/ ClearInput(c) \/ Pause(c)
    BY <2>1 DEF AddToManualQueue, ClearInput, Pause, callVars
  <2>2. CASE CommitRead(c) \/ ReadOutFails(c) \/ ReadOutAll(c) \/ Unblock(c)
             \/ RecallPutOff(c) \/ Caught(c) \/ Leave(c)
    <3>1. /\ pc[c] \in {"read", "manual", "unblock", "recall", "caught", "leave"}
          /\ \E there \in {"commit", "unblock", "idle", "post", "leave"} : Goto(c, there)
      BY <2>2 DEF CommitRead, ReadOutFails, ReadOutAll, Unblock, RecallPutOff, Caught,
                  Leave
    <3> QED
      BY <1>3, <3>1, OnlyMoved
  <2>3. CASE Check(c)
    <3>1. ~busy
      BY <2>3, CallingOutside DEF Check, Inside, OrderInv
    <3>2. pc[c] = "asked" /\ Goto(c, "enter") /\ doing' = doing
      BY <2>3, <3>1 DEF Check
    <3> QED
      BY <1>3, <3>2, OnlyMoved
  <2>4. CASE \E call \in Calls : Ask(c, call)
    <3>1. pc[c] = "idle" /\ Goto(c, "asked")
      BY <2>4 DEF Ask
    <3> QED
      BY <1>3, <3>1, OnlyMoved
  <2>5. CASE Enter(c)
    <3>1. pc[c] = "enter" /\ Goto(c, IF doing[c] = "stop" THEN "interrupt" ELSE "look")
      BY <2>5 DEF Enter
    <3> QED
      BY <1>3, <3>1, OnlyMoved
  <2>6. CASE Look(c)
    <3>1. pc[c] = "look" /\ \E there \in {"leave", "recall", "pop"} : Goto(c, there)
      BY <2>6 DEF Look
    <3> QED
      BY <1>3, <3>1, OnlyMoved
  <2>7. CASE Abort(c)
    <3>1. pc[c] = "abort" /\ Goto(c, "asked") /\ doing'[c] = "stop"
      BY <2>7 DEF Abort, Shape, Scalars
    <3> QED
      BY <1>3, <3>1, OnlyMoved
  <2>8. CASE Interrupt(c) \/ AwaitTurn(c)
    <3>1. pc[c] \in {"interrupt", "turn"}
          /\ \E there \in {"suspend", "reset"} : Goto(c, there)
      BY <2>8 DEF Interrupt, AwaitTurn
    <3> QED
      BY <1>3, <3>1, OnlyMoved
  <2> QED
    BY <2>1, <2>2, <2>3, <2>4, <2>5, <2>6, <2>7, <2>8
<1> QED
  BY <1>1, <1>2, <1>3, <1>4, OrderStill

-----------------------------------------------------------------------------
(* Hearing, putting off, collecting.                                       *)

(* The least of those on the way is the next of those that are due.        *)
LEMMA ToldTheNext ==
  ASSUME Shape, Told, ~Stopping, NEW x \in Nat,
         Travelling \subseteq Nat,
         Travelling = Travelling' \cup {x}, \A y \in Travelling' : x < y,
         heard' = Append(heard, x), due' = due, Top' = Top
  PROVE  Told'
<1>1. /\ due \in Seq(1..MaxPosted) /\ heard \in Seq(1..MaxPosted)
      /\ Len(due) \in Nat /\ Len(heard) \in Nat
      /\ \A i \in 1..Len(due) : due[i] \in Nat
  <2>1. due \in Seq(1..MaxPosted) /\ heard \in Seq(1..MaxPosted)
    BY DEF Shape, Queues
  <2> QED
    BY <2>1, BoundAssumption
<1>2. /\ \A i, j \in 1..Len(due) : i < j => due[i] < due[j]
      /\ Len(heard) <= Len(due)
      /\ \A i \in 1..Len(heard) : heard[i] = due[i]
      /\ Travelling = Owed
      /\ \A i \in 1..Len(due) : due[i] <= Top
  BY DEF Told
<1> DEFINE l == Len(heard) + 1
<1>3. PICK k \in l..Len(due) : x = due[k]
  BY <1>2 DEF Owed
<1>4. l \in 1..Len(due) /\ k \in 1..Len(due) /\ l \in l..Len(due) /\ l \in Nat
  BY <1>1, <1>3
<1> HIDE DEF l
<1>5. due[l] \in Travelling
  BY <1>2, <1>4 DEF Owed, l
<1>6. x = due[l]
  <2>1. x <= due[l]
    BY <1>1, <1>4, <1>5
  <2>2. l = k \/ l < k
    BY <1>3, <1>4
  <2>3. due[l] <= due[k]
    BY <1>1, <1>2, <1>4, <2>2
  <2> QED
    BY <1>1, <1>3, <1>4, <2>1, <2>3
<1>7. /\ Len(heard') = l
      /\ \A i \in 1..Len(heard) : heard'[i] = heard[i]
      /\ heard'[l] = x
      /\ \A i \in 1..l : i \in 1..Len(heard) \/ i = l
  <2>1. x \in 1..MaxPosted
    <3>1. \A S : \A q \in Seq(S) : \A i \in 1..Len(q) : q[i] \in S
      OBVIOUS
    <3> QED
      BY <1>1, <1>4, <1>6, <3>1
  <2>2. \A i \in 1..l : i \in 1..Len(heard) \/ i = l
    BY <1>1 DEF l
  <2> QED
    BY <1>1, <2>1, <2>2, Behind DEF l
<1>8. Len(heard') <= Len(due') /\ \A i \in 1..Len(heard') : heard'[i] = due'[i]
  BY <1>2, <1>4, <1>6, <1>7
<1>9. Travelling' = Owed'
  <2>1. Owed' = {due[i] : i \in l + 1..Len(due)}
    BY <1>7 DEF Owed
  <2>2. \A i \in l..Len(due) : i = l \/ i \in l + 1..Len(due)
    BY <1>1, <1>4
  <2>3. \A i \in l + 1..Len(due) : i \in l..Len(due) /\ i \in 1..Len(due) /\ l < i
    BY <1>1, <1>4
  <2>4. Owed = {due[i] : i \in l..Len(due)}
    BY DEF Owed, l
  <2>5. \A i \in l + 1..Len(due) : due[i] \in Owed /\ due[i] # x
    BY <1>1, <1>2, <1>4, <1>6, <2>3, <2>4
  <2>6. \A y \in Owed : y = x \/ y \in Owed'
    BY <1>6, <2>1, <2>2, <2>4
  <2>7. \A y \in Owed' : y \in Owed /\ y # x
    BY <2>1, <2>5
  <2>8. \A y \in Travelling' : y # x
    <3> SUFFICES ASSUME x \in Travelling' PROVE FALSE
      OBVIOUS
    <3>1. x < x
      OBVIOUS
    <3> QED
      BY <3>1
  <2> QED
    BY <1>2, <2>6, <2>7, <2>8
<1> QED
  BY <1>2, <1>8, <1>9 DEF Told

LEMMA OrderTook ==
  ASSUME Shape, OrderInv, OneCaller, NothingPassed, NEW c \in Callers,
         RecallTook(c) \/ CallTook(c)
  PROVE  OrderInv'
<1> DEFINE a == IF pc[c] = "recall" THEN held ELSE hand[c]
<1>1. /\ pc[c] \in {"recall", "call"}
      /\ \E there \in {"leave", "pop"} : Goto(c, there)
      /\ heard' = Append(heard, a.n)
      /\ UNCHANGED <<items, engine, inbox, run, tpc, posted, seen, claimed, due, pending>>
      /\ pc[c] = "recall" => held' = Nothing
      /\ pc[c] = "call" => held' = held
  BY DEF RecallTook, CallTook, Hear, threadVars, countVars, appVars
<1>2. /\ \A d \in Callers : d = c
      /\ pc'[c] \in {"leave", "pop"}
  BY <1>1, OnlyMoved
<1>3. /\ pc[c] = "call" => held = Nothing /\ hand[c] \in Item
      /\ pc[c] = "recall" => held \in Item /\ held # Nothing
  BY DEF OrderInv, Calling, Shape, Holding
<1>4. InHand = {a.n} /\ InHand' = {} /\ held' = Nothing
  BY <1>1, <1>2, <1>3, OneHand DEF InHand
<1> HIDE DEF a
<1>5. /\ Out' = Out /\ In' = In /\ Ahead' = Ahead /\ Taken' = Taken
      /\ Entering' = Entering /\ Top' = Top /\ Quiet' = Quiet
      /\ Among(items', Item) = Among(items, Item)
      /\ Among(inbox', Said) = Among(inbox, Said)
  BY <1>1 DEF Out, In, Ahead, Taken, Entering, Top, Quiet
<1>6. ~Stopping
  BY <1>1, <1>2 DEF Stopping, StopPC
<1>7. InLine'
  BY <1>1, <1>2, <1>4, <1>5 DEF OrderInv, InLine, Before
<1>8. Calling'
  BY CallingInside DEF OrderInv, Taking
<1>9. Told'
  <2>1. a.n \in Nat /\ Travelling \subseteq Nat
    BY <1>4, Numbers DEF Travelling
  <2>2. Travelling = Travelling' \cup {a.n}
    BY <1>4, <1>5 DEF Travelling
  <2>3. \A y \in Travelling' : a.n < y
    <3>1. \A y \in Out \cup In \cup Entering \cup Ahead : a.n < y
      BY <1>4 DEF OrderInv, InLine, Before
    <3> QED
      BY <1>4, <1>5, <3>1, Numbers DEF Travelling
  <2> QED
    BY <1>1, <1>5, <1>6, <2>1, <2>2, <2>3, ToldTheNext DEF OrderInv
<1>10. Counted'
  BY <1>1, <1>2, <1>4, <1>5 DEF OrderInv, Counted
<1> QED
  BY <1>7, <1>8, <1>9, <1>10 DEF OrderInv

LEMMA OrderPutOff ==
  ASSUME Shape, OrderInv, OneCaller, NothingPassed, NEW c \in Callers, CallPutOff(c)
  PROVE  OrderInv'
<1>1. /\ pc[c] = "call" /\ Goto(c, "leave") /\ held' = hand[c]
      /\ UNCHANGED <<items, engine, inbox, run, tpc, posted, seen, claimed, due, heard,
                     pending>>
  BY DEF CallPutOff, threadVars, countVars, historyVars
<1>2. (\A d \in Callers : d = c) /\ pc'[c] = "leave"
  BY <1>1, OnlyMoved
<1>3. held = Nothing /\ hand[c] # Nothing
  BY <1>1, NothingIsNothing DEF OrderInv, Calling, Shape, Holding
<1>4. InHand' = InHand
  BY <1>1, <1>2, <1>3, OneHand DEF InHand
<1>5. /\ Out' = Out /\ In' = In /\ Ahead' = Ahead /\ Taken' = Taken
      /\ Entering' = Entering /\ Top' = Top /\ Quiet' = Quiet /\ Owed' = Owed
      /\ Among(items', Item) = Among(items, Item)
      /\ Among(inbox', Said) = Among(inbox, Said)
  BY <1>1 DEF Out, In, Ahead, Taken, Entering, Top, Quiet, Owed
<1>6. ~Stopping /\ seen # Top
  BY <1>1, <1>2 DEF Stopping, StopPC, OrderInv, Counted
<1>7. InLine'
  BY <1>1, <1>2, <1>4, <1>5 DEF OrderInv, InLine, Before
<1>8. Calling'
  BY CallingInside DEF OrderInv, Taking
<1>9. Told'
  BY <1>1, <1>4, <1>5, <1>6 DEF OrderInv, Told, Travelling
<1>10. Counted'
  BY <1>1, <1>2, <1>5, <1>6 DEF OrderInv, Counted
<1> QED
  BY <1>7, <1>8, <1>9, <1>10 DEF OrderInv

LEMMA OrderPop ==
  ASSUME Shape, OrderInv, OneCaller, NothingPassed, NEW c \in Callers, Pop(c)
  PROVE  OrderInv'
<1>1. /\ pc[c] = "pop"
      /\ UNCHANGED <<engine, inbox, run, tpc, posted, seen, claimed, held, due, heard,
                     pending>>
  BY DEF Pop, threadVars, countVars, historyVars
<1>2. /\ \A d \in Callers : d = c
      /\ held = Nothing
  BY <1>1 DEF OneCaller, OrderInv, Calling
<1>3. Calling'
  BY CallingInside DEF OrderInv, Taking
<1>4. ~Stopping
  BY <1>1, <1>2 DEF Stopping, StopPC
<1>5. CASE items' = items /\ UNCHANGED hand /\ Goto(c, "leave")
  <2>1. pc'[c] = "leave"
    BY <1>5, OnlyMoved
  <2> QED
    BY <1>1, <1>2, <1>3, <1>4, <1>5, <2>1, OrderStill
<1>6. CASE ~(items' = items /\ UNCHANGED hand /\ Goto(c, "leave"))
  <2> DEFINE a == Head(items)
  <2>1. /\ items # <<>> /\ items' = Tail(items) /\ items \in Seq(Item)
        /\ hand' = [hand EXCEPT ![c] = a]
        /\ Goto(c, IF a.what = "count" THEN "collect" ELSE "call")
    BY <1>6 DEF Pop, Shape, Queues
  <2>2. /\ a \in Item /\ a = items[1] /\ Len(items) \in Nat /\ Len(items) >= 1
        /\ Len(items') = Len(items) - 1
        /\ \A i \in 1..Len(items) - 1 : items'[i] = items[i + 1]
        /\ items' \in Seq(Item)
    BY <2>1, InFront
  <2>3. a \in Spoken <=> a.what # "count"
    BY <2>2 DEF Spoken
  <2>4. /\ Out = Out' \cup (IF a \in Spoken THEN {a.n} ELSE {})
        /\ Rising(items', Spoken)
        /\ a \in Spoken => \A x \in Out' : a.n < x
        /\ Among(items, Item) = Among(items', Item) \cup {a.n}
    <3>1. Rising(items, Spoken)
      BY DEF OrderInv, InLine
    <3>2. Among(items, Item) = Among(items', Item) \cup {a.n}
      BY <2>1, <2>2, AmongInFront
    <3> QED
      BY <2>1, <3>1, <3>2, AmongInFront DEF Out
  <2>5. /\ pc'[c] = (IF a.what = "count" THEN "collect" ELSE "call")
        /\ hand'[c] = a
    BY <2>1, OnlyMoved DEF Shape, Holding
  <2> HIDE DEF a
  <2>6. InHand = {} /\ InHand' = (IF a \in Spoken THEN {a.n} ELSE {})
    BY <1>1, <1>2, <2>3, <2>5, OneHand DEF InHand
  <2>7. /\ In' = In /\ Ahead' = Ahead /\ Taken' = Taken
        /\ Entering' = Entering /\ Top' = Top /\ Quiet' = Quiet /\ Owed' = Owed
        /\ Among(inbox', Said) = Among(inbox, Said)
    BY <1>1 DEF In, Ahead, Taken, Entering, Top, Quiet, Owed
  <2>8. InLine'
    <3>1. Before(InHand', Out' \cup In) /\ Before(Out', In)
      BY <2>4, <2>6 DEF OrderInv, InLine, Before
    <3>2. Before(InHand' \cup Out' \cup In, Entering \cup Ahead)
      BY <2>4, <2>6 DEF OrderInv, InLine, Before
    <3>3. \A x \in InHand' \cup Among(items', Item) \cup In \cup Taken \cup Ahead : x <= Top
      BY <2>4, <2>6 DEF OrderInv, InLine
    <3>4. a.n <= Top
      BY <2>4 DEF OrderInv, InLine
    <3> QED
      BY <1>1, <1>2, <2>4, <2>5, <2>7, <3>1, <3>2, <3>3, <3>4 DEF OrderInv, InLine
  <2>9. Told'
    <3>1. Travelling' = Travelling
      BY <2>4, <2>6, <2>7 DEF Travelling
    <3> QED
      BY <1>1, <1>4, <2>7, <3>1 DEF OrderInv, Told
  <2>10. Counted'
    <3>1. seen # Top
      BY <2>1 DEF OrderInv, Counted
    <3>2. ASSUME NEW i \in 1..Len(items'), items'[i].what = "count", items'[i].n = Top
          PROVE  i = Len(items') /\ Quiet
      <4>1. i + 1 \in 1..Len(items) /\ items'[i] = items[i + 1]
        BY <2>2
      <4>2. i + 1 = Len(items) /\ Quiet
        BY <3>2, <4>1 DEF OrderInv, Counted
      <4> QED
        BY <2>2, <4>2
    <3>3. a.what = "count" /\ a.n = Top => items' = <<>> /\ Quiet
      <4> SUFFICES ASSUME a.what = "count", a.n = Top PROVE items' = <<>> /\ Quiet
        OBVIOUS
      <4>1. 1 \in 1..Len(items)
        BY <2>2
      <4>2. Len(items) = 1 /\ Quiet
        BY <2>2, <4>1 DEF OrderInv, Counted
      <4>3. Len(items') = 0
        BY <2>2, <4>2
      <4> QED
        BY <2>2, <4>2, <4>3, Empty
    <3> QED
      BY <1>1, <1>2, <2>5, <2>7, <3>1, <3>2, <3>3 DEF OrderInv, Counted
  <2> QED
    BY <1>3, <2>8, <2>9, <2>10 DEF OrderInv
<1> QED
  BY <1>5, <1>6

LEMMA OrderCollect ==
  ASSUME Shape, OrderInv, OneCaller, NothingPassed, NEW c \in Callers, Collect(c)
  PROVE  OrderInv'
<1>1. /\ pc[c] = "collect" /\ seen' = hand[c].n
      /\ \E there \in {"caught", "pop"} : Goto(c, there)
      /\ UNCHANGED <<items, engine, inbox, run, tpc, posted, claimed, held, due, heard,
                     pending>>
  BY DEF Collect, threadVars, countVars, historyVars
<1>2. /\ \A d \in Callers : d = c
      /\ pc'[c] \in {"caught", "pop"}
  BY <1>1, OnlyMoved
<1>3. held = Nothing
  BY <1>1 DEF OrderInv, Calling
<1>4. InHand' = InHand
  BY <1>1, <1>2, OneHand DEF InHand
<1>5. /\ Out' = Out /\ In' = In /\ Ahead' = Ahead /\ Taken' = Taken
      /\ Entering' = Entering /\ Top' = Top /\ Quiet' = Quiet /\ Owed' = Owed
      /\ Among(items', Item) = Among(items, Item)
      /\ Among(inbox', Said) = Among(inbox, Said)
  BY <1>1 DEF Out, In, Ahead, Taken, Entering, Top, Quiet, Owed
<1>6. ~Stopping
  BY <1>1, <1>2 DEF Stopping, StopPC
<1>7. InLine'
  BY <1>1, <1>2, <1>4, <1>5 DEF OrderInv, InLine, Before
<1>8. Calling'
  BY CallingInside DEF OrderInv, Taking
<1>9. Told'
  BY <1>1, <1>4, <1>5, <1>6 DEF OrderInv, Told, Travelling
<1>10. Counted'
  BY <1>1, <1>2, <1>3, <1>5 DEF OrderInv, Counted
<1> QED
  BY <1>7, <1>8, <1>9, <1>10 DEF OrderInv

-----------------------------------------------------------------------------
(* Throwing away.                                                          *)

(* Once a stop has begun nothing more is owed to the callback.             *)
LEMMA OrderLoses ==
  ASSUME Shape, OrderInv, Calling', Stopping',
         UNCHANGED <<due, heard, posted, claimed, seen, run, tpc>>,
         items' = items \/ items' = <<>>, engine' = engine \/ engine' = <<>>,
         inbox' = inbox \/ inbox' = <<>>, held' = held \/ held' = Nothing,
         InHand' \subseteq InHand,
         \A d \in Callers : pc'[d] \notin {"call", "collect"},
         pending' = pending \/ tpc = "idle"
  PROVE  OrderInv'
<1>1. /\ Out' \subseteq Out /\ Among(items', Item) \subseteq Among(items, Item)
      /\ Rising(items, Spoken) => Rising(items', Spoken)
  BY AmongNone DEF Out
<1>2. /\ In' \subseteq In
      /\ Rising(engine, Spoken) => Rising(engine', Spoken)
  BY AmongNone DEF In
<1>3. /\ Ahead' \subseteq Ahead
      /\ Rising(inbox, Numbered) => Rising(inbox', Numbered)
  BY AmongNone DEF Ahead
<1>4. Taken' = Taken /\ Entering' = Entering /\ Top' = Top
  BY DEF Taken, Entering, Top
<1>5. Quiet => Quiet'
  BY <1>3 DEF Quiet
<1>6. InLine'
  BY <1>1, <1>2, <1>3, <1>4 DEF OrderInv, InLine, Before
<1>7. Told'
  BY DEF OrderInv, Told
<1>8. Counted'
  <2>1. ASSUME NEW i \in 1..Len(items'), items'[i].what = "count", items'[i].n = Top
        PROVE  i = Len(items') /\ Quiet'
    <3>1. items' = items
      <4>1. Len(<<>>) = 0 /\ 1..0 = {}
        OBVIOUS
      <4> QED
        BY <2>1, <4>1
    <3> QED
      BY <1>5, <2>1, <3>1 DEF OrderInv, Counted
  <2>2. seen = Top => /\ items' = <<>> /\ held' = Nothing /\ Quiet'
    BY <1>5 DEF OrderInv, Counted
  <2>3. tpc \in {"close", "remain", "tell"} /\ posted = run.n /\ pending' = 0
          => Len(engine') <= 1 /\ (tpc = "tell" => engine' = <<>>)
    <3>1. CASE engine' = engine
      BY <3>1 DEF OrderInv, Counted
    <3>2. CASE engine' = <<>>
      <4>1. Len(engine') = 0
        BY <3>2
      <4> QED
        BY <3>2, <4>1
    <3> QED
      BY <3>1, <3>2
  <2> QED
    BY <1>4, <2>1, <2>2, <2>3 DEF Counted
<1> QED
  BY <1>6, <1>7, <1>8 DEF OrderInv

LEMMA OrderAborts ==
  ASSUME Shape, StopInv, OrderInv, OneCaller, NothingPassed, NEW c \in Callers,
         \/ RecallAborted(c) \/ CallAborted(c)
         \/ SuspendApp(c) \/ Quiesce(c) \/ Reset(c)
  PROVE  OrderInv'
<1>1. Calling'
  BY CallingInside DEF OrderInv, Taking, Clearing
<1>2. /\ UNCHANGED <<due, heard, posted, claimed, seen, run, tpc>>
      /\ items' = items \/ items' = <<>>
      /\ engine' = engine \/ engine' = <<>>
      /\ inbox' = inbox \/ inbox' = <<>>
      /\ held' = held \/ held' = Nothing
      /\ \E there \in {"abort", "quiesce", "turn", "recount"} : Goto(c, there)
      /\ pending' = pending \/ pc[c] = "reset"
  BY DEF RecallAborted, CallAborted, SuspendApp, Quiesce, Reset, threadVars, countVars,
         appVars, historyVars
<1>3. /\ \A d \in Callers : d = c
      /\ pc'[c] \in {"abort", "quiesce", "turn", "recount"}
  BY <1>2, OnlyMoved
<1>4. Stopping'
  BY <1>3 DEF Stopping, StopPC
<1>5. InHand' \subseteq InHand
  BY <1>2, <1>3, OneHand DEF InHand
<1>6. pending' = pending \/ tpc = "idle"
  BY <1>2 DEF StopInv, Stands, Awaited, Emptied, Cleared
<1> QED
  BY <1>1, <1>2, <1>3, <1>4, <1>5, <1>6, OrderLoses

(* Nothing is left to be told of.                                          *)
LEMMA NothingLeft ==
  ASSUME Shape, StopInv, OrderInv, OneCaller, NEW c \in Callers,
         pc[c] \in {"recount", "reopen"}
  PROVE  /\ items = <<>> /\ engine = <<>> /\ inbox = <<>> /\ held = Nothing
         /\ run = Nothing /\ tpc = "idle" /\ claimed = Nothing
         /\ InHand = {} /\ Out = {} /\ In = {} /\ Ahead = {} /\ Taken = {}
         /\ Entering = {} /\ Among(items, Item) = {} /\ Among(inbox, Said) = {}
<1>1. /\ items = <<>> /\ inbox = <<>> /\ held = Nothing /\ tpc = "idle"
  BY DEF StopInv, Stands, Awaited, Emptied, Cleared
<1>2. engine = <<>> /\ run = Nothing
  BY <1>1 DEF OrderInv, Calling, Shape, Running
<1>3. claimed = Nothing
  <2>1. pc[c] \notin InQueueing
    BY DEF InQueueing, Committing, ManualPC
  <2> QED
    BY <2>1, NobodyQueues DEF OneCaller
<1>4. InHand = {}
  BY <1>1, OneHand DEF InHand
<1>5. Taken = {} /\ Entering = {}
  BY <1>1, <1>2, NothingIsNothing DEF Taken, Entering, Queued
<1> QED
  BY <1>1, <1>2, <1>3, <1>4, <1>5, AmongNone DEF Out, In, Ahead

LEMMA OrderRecount ==
  ASSUME Shape, StopInv, OrderInv, OneCaller, NothingPassed, NEW c \in Callers,
         Recount(c) \/ Reopen(c)
  PROVE  OrderInv'
<1>1. /\ pc[c] \in {"recount", "reopen"}
      /\ \E there \in {"reopen", "leave"} : Goto(c, there)
      /\ UNCHANGED <<items, engine, inbox, held, run, tpc, claimed, pending>>
      /\ \/ pc[c] = "recount" /\ posted' = 0 /\ seen' = 0 /\ UNCHANGED <<due, heard>>
            /\ Goto(c, "reopen")
         \/ due' = <<>> /\ heard' = <<>> /\ UNCHANGED <<posted, seen>>
  BY DEF Recount, Reopen, threadVars, countVars, historyVars
<1>2. /\ \A d \in Callers : d = c
      /\ pc'[c] \in {"reopen", "leave"}
      /\ Goto(c, "reopen") => pc'[c] = "reopen"
  BY <1>1, OnlyMoved
<1>3. Calling'
  BY CallingInside DEF OrderInv, Clearing
<1>4. /\ items = <<>> /\ engine = <<>> /\ inbox = <<>> /\ held = Nothing
      /\ run = Nothing /\ tpc = "idle" /\ claimed = Nothing
      /\ InHand = {} /\ Out = {} /\ In = {} /\ Ahead = {} /\ Taken = {}
      /\ Entering = {} /\ Among(items, Item) = {} /\ Among(inbox, Said) = {}
  BY <1>1, NothingLeft
<1>5. /\ Out' = {} /\ In' = {} /\ Ahead' = {} /\ Taken' = {} /\ Entering' = {}
      /\ Among(items', Item) = {} /\ Among(inbox', Said) = {}
  BY <1>1, <1>4 DEF Out, In, Ahead, Taken, Entering
<1>6. InHand' = {}
  BY <1>1, <1>2, <1>4, OneHand DEF InHand
<1>7. seen' <= Top'
  <2>1. Top = posted /\ Top' = posted'
    BY <1>1, <1>4 DEF Top
  <2> QED
    BY <1>1, <2>1 DEF OrderInv, InLine
<1>8. InLine'
  BY <1>1, <1>2, <1>4, <1>5, <1>6, <1>7 DEF OrderInv, InLine, Before
<1>9. Told'
  <2>1. CASE UNCHANGED <<due, heard>> /\ Goto(c, "reopen")
    <3>1. Stopping'
      BY <1>2, <2>1 DEF Stopping, StopPC
    <3> QED
      BY <2>1, <3>1 DEF OrderInv, Told
  <2>2. CASE due' = <<>> /\ heard' = <<>>
    <3>1. Len(due') = 0 /\ Len(heard') = 0 /\ 1..0 = {}
      BY <2>2
    <3>2. Owed' = {}
      BY <3>1 DEF Owed
    <3>3. Travelling' = {}
      BY <1>5, <1>6 DEF Travelling
    <3> QED
      BY <3>1, <3>2, <3>3 DEF Told
  <2> QED
    BY <1>1, <2>1, <2>2
<1>10. Counted'
  <2>1. Quiet'
    BY <1>1, <1>4, <1>5 DEF Quiet
  <2>2. Len(items') = 0 /\ 1..0 = {}
    BY <1>1, <1>4
  <2> QED
    BY <1>1, <1>2, <1>4, <2>1, <2>2 DEF Counted
<1> QED
  BY <1>3, <1>8, <1>9, <1>10 DEF OrderInv

LEMMA OrderNext ==
  ASSUME Shape, Shape', StopInv, OrderInv, OneCaller, NothingPassed, [Next]_vars
  PROVE  OrderInv'
<1>1. CASE ThreadStep
  BY <1>1, OrderThread
<1>2. CASE UNCHANGED vars
  <2>1. UNCHANGED <<items, engine, inbox, run, tpc, posted, seen, claimed, held, hand,
                    due, heard, pending, pc, doing, busy, closed>>
    BY <1>2 DEF vars, threadVars, countVars, appVars, callVars, historyVars
  <2>2. Calling'
    BY <2>1 DEF OrderInv, Calling
  <2> QED
    BY <2>1, <2>2, OrderStill DEF Stopping
<1>3. ASSUME NEW c \in Callers, CallerStart(c) \/ CallerStep(c)
      PROVE  OrderInv'
  <2>1. CASE CallerStart(c)
    BY <2>1, OrderQueueing, OrderMoves, OrderBlock DEF CallerStart
  <2>2. CASE CallerStep(c)
    BY <2>2, OrderQueueing, OrderCommit, OrderMoves, OrderTook, OrderPutOff, OrderPop,
       OrderCollect, OrderAborts, OrderRecount DEF CallerStep, ManualStep, StopStep
  <2> QED
    BY <1>3, <2>1, <2>2
<1> QED
  BY <1>1, <1>2, <1>3 DEF Next

(* What is on its way to the callback is in the order it was queued,       *)
(* wherever it is, and the two counts lag behind it as they should.  This  *)
(* theorem and those below are of one caller: a stop from another thread   *)
(* while one polls leaves a stale count behind, which the violated run     *)
(* shows.                                                                  *)
THEOREM OrderInvCorrect ==
  ASSUME OneCaller, NothingPassed PROVE Spec => []OrderInv
<1>1. PutOffByOne
  BY DEF PutOffByOne
<1> QED
  BY <1>1, OrderInit, OrderNext, ShapeCorrect, StopInvCorrect, PTL DEF Spec

(* The callback takes what was queued in the order it was queued, nothing  *)
(* twice and nothing left out, however long the queues and whatever it     *)
(* puts off, and whatever filters make of the texts.                       *)
THEOREM TakenInOrder ==
  ASSUME OneCaller, NothingPassed PROVE Spec => []HeardInOrder
<1>1. ASSUME Shape, OrderInv PROVE HeardInOrder
  <2>1. /\ due \in Seq(1..MaxPosted) /\ heard \in Seq(1..MaxPosted)
        /\ Len(heard) <= Len(due)
        /\ \A i \in 1..Len(heard) : heard[i] = due[i]
    BY <1>1 DEF Shape, Queues, OrderInv, Told
  <2>2. SubSeq(heard, 1, Len(heard)) = SubSeq(due, 1, Len(heard))
    BY <2>1
  <2> QED
    BY <2>1, <2>2 DEF HeardInOrder, IsPrefix
<1> QED
  BY <1>1, OrderInvCorrect, ShapeCorrect, PTL DEF PutOffByOne

(* Equal counts mean that nothing is outstanding anywhere.                 *)
THEOREM EqualCountsMeanNothing ==
  ASSUME OneCaller, NothingPassed PROVE Spec => []EqualMeansNothing
<1>1. ASSUME Shape, OrderInv PROVE EqualMeansNothing
  <2> SUFFICES ASSUME AllIdle, posted = seen
               PROVE  /\ ToSet(inbox) \subseteq {BlockMessage}
                      /\ tpc \in {"idle", "block", "held"} /\ engine = <<>>
                      /\ items = <<>> /\ held = Nothing
    BY DEF EqualMeansNothing
  <2>1. claimed = Nothing
    BY <1>1, NobodyQueues DEF AllIdle, InQueueing, Committing, ManualPC
  <2>2. Quiet /\ items = <<>> /\ held = Nothing
    BY <1>1, <2>1 DEF OrderInv, Counted, Top
  <2>3. \A i \in 1..Len(inbox) : inbox[i] \in Queued /\ inbox[i] \notin Numbered
    <3>1. \A i \in 1..Len(inbox) : inbox[i] \in Queued
      BY <1>1 DEF Shape, Queues
    <3>2. Among(inbox, Numbered) = {}
      BY <2>2 DEF Quiet, Ahead
    <3> QED
      BY <3>1, <3>2 DEF Among
  <2> QED
    BY <2>2, <2>3 DEF Quiet, ToSet, Queued
<1> QED
  BY <1>1, OrderInvCorrect, ShapeCorrect, PTL DEF PutOffByOne

(* And then the callback has had everything.                               *)
THEOREM CaughtUpHeardEverything ==
  ASSUME OneCaller, NothingPassed PROVE Spec => []CaughtUpHeardAll
<1>1. ASSUME Shape, OrderInv PROVE CaughtUpHeardAll
  <2> SUFFICES ASSUME AllIdle, posted = seen PROVE heard = due
    BY DEF CaughtUpHeardAll
  <2>1. claimed = Nothing /\ ~Stopping
    BY <1>1, NobodyQueues DEF AllIdle, InQueueing, Committing, ManualPC, Stopping, StopPC
  <2>2. Quiet /\ items = <<>> /\ held = Nothing
    BY <1>1, <2>1 DEF OrderInv, Counted, Top
  <2>3. /\ Out = {} /\ In = {} /\ Ahead = {} /\ Entering = {} /\ InHand = {}
    <3>1. InHand = {}
      BY <2>2 DEF InHand, AllIdle
    <3>2. Out = {} /\ In = {}
      BY <2>2, AmongNone DEF Out, In, Quiet
    <3>3. Ahead = {} /\ Entering = {}
      BY <2>2 DEF Quiet, Entering
    <3> QED
      BY <3>1, <3>2, <3>3
  <2>4. Owed = {}
    <3>1. Travelling = {}
      BY <1>1, <2>3, Numbers DEF Travelling
    <3> QED
      BY <1>1, <2>1, <3>1 DEF OrderInv, Told
  <2>5. /\ due \in Seq(1..MaxPosted) /\ heard \in Seq(1..MaxPosted)
        /\ Len(heard) <= Len(due)
        /\ \A i \in 1..Len(heard) : heard[i] = due[i]
    BY <1>1 DEF Shape, Queues, OrderInv, Told
  <2>6. Len(heard) = Len(due)
    <3> SUFFICES ASSUME Len(heard) # Len(due) PROVE FALSE
      OBVIOUS
    <3>1. Len(due) \in Len(heard) + 1..Len(due)
      BY <2>5
    <3> QED
      BY <2>4, <3>1 DEF Owed
  <2> QED
    BY <2>5, <2>6
<1> QED
  BY <1>1, OrderInvCorrect, ShapeCorrect, PTL DEF PutOffByOne
=============================================================================
