------------------------------ MODULE Synthesis ------------------------------
(***************************************************************************)
(* Speaking: the application's threads, the synthesis thread, and the two  *)
(* counts that tell an application when everything it asked for has been   *)
(* said (eci_synthmsg.c, eci_synthrun.c, eci_synthtext.c, eci_synthwork.c, *)
(* eci_synthback.c, eci_appqueue.c, stl_stop in eci_synthlife.c, and the   *)
(* calls of eci_old.c and eci_misc.c that reach them).                     *)
(*                                                                         *)
(* A caller queues text, marks, parameter changes and `synthesize' on the  *)
(* synthesis thread's queue.  The thread runs them and puts what comes out *)
(* on the application queue: marks are posted, samples are sent, so that   *)
(* the thread stands still until somebody has taken them.  Nothing is      *)
(* taken unless a caller polls or synchronizes: that is where the          *)
(* application's callback runs.  A stop throws everything away.            *)
(* Text and marks may be kept back, on a queue of the caller's own, until  *)
(* a synthesize reads it out, with the thread held back meanwhile.         *)
(*                                                                         *)
(* The synthesis thread's queue is used here as Mailbox promises it; a     *)
(* round of it is over exactly when the thread is idle.  ST_SOUND is       *)
(* nought in this build, so there is no device.                            *)
(***************************************************************************)
EXTENDS Integers, Sequences, SequencesExt

CONSTANTS
  Callers,    \* the application's threads
  MayDo,      \* MayDo[c]: the calls caller c makes
  Nobody,     \* nobody holds the lock
  Nothing,    \* a null message pointer
  MaxPosted,  \* bound: slots claimed between two stops
  MaxLoose,   \* bound: releases without their block that a new block may find
  Lengths,    \* the lengths a text may have
  Rewritten,  \* the lengths filters and recoding may turn a text into
  Answers     \* what the application's callback may answer

Queueing == {"text", "mark", "change", "synth"}
KeptBack == {"later", "clear"}
Calls == {"poll", "sync", "stop"}

ASSUME CallerAssumption ==
  /\ Nobody \notin Callers
  /\ MayDo \in [Callers ->
                 SUBSET (Queueing \cup KeptBack \cup Calls \cup {"pause"})]

ASSUME BoundAssumption ==
  /\ MaxPosted \in Nat /\ MaxLoose \in Nat
  /\ Lengths \subseteq Nat \ {0}
  /\ Rewritten \subseteq Nat \ {0}
  /\ Answers \subseteq {"took", "again", "abort"}

(* What travels to the synthesis thread, and what comes back: samples, a   *)
(* mark, or a count that says everything up to message n has been spoken.  *)
(* A block has no number and stands for nothing.                           *)
Message == [kind : Queueing \cup {"block"}, units : Nat, n : 0..MaxPosted]
BlockMessage == [kind |-> "block", units |-> 0, n |-> 0]
Item == [what : {"sound", "mark", "count"}, n : 1..MaxPosted]

ASSUME NothingAssumption == Nothing \notin Message \cup Item

VARIABLES
  inbox,        \* the synthesis thread's queue
  run,          \* the message it has taken
  tpc,          \* where it is
  len,          \* addTextRun's len: the length of the text as filtered
  read,         \* ST_PENDING as addTextRun read it without the lock
  engine,       \* what the engine has been given and not come out with
  asking,       \* the thread waits for somebody to take its samples
  pending,      \* ST_PENDING
  synthesizing, \* ST_POSTED: something is outstanding
  lock,         \* who holds ST_LOCK across more than one step
  posted,       \* q->posted: the last slot committed
  seen,         \* q->seen: the last count collected
  items,        \* the application queue
  closed,       \* it is suspended
  held,         \* q->held: the message the callback wants to see later
  stopping,     \* q->stopping: the application paused the queue
  busy,         \* OI_BUSY
  pc,           \* pc[c]: where caller c is
  doing,        \* doing[c]: the call it is in
  hand,         \* hand[c]: the item it has taken off the application queue
  claimed,      \* the message a sender has posted and not committed
  found,        \* ST_PENDING as postAndCommit read it, with the lock
  manual,       \* OI_QHEAD: the texts and marks kept back
  wanted,       \* what they are being read out for, or "none"
  blocker,      \* ST_BLOCKER: the count of the semaphore
  gate,         \* and whether its event is up
  loose,        \* history: a stop has thrown a block away, and not the
                \* release that belongs to it
  last,         \* history: the kind of the last message queued
  due,          \* history: the texts and marks queued since the last stop
  heard         \* history: those the callback has taken, in order

threadVars == <<inbox, run, tpc, len, read, engine>>
countVars == <<pending, synthesizing, lock, claimed, found>>
appVars == <<posted, seen, items, closed, held, stopping>>
callVars == <<busy, pc, doing, hand>>
historyVars == <<last, due, heard>>
semaphoreVars == <<blocker, gate>>
manualVars == <<manual, wanted, semaphoreVars, loose>>
vars == <<threadVars, asking, countVars, appVars, callVars, historyVars,
          manualVars>>

ThreadPC == {"idle", "block", "held", "filter", "adjust", "enter", "speak",
             "flush", "count", "wind", "close", "remain", "tell"}
StopPC == {"interrupt", "suspend", "quiesce", "turn", "reset", "recount",
           "reopen"}
ManualPC == {"manual", "unblock", "post"}
CallerPC == {"idle", "read", "commit", "asked", "enter", "look", "recall",
             "pop", "collect", "caught", "call", "abort", "leave"}
            \cup ManualPC \cup StopPC

TypeOK ==
  /\ inbox \in Seq(Message)
  /\ run \in Message \cup {Nothing}
  /\ tpc \in ThreadPC
  /\ len \in Nat /\ read \in Int /\ found \in Int /\ pending \in Int
  /\ engine \in Seq(Item) /\ items \in Seq(Item)
  /\ asking \in BOOLEAN /\ synthesizing \in BOOLEAN /\ closed \in BOOLEAN
  /\ stopping \in BOOLEAN /\ busy \in BOOLEAN
  /\ lock \in Callers \cup {Nobody}
  /\ posted \in 0..MaxPosted /\ seen \in 0..MaxPosted
  /\ held \in Item \cup {Nothing}
  /\ pc \in [Callers -> CallerPC]
  /\ doing \in [Callers -> Calls]
  /\ hand \in [Callers -> Item \cup {Nothing}]
  /\ claimed \in Message \cup {Nothing}
  /\ manual \in Seq([kind : {"text", "mark"}, units : Nat])
  /\ wanted \in {"text", "synth", "none"}
  /\ blocker \in Int /\ gate \in BOOLEAN /\ loose \in BOOLEAN
  /\ last \in Queueing
  /\ due \in Seq(1..MaxPosted) /\ heard \in Seq(1..MaxPosted)

Init ==
  /\ inbox = <<>> /\ run = Nothing /\ tpc = "idle" /\ len = 0 /\ read = 0
  /\ engine = <<>> /\ asking = FALSE
  /\ pending = 0 /\ synthesizing = FALSE /\ lock = Nobody
  /\ claimed = Nothing /\ found = 0
  /\ posted = 0 /\ seen = 0 /\ items = <<>> /\ closed = FALSE
  /\ held = Nothing /\ stopping = FALSE
  /\ busy = FALSE /\ pc = [c \in Callers |-> "idle"]
  /\ doing = [c \in Callers |-> "poll"]
  /\ hand = [c \in Callers |-> Nothing]
  /\ manual = <<>> /\ wanted = "none"
  /\ blocker = 0 /\ gate = FALSE /\ loose = FALSE
  /\ last = "synth" /\ due = <<>> /\ heard = <<>>

Goto(c, there) == pc' = [pc EXCEPT ![c] = there]
TGoto(there) == tpc' = there

(* Back to qt_run; what addTextRun kept on its stack is gone.              *)
Done ==
  /\ TGoto("idle")
  /\ run' = Nothing
  /\ len' = 0

-----------------------------------------------------------------------------
(* Queueing work: the senders of eci_synthmsg.c, each of which takes       *)
(* ST_LOCK, claims the next slot, posts, and commits.                      *)

(* The calls that queue work are not written to be entered from two        *)
(* threads at once, nor beside another call of the same instance.          *)
Alone(c) == \A d \in Callers \ {c} : pc[d] = "idle"

(* The next slot of the application queue, claimed and not yet committed;  *)
(* and the same with a slot left out, a slip the runs must notice.         *)
ClaimTooFar == posted + 2
Claim == posted + 1

(* A text stands for as many units as it has characters, anything else for *)
(* one.  The message is on the queue, where the thread may take it, before *)
(* it is counted; a post that fails or is refused counts nothing.          *)
Put(c, kind, units) ==
  /\ LET m == [kind |-> kind, units |-> units, n |-> Claim]
     IN  /\ inbox' = Append(inbox, m)
         /\ claimed' = m
         /\ due' = IF kind \in {"text", "mark"} THEN Append(due, m.n) ELSE due
  /\ last' = kind
  /\ lock' = c
  /\ Goto(c, "read")
  /\ UNCHANGED <<run, tpc, len, read, engine, asking, pending, synthesizing,
                 found, appVars, busy, doing, hand, heard, semaphoreVars,
                 loose>>

(* What is kept back, and the call that reads it out, must fit as well.    *)
Spare == MaxPosted - posted - Len(manual) - (IF manual = <<>> THEN 0 ELSE 1)

Free(c) == pc[c] = "idle" /\ Alone(c) /\ ~busy

Queue(c, kind, units) ==
  /\ kind \in MayDo[c]
  /\ Free(c)
  /\ Spare > 0
  /\ Put(c, kind, units)
  /\ UNCHANGED <<manual, wanted>>

QueueText(c) ==
  manual = <<>> /\ \E units \in Lengths : Queue(c, "text", units)

(* An index, or a mark named by a string; it does not look at what is kept *)
(* back.                                                                   *)
QueueMark(c) == Queue(c, "mark", 1)

(* Voice, speed, language, filter and their like; a parameter written out  *)
(* as text stands for its length.                                          *)
QueueChange(c) == \E units \in {1} \cup Lengths : Queue(c, "change", units)

QueueSynthesize(c) == manual = <<>> /\ Queue(c, "synth", 1)

(* ST_PENDING(t) += units is a read and a write: with the lock held, but   *)
(* addTextRun does not ask for the lock.                                   *)
CommitRead(c) ==
  /\ pc[c] = "read"
  /\ found' = pending
  /\ Goto(c, "commit")
  /\ UNCHANGED <<manualVars, threadVars, asking, pending, synthesizing, lock,
                 claimed, appVars, busy, doing, hand, historyVars>>

Commit(c) ==
  /\ pc[c] = "commit"
  /\ posted' = claimed.n
  /\ pending' = found + claimed.units
  /\ synthesizing' = TRUE
  /\ claimed' = Nothing
  /\ found' = 0
  /\ lock' = Nobody
  /\ Goto(c, IF wanted = "none" THEN "idle" ELSE "manual")
  /\ UNCHANGED <<manualVars, threadVars, asking, seen, items, closed, held,
                 stopping, busy, doing, hand, historyVars>>

-----------------------------------------------------------------------------
(* The caller's own queue (eci_text.c, eci_sync.c).                        *)

(* et_addToManualQueue, in the mode that keeps text and marks back.        *)
AddToManualQueue(c) ==
  /\ "later" \in MayDo[c]
  /\ Free(c)
  /\ MaxPosted - posted - Len(manual) > 1
  /\ \/ \E n \in Lengths :
          manual' = Append(manual, [kind |-> "text", units |-> n])
     \/ manual' = Append(manual, [kind |-> "mark", units |-> 1])
  /\ UNCHANGED <<wanted, semaphoreVars, loose, threadVars, asking, countVars,
                 appVars, callVars, historyVars>>

ClearInput(c) ==
  /\ "clear" \in MayDo[c]
  /\ Free(c)
  /\ manual # <<>>
  /\ manual' = <<>>
  /\ UNCHANGED <<wanted, semaphoreVars, loose, threadVars, asking, countVars,
                 appVars, callVars, historyVars>>

(* et_processManualQueue, for a text or a synthesize that finds something  *)
(* kept back.  The block is queued and not counted.  Bounds: one of them   *)
(* is on the queue at a time, and MaxLoose.                                *)
Block(c) ==
  /\ Free(c)
  /\ manual # <<>>
  /\ ~Contains(inbox, BlockMessage) /\ blocker <= MaxLoose
  /\ wanted' \in MayDo[c] \cap {"text", "synth"}
  /\ inbox' = Append(inbox, BlockMessage)
  /\ Goto(c, "manual")
  /\ UNCHANGED <<manual, semaphoreVars, loose, run, tpc, len, read, engine,
                 asking, countVars, appVars, busy, doing, hand, historyVars>>

(* One element after another, each behind the settings that changed.       *)
ReadOut(c) ==
  /\ pc[c] = "manual"
  /\ manual # <<>>
  /\ Put(c, Head(manual).kind, Head(manual).units)
  /\ manual' = Tail(manual)
  /\ UNCHANGED wanted

ReadOutChange(c) ==
  /\ pc[c] = "manual"
  /\ "change" \in MayDo[c]
  /\ manual # <<>> /\ Spare > 0
  /\ Put(c, "change", 1)
  /\ UNCHANGED <<manual, wanted>>

(* A failure throws away what is left, and nothing more is queued.         *)
ReadOutFails(c) ==
  /\ pc[c] = "manual"
  /\ manual # <<>>
  /\ manual' = <<>>
  /\ wanted' = "none"
  /\ Goto(c, "unblock")
  /\ UNCHANGED <<semaphoreVars, loose, threadVars, asking, countVars, appVars,
                 busy, doing, hand, historyVars>>

ReadOutAll(c) ==
  /\ pc[c] = "manual"
  /\ manual = <<>>
  /\ Goto(c, "unblock")
  /\ UNCHANGED <<manualVars, threadVars, asking, countVars, appVars, busy,
                 doing, hand, historyVars>>

(* sy_semRelease: slips and the code, who wakes and who has to wait.       *)
WakesLate(count) == count < 0
Wakes(count) == count <= 0

Unblock(c) ==
  /\ pc[c] = "unblock"
  /\ blocker' = blocker + 1
  /\ gate' = (gate \/ Wakes(blocker + 1))
  /\ Goto(c, IF wanted = "none" THEN "idle" ELSE "post")
  /\ UNCHANGED <<manual, wanted, loose, threadVars, asking, countVars, appVars,
                 busy, doing, hand, historyVars>>

(* And then what it was read out for.                                      *)
PostWanted(c) ==
  /\ pc[c] = "post"
  /\ \E units \in IF wanted = "text" THEN Lengths ELSE {1} : Put(c, wanted, units)
  /\ wanted' = "none"
  /\ UNCHANGED manual

ManualStep(c) ==
  \/ ReadOut(c) \/ ReadOutChange(c) \/ ReadOutFails(c) \/ ReadOutAll(c)
  \/ Unblock(c) \/ PostWanted(c)

(* blockRun: sy_semWait, on the synthesis thread.                          *)
WaitsLate(count) == count < -1
Waits(count) == count < 0

TBlock ==
  /\ tpc = "block"
  /\ blocker' = blocker - 1
  /\ IF Waits(blocker - 1)
       THEN TGoto("held") /\ UNCHANGED <<run, len>>
       ELSE Done
  /\ UNCHANGED <<manual, wanted, gate, loose, inbox, read, engine, asking,
                 countVars, appVars, callVars, historyVars>>

TLetGo ==
  /\ tpc = "held"
  /\ gate
  /\ gate' = FALSE
  /\ Done
  /\ UNCHANGED <<manual, wanted, blocker, loose, inbox, read, engine, asking,
                 countVars, appVars, callVars, historyVars>>

-----------------------------------------------------------------------------
(* The synthesis thread.                                                   *)

(* What the message in hand stands for once a text has been filtered.      *)
RunStandsFor == IF run.kind = "text" THEN len ELSE run.units

(* Slips the runs must be able to tell from the code: a text is counted    *)
(* off as one; a parameter change gives up before it is counted; the short *)
(* buffer at the end is forgotten; every synthesize says all is said.      *)
CountByMessage ==
  /\ tpc = "count"
  /\ lock = Nobody
  /\ pending' = pending - 1
  /\ Done
  /\ UNCHANGED <<manualVars, inbox, read, engine, asking, synthesizing, lock,
                 claimed, found, appVars, callVars, historyVars>>

ChangeNotCounted ==
  /\ tpc = "count"
  /\ lock = Nobody
  /\ pending' = IF run.kind = "change" THEN pending
                ELSE pending - RunStandsFor
  /\ Done
  /\ UNCHANGED <<manualVars, inbox, read, engine, asking, synthesizing, lock,
                 claimed, found, appVars, callVars, historyVars>>

CloseWithoutRemaining ==
  /\ tpc = "close"
  /\ lock = Nobody
  /\ TGoto("tell")
  /\ UNCHANGED <<manualVars, inbox, run, len, read, engine, asking, countVars,
                 appVars, callVars, historyVars>>

(* qt_run hands the next message to its run.  Most parameter changes push  *)
(* what is half processed through first, some only if they change anything.*)
TTake ==
  /\ tpc = "idle"
  /\ inbox # <<>>
  /\ run' = Head(inbox)
  /\ inbox' = Tail(inbox)
  /\ \/ run'.kind = "text" /\ TGoto("filter")
     \/ run'.kind = "mark" /\ TGoto("enter")
     \/ run'.kind = "block" /\ TGoto("block")
     \/ run'.kind = "change" /\ \E next \in {"flush", "count"} : TGoto(next)
     \/ run'.kind = "synth" /\ TGoto("wind")
  /\ UNCHANGED <<manualVars, len, read, engine, asking, countVars, appVars,
                 callVars, historyVars>>

(* addTextRun: filters and recoding may change the length, and what is     *)
(* outstanding has to follow it.  ST_LOCK is not held here.                *)
TFilter ==
  /\ tpc = "filter"
  /\ \E became \in {run.units} \cup Rewritten :
       /\ len' = became
       /\ IF became = run.units
          THEN TGoto("enter") /\ UNCHANGED read
          ELSE TGoto("adjust") /\ read' = pending
  /\ UNCHANGED <<manualVars, inbox, run, engine, asking, countVars, appVars,
                 callVars, historyVars>>

TAdjust ==
  /\ tpc = "adjust"
  /\ pending' = read + (len - run.units)
  /\ read' = 0
  /\ TGoto("enter")
  /\ UNCHANGED <<manualVars, inbox, run, len, engine, asking, synthesizing,
                 lock, claimed, found, appVars, callVars, historyVars>>

(* The engine is given the text, or the mark behind the text before it.    *)
TEnter ==
  /\ tpc = "enter"
  /\ engine' = Append(engine,
                 [what |-> IF run.kind = "text" THEN "sound" ELSE "mark",
                  n |-> run.n])
  /\ TGoto(IF run.kind = "text" THEN "speak" ELSE "count")
  /\ UNCHANGED <<manualVars, inbox, run, len, read, asking, countVars, appVars,
                 callVars, historyVars>>

(* The engine comes out with what is next.  A suspended application queue  *)
(* refuses it, and it is gone.  At the end of a run of speech only samples *)
(* short of a whole buffer are left to go.                                 *)
Say ==
  /\ \/ tpc \in {"speak", "flush"}
     \/ tpc = "remain" /\ Len(engine) = 1
  /\ ~asking
  /\ engine # <<>>
  /\ engine' = Tail(engine)
  /\ items' = IF closed THEN items ELSE Append(items, Head(engine))
  /\ UNCHANGED <<manualVars, inbox, run, tpc, len, read, countVars, posted,
                 seen, closed, held, stopping, callVars, historyVars>>

(* A whole buffer, or the rest of one, is sent: the thread waits for it.   *)
TSendSamples == Say /\ Head(engine).what = "sound" /\ asking' = ~closed

(* A mark the engine has reached is posted.                                *)
TPostMark == Say /\ Head(engine).what = "mark" /\ UNCHANGED asking

(* How much of a text comes out before the next one is the engine's affair.*)
TSpoken ==
  /\ tpc = "speak"
  /\ ~asking
  /\ TGoto("count")
  /\ UNCHANGED <<manualVars, inbox, run, len, read, engine, asking, countVars,
                 appVars, callVars, historyVars>>

(* stw_processRemaining: everything comes out, but for samples that do not *)
(* fill the caller's buffer.                                               *)
TFlushed ==
  /\ tpc = "flush"
  /\ ~asking
  /\ Len(engine) <= 1
  /\ engine # <<>> => Head(engine).what = "sound"
  /\ TGoto(IF run.kind = "change" THEN "count" ELSE "close")
  /\ UNCHANGED <<manualVars, inbox, run, len, read, engine, asking, countVars,
                 appVars, callVars, historyVars>>

(* finished() and its like: what the message stood for is done.            *)
TCount ==
  /\ tpc = "count"
  /\ lock = Nobody
  /\ pending' = pending - RunStandsFor
  /\ Done
  /\ UNCHANGED <<manualVars, inbox, read, engine, asking, synthesizing, lock,
                 claimed, found, appVars, callVars, historyVars>>

(* synthesizeRun: the last thing outstanding flushes the engine.           *)
TWind ==
  /\ tpc = "wind"
  /\ lock = Nobody
  /\ pending' = pending - 1
  /\ TGoto(IF pending' = 0 THEN "flush" ELSE "close")
  /\ UNCHANGED <<manualVars, inbox, run, len, read, engine, asking,
                 synthesizing, lock, claimed, found, appVars, callVars,
                 historyVars>>

(* stw_shutDown: if nothing else has come, the short buffer goes across.   *)
TClose ==
  /\ tpc = "close"
  /\ lock = Nobody
  /\ TGoto(IF pending = 0 THEN "remain" ELSE "tell")
  /\ UNCHANGED <<manualVars, inbox, run, len, read, engine, asking, countVars,
                 appVars, callVars, historyVars>>

TRemained ==
  /\ tpc = "remain"
  /\ ~asking
  /\ Len(engine) # 1
  /\ TGoto("tell")
  /\ UNCHANGED <<manualVars, inbox, run, len, read, engine, asking, countVars,
                 appVars, callVars, historyVars>>

(* stw_stopSynthesis: if still nothing else has come, it has all been said.*)
TTell ==
  /\ tpc = "tell"
  /\ lock = Nobody
  /\ items' = IF pending # 0 \/ closed THEN items
              ELSE Append(items, [what |-> "count", n |-> run.n])
  /\ Done
  /\ UNCHANGED <<manualVars, inbox, read, engine, asking, countVars, posted,
                 seen, closed, held, stopping, callVars, historyVars>>

ThreadStep ==
  \/ TTake \/ TBlock \/ TLetGo
  \/ TFilter \/ TAdjust \/ TEnter \/ TSendSamples \/ TPostMark
  \/ TSpoken \/ TFlushed \/ TCount \/ TWind \/ TClose \/ TRemained \/ TTell

-----------------------------------------------------------------------------
(* Collecting: eo_speaking over aq_poll, es_synchronize over               *)
(* aq_synchronize.  The call looks at OI_BUSY first and sets it a step     *)
(* later; the callback runs inside it, on the caller's thread.             *)

(* More slips: a message put off is not given first go; a stop forgets     *)
(* what was posted and not what was collected, or does not wait for the    *)
(* thread, or waits before it has answered it, or leaves ST_POSTED up.     *)
LookAtTheQueueOnly(c) ==
  /\ pc[c] = "look"
  /\ Goto(c, IF stopping \/ posted = seen THEN "leave" ELSE "pop")
  /\ UNCHANGED <<manualVars, threadVars, asking, countVars, appVars, busy,
                 doing, hand, historyVars>>

RecountPosted(c) ==
  /\ pc[c] = "recount"
  /\ posted' = 0
  /\ Goto(c, "reopen")
  /\ UNCHANGED <<manualVars, threadVars, asking, countVars, seen, items, closed,
                 held, stopping, busy, doing, hand, historyVars>>

TurnNotAwaited(c) ==
  /\ pc[c] = "turn"
  /\ Goto(c, "reset")
  /\ UNCHANGED <<manualVars, threadVars, asking, countVars, appVars, busy,
                 doing, hand, historyVars>>

SuspendUnanswered(c) ==
  /\ pc[c] = "suspend"
  /\ items' = <<>>
  /\ held' = Nothing
  /\ closed' = TRUE
  /\ Goto(c, "quiesce")
  /\ UNCHANGED <<manualVars, threadVars, asking, countVars, posted, seen,
                 stopping, busy, doing, hand, historyVars>>

(* Nobody waits for the end of speech nobody asked for: synchronizing is   *)
(* for after a synthesize.                                                 *)
Ask(c, call) ==
  /\ call \in MayDo[c] \cap Calls
  /\ pc[c] = "idle"
  /\ lock = Nobody
  /\ \A d \in Callers : pc[d] \notin ManualPC
  /\ call = "sync" => last = "synth"
  /\ doing' = [doing EXCEPT ![c] = call]
  /\ Goto(c, "asked")
  /\ UNCHANGED <<manualVars, threadVars, asking, countVars, appVars, busy, hand,
                 historyVars>>

(* eo_reentered: refused while another call is running.                    *)
Check(c) ==
  /\ pc[c] = "asked"
  /\ Goto(c, IF busy THEN "idle" ELSE "enter")
  /\ UNCHANGED <<manualVars, threadVars, asking, countVars, appVars, busy,
                 doing, hand, historyVars>>

Enter(c) ==
  /\ pc[c] = "enter"
  /\ busy' = TRUE
  /\ Goto(c, IF doing[c] = "stop" THEN "interrupt" ELSE "look")
  /\ manual' = IF doing[c] = "stop" THEN <<>> ELSE manual
  /\ UNCHANGED <<wanted, semaphoreVars, loose, threadVars, asking, countVars,
                 appVars, doing, hand, historyVars>>

(* Paused, or nothing outstanding: nothing is taken.  A poll gives what    *)
(* the callback put off first go; a synchronize does not look for it.      *)
Look(c) ==
  /\ pc[c] = "look"
  /\ Goto(c, IF stopping \/ posted = seen THEN "leave"
             ELSE IF doing[c] = "poll" /\ held # Nothing THEN "recall"
             ELSE "pop")
  /\ UNCHANGED <<manualVars, threadVars, asking, countVars, appVars, busy,
                 doing, hand, historyVars>>

(* aq_finish: a sender is told, and the item let go.                       *)
Finish(item) == asking' = (asking /\ item.what # "sound")

Hear(item) == heard' = Append(heard, item.n)

RecallTook(c) ==
  /\ pc[c] = "recall"
  /\ "took" \in Answers
  /\ Finish(held) /\ Hear(held)
  /\ held' = Nothing
  /\ Goto(c, "leave")
  /\ UNCHANGED <<manualVars, threadVars, countVars, posted, seen, items, closed,
                 stopping, busy, doing, hand, last, due>>

RecallPutOff(c) ==
  /\ pc[c] = "recall"
  /\ "again" \in Answers
  /\ Goto(c, "leave")
  /\ UNCHANGED <<manualVars, threadVars, asking, countVars, appVars, busy,
                 doing, hand, historyVars>>

RecallAborted(c) ==
  /\ pc[c] = "recall"
  /\ "abort" \in Answers
  /\ Finish(held)
  /\ held' = Nothing
  /\ Goto(c, "abort")
  /\ UNCHANGED <<manualVars, threadVars, countVars, posted, seen, items, closed,
                 stopping, busy, doing, hand, historyVars>>

(* A poll that finds nothing goes away; a synchronize sleeps.              *)
Pop(c) ==
  /\ pc[c] = "pop"
  /\ \/ /\ items # <<>>
        /\ hand' = [hand EXCEPT ![c] = Head(items)]
        /\ items' = Tail(items)
        /\ Goto(c, IF Head(items).what = "count" THEN "collect" ELSE "call")
     \/ /\ items = <<>>
        /\ doing[c] = "poll"
        /\ Goto(c, "leave")
        /\ UNCHANGED <<manualVars, hand, items>>
  /\ UNCHANGED <<manualVars, threadVars, asking, countVars, posted, seen,
                 closed, held, stopping, busy, doing, historyVars>>

Collect(c) ==
  /\ pc[c] = "collect"
  /\ seen' = hand[c].n
  /\ hand' = [hand EXCEPT ![c] = Nothing]
  /\ Goto(c, IF seen' = posted THEN "caught" ELSE "pop")
  /\ UNCHANGED <<manualVars, threadVars, asking, countVars, posted, items,
                 closed, held, stopping, busy, doing, historyVars>>

(* stw_poll, stw_synchronize: catching up means nothing is outstanding.    *)
Caught(c) ==
  /\ pc[c] = "caught"
  /\ synthesizing' = FALSE
  /\ Goto(c, "leave")
  /\ UNCHANGED <<manualVars, threadVars, asking, pending, lock, claimed, found,
                 appVars, busy, doing, hand, historyVars>>

(* The callback has answered.  Asked to come again, a poll keeps the item  *)
(* for the next one and a synchronize sleeps and calls again, which        *)
(* changes nothing and is no step here.                                    *)
CallTook(c) ==
  /\ pc[c] = "call"
  /\ "took" \in Answers
  /\ Finish(hand[c]) /\ Hear(hand[c])
  /\ hand' = [hand EXCEPT ![c] = Nothing]
  /\ Goto(c, "pop")
  /\ UNCHANGED <<manualVars, threadVars, countVars, appVars, busy, doing, last,
                 due>>

CallPutOff(c) ==
  /\ pc[c] = "call"
  /\ "again" \in Answers
  /\ doing[c] = "poll"
  /\ held' = hand[c]
  /\ hand' = [hand EXCEPT ![c] = Nothing]
  /\ Goto(c, "leave")
  /\ UNCHANGED <<manualVars, threadVars, asking, countVars, posted, seen, items,
                 closed, stopping, busy, doing, historyVars>>

CallAborted(c) ==
  /\ pc[c] = "call"
  /\ "abort" \in Answers
  /\ Finish(hand[c])
  /\ hand' = [hand EXCEPT ![c] = Nothing]
  /\ Goto(c, "abort")
  /\ UNCHANGED <<manualVars, threadVars, countVars, appVars, busy, doing,
                 historyVars>>

Leave(c) ==
  /\ pc[c] = "leave"
  /\ busy' = FALSE
  /\ Goto(c, "idle")
  /\ UNCHANGED <<manualVars, threadVars, asking, countVars, appVars, doing,
                 hand, historyVars>>

(* An aborted call lets go of the instance and stops it.                   *)
Abort(c) ==
  /\ pc[c] = "abort"
  /\ busy' = FALSE
  /\ doing' = [doing EXCEPT ![c] = "stop"]
  /\ Goto(c, "asked")
  /\ UNCHANGED <<manualVars, threadVars, asking, countVars, appVars, hand,
                 historyVars>>

(* es_pause looks at OI_BUSY and does not set it.                          *)
Pause(c) ==
  /\ "pause" \in MayDo[c]
  /\ pc[c] = "idle"
  /\ ~busy
  /\ stopping' = ~stopping
  /\ UNCHANGED <<manualVars, threadVars, asking, countVars, posted, seen, items,
                 closed, held, callVars, historyVars>>

-----------------------------------------------------------------------------
(* Stopping: eo_stop and stl_stop, in the order stl_stop does it.          *)

(* The engine is told, under the lock.  It cannot abandon what it is on;   *)
(* what it leaves out from here on is thrown away with the rest.           *)
Interrupt(c) ==
  /\ pc[c] = "interrupt"
  /\ lock = Nobody
  /\ Goto(c, "suspend")
  /\ UNCHANGED <<manualVars, threadVars, asking, countVars, appVars, busy,
                 doing, hand, historyVars>>

(* aq_suspend: everything on the application queue, and what was put off,  *)
(* is answered and let go; what a caller has in hand is that caller's.     *)
SuspendApp(c) ==
  /\ pc[c] = "suspend"
  /\ asking' = (asking /\ \E d \in Callers : pc[d] = "call" /\
                                             hand[d].what = "sound")
  /\ items' = <<>>
  /\ held' = Nothing
  /\ closed' = TRUE
  /\ Goto(c, "quiesce")
  /\ UNCHANGED <<manualVars, threadVars, countVars, posted, seen, stopping,
                 busy, doing, hand, historyVars>>

(* stm_qtSuspend: no more messages, and wait for the one in hand.          *)
Quiesce(c) ==
  /\ pc[c] = "quiesce"
  /\ inbox' = <<>>
  /\ loose' = (loose \/ Contains(inbox, BlockMessage))
  /\ Goto(c, "turn")
  /\ UNCHANGED <<manual, wanted, semaphoreVars, run, tpc, len, read, engine,
                 asking, countVars, appVars, busy, doing, hand, historyVars>>

AwaitTurn(c) ==
  /\ pc[c] = "turn"
  /\ tpc = "idle"
  /\ Goto(c, "reset")
  /\ UNCHANGED <<manualVars, threadVars, asking, countVars, appVars, busy,
                 doing, hand, historyVars>>

Reset(c) ==
  /\ pc[c] = "reset"
  /\ engine' = <<>>
  /\ pending' = 0
  /\ synthesizing' = FALSE
  /\ Goto(c, "recount")
  /\ UNCHANGED <<manualVars, inbox, run, tpc, len, read, asking, lock, claimed,
                 found, appVars, busy, doing, hand, historyVars>>

(* The application queue forgets both what it was told and what it has     *)
(* collected, and is let go.                                               *)
Recount(c) ==
  /\ pc[c] = "recount"
  /\ posted' = 0
  /\ seen' = 0
  /\ Goto(c, "reopen")
  /\ UNCHANGED <<manualVars, threadVars, asking, countVars, items, closed, held,
                 stopping, busy, doing, hand, historyVars>>

Reopen(c) ==
  /\ pc[c] = "reopen"
  /\ stopping' = FALSE
  /\ closed' = FALSE
  /\ last' = "synth"
  /\ due' = <<>>
  /\ heard' = <<>>
  /\ Goto(c, "leave")
  /\ UNCHANGED <<manualVars, threadVars, asking, countVars, posted, seen, items,
                 held, busy, doing, hand>>

StopStep(c) ==
  \/ Interrupt(c) \/ SuspendApp(c) \/ Quiesce(c) \/ AwaitTurn(c)
  \/ Reset(c) \/ Recount(c) \/ Reopen(c)

(* Everything a caller does once it has started a call.                    *)
CallerStep(c) ==
  \/ CommitRead(c) \/ Commit(c) \/ ManualStep(c)
  \/ Check(c) \/ Enter(c) \/ Look(c) \/ RecallTook(c) \/ RecallPutOff(c)
  \/ RecallAborted(c) \/ Pop(c) \/ Collect(c) \/ Caught(c)
  \/ CallTook(c) \/ CallPutOff(c) \/ CallAborted(c)
  \/ Leave(c) \/ Abort(c) \/ StopStep(c)

CallerStart(c) ==
  \/ QueueText(c) \/ QueueMark(c) \/ QueueChange(c) \/ QueueSynthesize(c)
  \/ AddToManualQueue(c) \/ ClearInput(c) \/ Block(c)
  \/ Pause(c)
  \/ \E call \in Calls : Ask(c, call)

Next ==
  \/ ThreadStep
  \/ \E c \in Callers : CallerStart(c) \/ CallerStep(c)

Spec == Init /\ [][Next]_vars

(* A thread that can go on goes on; nobody has to start a call, and a      *)
(* callback does not put the same thing off for ever.                      *)
Fairness ==
  /\ WF_vars(ThreadStep)
  /\ \A c \in Callers :
       /\ WF_vars(CallerStep(c))
       /\ SF_vars(CallTook(c)) /\ SF_vars(RecallTook(c))

FairSpec == Spec /\ Fairness

(* An application that asks whether it is still speaking, again and again. *)
PollingSpec ==
  FairSpec /\ \A c \in Callers : SF_vars(Ask(c, "poll"))

-----------------------------------------------------------------------------
(* What an application may rely on.                                        *)

AllIdle == \A c \in Callers : pc[c] = "idle"

(* The units the message in the thread's hand still stands for.            *)
RunUnits ==
  IF tpc = "idle" \/ (run.kind = "synth" /\ tpc # "wind") THEN 0
  ELSE IF tpc \in {"filter", "adjust"} THEN run.units
  ELSE RunStandsFor

UnitsOf(queue) ==
  LET upTo[i \in 0..Len(queue)] ==
        IF i = 0 THEN 0 ELSE upTo[i - 1] + queue[i].units
  IN  upTo[Len(queue)]

Outstanding == UnitsOf(inbox) + RunUnits

(* ST_PENDING is what is outstanding: the units on the thread's queue and  *)
(* in its hand, but for a message a sender has posted and not committed.   *)
(* It is what decides that everything has been said (postAndCommit,        *)
(* finished, addTextRun, synthesizeRun, stl_stop).                         *)
PendingIsOwed ==
  (\A c \in Callers : pc[c] \notin {"turn", "reset"}) =>
    pending = Outstanding - (IF claimed = Nothing THEN 0 ELSE claimed.units)

(* Two equal counts mean there is nothing outstanding: nothing to be run,  *)
(* spoken, collected or seen later, but for blocks whose reading out came  *)
(* to nothing.  stl_stop puts both back for that (aq_poll, aq_synchronize, *)
(* stw_stopSynthesis).                                                     *)
EqualMeansNothing ==
  AllIdle /\ posted = seen =>
    /\ ToSet(inbox) \subseteq {BlockMessage}
    /\ tpc \in {"idle", "block", "held"} /\ engine = <<>>
    /\ items = <<>> /\ held = Nothing

(* The callback takes what was queued in the order it was queued, nothing  *)
(* twice and nothing left out in between, whatever it puts off.            *)
HeardInOrder == IsPrefix(heard, due)

(* And once the counts are equal it has taken all of it.                   *)
CaughtUpHeardAll == AllIdle /\ posted = seen => heard = due

(* From the quiet of a stop to the end of it nothing is left of what was   *)
(* thrown away, and the thread does nothing (stl_stop).                    *)
StopIsClean ==
  \A c \in Callers :
    pc[c] \in {"reset", "recount", "reopen"} =>
      /\ inbox = <<>> /\ tpc = "idle" /\ ~asking
      /\ items = <<>> /\ held = Nothing

(* "The engine is blocked for the whole run so that nothing is spoken until *)
(* the queue has been read out": while a caller reads its queue out the     *)
(* thread is held, or the block is still before it, unless a stop has ever  *)
(* thrown a block away, whose release is then spent on the next one.        *)
HeldWhileRead ==
  (wanted # "none" /\ \E c \in Callers : pc[c] \in {"manual", "read", "commit"})
    => loose \/ tpc \in {"block", "held"} \/ Contains(inbox, BlockMessage)

(* A stop comes back, whatever the thread and the callback are in the      *)
(* middle of (stl_stop: the thread is answered before it is waited for).   *)
EveryStopReturns ==
  \A c \in Callers : pc[c] = "interrupt" ~> pc[c] = "idle"

(* A thread that has been held is let go, whatever became of the reading   *)
(* out ("unblocked at the end whatever happened").                         *)
HeldIsLetGo == tpc = "held" ~> tpc # "held"

(* Waiting for everything to be spoken ends (es_synchronize).              *)
EverySynchronizeReturns ==
  \A c \in Callers :
    pc[c] = "look" /\ doing[c] = "sync" ~> pc[c] = "idle"

(* An application that goes on asking hears everything it had synthesized: *)
(* the counts come together, unless it queues more (eo_speaking).          *)
PollingCatchesUp ==
  last = "synth" /\ posted # seen ~> posted = seen \/ last # "synth"
=============================================================================
