------------------------------- MODULE Driver -------------------------------
(***************************************************************************)
(* The screen reader's driver over the library: class Engine of            *)
(* nvda/addon/synthDrivers/_openevv.py, and the calls openevv.py makes of  *)
(* it.                                                                     *)
(*                                                                         *)
(* Three threads.  The reader posts utterances, in pieces, and settings,   *)
(* and cancels, pauses and closes.  The engine's thread runs what was      *)
(* posted, in order, and stands in the wave player while that is full.     *)
(* The watchdog looks whether it has stood there too long, and cancels.    *)
(* A cancel interrupts nothing: it has the samples thrown away until a     *)
(* step it posts itself says to stop throwing.                             *)
(*                                                                         *)
(* The wave player is NVDA's and the samples are the library's; both are   *)
(* modelled from how this file uses them.                                  *)
(***************************************************************************)
EXTENDS Integers, Sequences, SequencesExt

CONSTANTS
  Script,      \* the utterances, each a sequence of pieces, each a sequence
               \* of what the library hands over for it
  Room,        \* how many buffers the player takes before a feed has to wait
  MaxCalls     \* bound: how often the reader does something else than speak:
               \* makes a setting, pauses, cancels or closes

(* What the library hands over: a buffer, short of FEED_AT or not, or a    *)
(* mark, by its number.                                                    *)
FEED_AT == 2
Short == [size |-> 1, mark |-> 0]
Full == [size |-> FEED_AT, mark |-> 0]
Mark(n) == [size |-> 0, mark |-> n]

Pieces == Seq([size : 0..FEED_AT, mark : Nat])
ASSUME ScriptAssumption == Script \in Seq(Seq(Pieces) \ {<<>>})
ASSUME RoomAssumption == Room \in Nat \ {0}

(* What is on the queue of work.                                           *)
Speech(u, p) == [kind |-> "speech", n |-> u, piece |-> p]
Setting(n) == [kind |-> "setting", n |-> n, piece |-> 0]
Resume == [kind |-> "resume", n |-> 0, piece |-> 0]
Closing == [kind |-> "close", n |-> 0, piece |-> 0]

Threads == {"reader", "engine", "watchdog"}
Cancellers == {"reader", "watchdog"}

VARIABLES
  work,        \* _work
  discarding,  \* _discarding
  finished,    \* _finished
  since,       \* _blockedSince: "none", "now", or "long" once STUCK_AFTER is up
  paused,      \* _paused, and the player's own
  watching,    \* not _stopWatching
  pc,          \* where each thread is
  hand,        \* the item the engine's thread is running
  event,       \* how far the library has got with the piece in hand
  held,        \* _held, how much audio it is
  out,         \* the buffer a feed is about
  keep,        \* what the _drain of each canceller has kept
  spoken,      \* how many utterances the reader has begun to post
  piece,       \* and how many pieces of the last
  calls,       \* how many of the other calls it has made
  sets,        \* and how many of those were settings
  player,      \* the buffers in the player
  stalled,     \* whether it has stopped taking audio
  kicked,      \* whether it was stopped since the engine's thread went in
  fault,       \* bound: the one thing that goes wrong with the player
  reported,    \* history: the marks reported
  applied,     \* history: the settings made
  cut,         \* history: the utterances posted when the reader last stopped
               \* the player
  leaked,      \* history: how many buffers of theirs went in since
  overlapped,  \* history: whether the resume of another cancel could come
               \* between that one's steps
  waiting,     \* history: whether the reader waits to hear that the last
               \* utterance it posted is over
  flight,      \* history: the utterance last in flight
  tells,       \* history: how often the end of it was told
  raced,       \* history: whether two threads were in _finish over it, or the
               \* watchdog came there when speech was let through again
  untold,      \* history: whether the watchdog dropped speech over an
               \* utterance whose end had been told
  whole        \* history: how many pieces of the utterance in flight have been
               \* begun, the first and one behind the other, with nothing
               \* refused or silenced

posted == <<spoken, piece, calls, sets>>
callback == <<event, held, out>>
playing == <<player, stalled, kicked, fault>>
silence == <<cut, leaked, overlapped>>
told == <<flight, tells, raced, untold>>
history == <<reported, applied, silence, waiting, whole, told>>
clock == <<finished, since>>
readerOwn == <<paused, watching, posted>>     \* only the reader changes these,
engineOwn == <<hand, callback, applied>>      \* only the engine's thread these
vars == <<work, discarding, clock, pc, keep, readerOwn, hand, callback, playing,
          history>>

Nothing == [of |-> 0, marks |-> <<>>]

Init ==
  /\ work = <<>>
  /\ discarding = FALSE
  /\ finished = TRUE
  /\ since = "none"
  /\ paused = FALSE
  /\ watching = TRUE
  /\ pc = [t \in Threads |-> CASE t = "reader" -> "free"
                              [] t = "engine" -> "get"
                              [] t = "watchdog" -> "look"]
  /\ hand = Resume
  /\ event = 0 /\ held = 0 /\ out = Nothing
  /\ keep = [c \in Cancellers |-> <<>>]
  /\ spoken = 0 /\ piece = 0 /\ calls = 0 /\ sets = 0
  /\ player = <<>> /\ stalled = FALSE /\ kicked = FALSE /\ fault = "none"
  /\ reported = {} /\ applied = {}
  /\ cut = 0 /\ leaked = 0 /\ overlapped = FALSE
  /\ waiting = FALSE /\ flight = 0 /\ tells = 0 /\ raced = FALSE
  /\ untold = FALSE /\ whole = 0

Go(t, place) == pc' = [pc EXCEPT ![t] = place]
At(t, place) == pc[t] = place

(* Whether a thread is between the steps of cancel.                        *)
Canceling(c) == pc[c] \in {"stop", "drain", "putback"}

-----------------------------------------------------------------------------
(* The reader's thread.                                                    *)

(* speak: a queue item for every piece, put one after the other.           *)
Speak ==
  /\ At("reader", "free")
  /\ spoken < Len(Script)
  /\ spoken' = spoken + 1
  /\ piece' = 0
  /\ waiting' = TRUE
  /\ Go("reader", "posting")
  /\ UNCHANGED <<engineOwn, playing, told, silence, clock, work, discarding,
                 paused, watching, keep, calls, sets, reported, whole>>

Post ==
  /\ At("reader", "posting")
  /\ piece' = piece + 1
  /\ work' = Append(work, Speech(spoken, piece + 1))
  /\ Go("reader", IF piece + 1 = Len(Script[spoken]) THEN "free" ELSE "posting")
  /\ UNCHANGED <<history, playing, callback, clock, discarding, paused,
                 watching, hand, keep, spoken, calls, sets>>

(* control, with one call in it.                                           *)
Control ==
  /\ At("reader", "free")
  /\ calls < MaxCalls
  /\ calls' = calls + 1
  /\ sets' = sets + 1
  /\ work' = Append(work, Setting(sets + 1))
  /\ UNCHANGED <<history, playing, callback, clock, discarding, paused,
                 watching, pc, hand, keep, spoken, piece>>

(* pause: the flag and the player, which nothing comes between that tells  *)
(* them apart.                                                             *)
Pause ==
  /\ At("reader", "free")
  /\ paused \/ calls < MaxCalls
  /\ paused' = ~paused
  /\ calls' = IF paused THEN calls ELSE calls + 1
  /\ UNCHANGED <<history, playing, callback, clock, work, discarding, watching,
                 pc, hand, keep, spoken, piece, sets>>

(* A resume somebody has posted and nobody has run.                        *)
ResumeIsComing ==
  \/ At("engine", "resume")
  \/ Contains(work, Resume)
  \/ \E c \in Cancellers : Contains(keep[c], Resume)

(* The first thing cancel does, whoever calls it.                          *)
Discard(c) ==
  /\ discarding' = TRUE
  /\ whole' = 0
  /\ Go(c, "stop")
  /\ IF c = "reader"
       THEN /\ overlapped' = (ResumeIsComing \/ Canceling("watchdog"))
            /\ cut' = 0 /\ leaked' = 0
       ELSE /\ overlapped' = (overlapped \/ Canceling("reader"))
            /\ UNCHANGED <<cut, leaked>>

Cancel ==
  /\ At("reader", "free")
  /\ calls < MaxCalls
  /\ calls' = calls + 1
  /\ waiting' = FALSE
  /\ Discard("reader")
  /\ UNCHANGED <<engineOwn, playing, told, clock, work, paused, watching, keep,
                 spoken, piece, sets, reported>>

(* close, up to the cancel in it.                                          *)
Close ==
  /\ At("reader", "free")
  /\ watching
  /\ calls < MaxCalls
  /\ calls' = calls + 1
  /\ watching' = FALSE
  /\ waiting' = FALSE
  /\ Discard("reader")
  /\ UNCHANGED <<engineOwn, playing, told, clock, work, paused, keep, spoken,
                 piece, sets, reported>>

(* The rest of it: the sentinel, and the wait for the thread.              *)
PutSentinel ==
  /\ At("reader", "closing")
  /\ work' = Append(work, Closing)
  /\ Go("reader", "join")
  /\ UNCHANGED <<history, readerOwn, playing, callback, clock, discarding, hand,
                 keep>>

Join ==
  /\ At("reader", "join")
  /\ At("engine", "ended")
  /\ player' = <<>>
  /\ Go("reader", "closed")
  /\ UNCHANGED <<history, readerOwn, callback, clock, work, discarding, hand,
                 keep, stalled, kicked, fault>>

(* The wait is five seconds, and a thread that has not come out of the     *)
(* player by then, or waits for work that never comes, is left there with  *)
(* the player open.                                                        *)
Stuck == since = "long" \/ (At("engine", "get") /\ work = <<>>)

GiveUp ==
  /\ At("reader", "join")
  /\ Stuck
  /\ Go("reader", "closed")
  /\ UNCHANGED <<history, readerOwn, playing, callback, clock, work, discarding,
                 hand, keep>>

-----------------------------------------------------------------------------
(* The rest of cancel, for the reader and for the watchdog.                *)

(* player.stop: what is in it is gone, and nobody waits in it any longer.  *)
Stop(c) ==
  /\ At(c, "stop")
  /\ player' = <<>>
  /\ stalled' = FALSE
  /\ kicked' = TRUE
  /\ cut' = IF c = "reader" THEN spoken ELSE cut
  /\ whole' = 0
  /\ Go(c, "drain")
  /\ UNCHANGED <<readerOwn, engineOwn, told, clock, work, discarding, keep,
                 fault, reported, leaked, overlapped, waiting>>

(* _drain: an item at a time until there is none, then what was kept.      *)
KeptNoSetting(item) == item.kind \notin {"speech", "setting"}  \* slips: a drain
KeptNoSentinel(item) == item.kind \notin {"speech", "close"}   \* drops those too
Kept(item) == item.kind # "speech"

DrainOne(c) ==
  /\ At(c, "drain")
  /\ IF work = <<>>
       THEN Go(c, "putback") /\ UNCHANGED <<work, keep>>
       ELSE /\ work' = Tail(work)
            /\ keep' = IF Kept(Head(work))
                         THEN [keep EXCEPT ![c] = Append(@, Head(work))] ELSE keep
            /\ UNCHANGED pc
  /\ UNCHANGED <<history, readerOwn, playing, callback, clock, discarding,
                 hand>>

PutBack(c) ==
  /\ At(c, "putback")
  /\ keep[c] # <<>>
  /\ work' = Append(work, Head(keep[c]))
  /\ keep' = [keep EXCEPT ![c] = Tail(@)]
  /\ UNCHANGED <<history, readerOwn, playing, callback, clock, discarding, pc,
                 hand>>

(* Where a cancel goes back to: the reader's, close, or the watchdog.      *)
OnwardUntold(c) ==       \* slip: nobody says the abandoned utterance finished
  IF c = "watchdog" THEN "look" ELSE IF watching THEN "free" ELSE "closing"
Onward(c) ==
  IF c = "watchdog" THEN "check" ELSE IF watching THEN "free" ELSE "closing"

PutResume(c) ==
  /\ At(c, "putback")
  /\ keep[c] = <<>>
  /\ work' = Append(work, Resume)
  /\ Go(c, Onward(c))
  /\ UNCHANGED <<history, readerOwn, playing, callback, clock, discarding, hand,
                 keep>>

-----------------------------------------------------------------------------
(* _finish, which the engine's thread and the watchdog both call: the test *)
(* of the flag, its assignment and the report are three steps.             *)
ToldNothing == FALSE     \* slip: the flag is not looked at
AlreadyTold == finished

Back(t) == IF t = "engine" THEN "get" ELSE "look"

Check(t) ==
  /\ At(t, "check")
  /\ Go(t, IF AlreadyTold THEN Back(t) ELSE "set")
  /\ raced' = (\/ raced
               \/ ~finished /\ \E o \in Threads \ {t} : At(o, "set")
               \/ t = "watchdog" /\ ~discarding)
  /\ untold' = (untold \/ (finished /\ waiting /\ t = "watchdog"))
  /\ UNCHANGED <<readerOwn, engineOwn, playing, silence, clock, work,
                 discarding, keep, reported, waiting, flight, tells, whole>>

SetFinished(t) ==
  /\ At(t, "set")
  /\ finished' = TRUE
  /\ Go(t, "tell")
  /\ UNCHANGED <<history, readerOwn, playing, callback, work, discarding, since,
                 hand, keep>>

Tell(t) ==
  /\ At(t, "tell")
  /\ waiting' = (waiting /\ t = "engine" /\ hand.n < spoken)
  /\ tells' = tells + 1
  /\ Go(t, Back(t))
  /\ UNCHANGED <<readerOwn, engineOwn, playing, silence, clock, work,
                 discarding, keep, reported, flight, raced, untold, whole>>

-----------------------------------------------------------------------------
(* The engine's thread: _run, one item after another.                      *)
Get ==
  /\ At("engine", "get")
  /\ work # <<>>
  /\ hand' = Head(work)
  /\ work' = Tail(work)
  /\ Go("engine", IF Head(work) = Closing THEN "ended" ELSE Head(work).kind)
  /\ UNCHANGED <<history, readerOwn, playing, callback, clock, discarding,
                 keep>>

RunSetting ==
  /\ At("engine", "setting")
  /\ applied' = applied \cup {hand.n}
  /\ Go("engine", "get")
  /\ UNCHANGED <<readerOwn, playing, told, callback, silence, clock, work,
                 discarding, hand, keep, reported, waiting, whole>>

(* _resume.                                                                *)
ResumeOnlyClears ==      \* slip: what was gathered is dropped, and no more
  /\ At("engine", "resume")
  /\ held' = 0
  /\ Go("engine", "get")
  /\ UNCHANGED <<history, readerOwn, playing, clock, work, discarding, hand,
                 keep, event, out>>
RunResume ==
  /\ At("engine", "resume")
  /\ held' = 0
  /\ discarding' = FALSE
  /\ Go("engine", "get")
  /\ UNCHANGED <<history, readerOwn, playing, clock, work, hand, keep, event,
                 out>>

LastPiece == hand.piece = Len(Script[hand.n])
Events == Script[hand.n][hand.piece]

(* Speech asked for before the silence is not submitted at all.            *)
SkipSpeech ==
  /\ At("engine", "speech")
  /\ discarding
  /\ Go("engine", "get")
  /\ UNCHANGED <<history, readerOwn, playing, callback, clock, work, discarding,
                 hand, keep>>

(* Whether the piece in hand is the first of an utterance, or behind the   *)
(* one that was said last.                                                 *)
Follows == hand.piece = 1 \/ (flight = hand.n /\ hand.piece = whole + 1)

(* _speak, to where the library has started or refused to.                 *)
StartSpeaking ==
  /\ At("engine", "speech")
  /\ ~discarding
  /\ held' = 0 /\ event' = 0
  /\ finished' = FALSE
  /\ flight' = hand.n
  /\ tells' = IF flight = hand.n THEN tells ELSE 0
  /\ raced' = (\/ raced /\ flight = hand.n
               \/ pc["watchdog"] \notin {"look", "ended"})
  /\ \/ /\ Go("engine", "message")
        /\ whole' = IF Follows THEN hand.piece ELSE 0
     \/ /\ Go("engine", IF LastPiece THEN "check" ELSE "get")
        /\ whole' = 0
  /\ UNCHANGED <<readerOwn, playing, silence, work, discarding, since, hand,
                 keep, out, reported, waiting, untold, applied>>

(* _flush, to where it stands in the player or has no reason to: marks     *)
(* with no audio in front of them are reported on the spot.                *)
GoIdle == since' = "now" /\ kicked' = FALSE /\ Go("engine", "idle")

AfterFlush(final) ==
  IF final /\ LastPiece THEN GoIdle
  ELSE since' = "none" /\ Go("engine", IF final THEN "get" ELSE "message")
                       /\ UNCHANGED kicked

NothingToWaitFor(marks, final) ==   \* slip: only audio in hand is waited for
  /\ reported' = reported \cup ToSet(marks)
  /\ since' = "none"
  /\ Go("engine", IF ~final THEN "message"
                  ELSE IF LastPiece THEN "check" ELSE "get")
  /\ UNCHANGED <<out, kicked>>
NothingToFeed(marks, final) ==
  /\ reported' = reported \cup ToSet(marks)
  /\ AfterFlush(final)
  /\ UNCHANGED out

EnterFeed(marks, final) ==
  /\ out' = [of |-> hand.n, marks |-> marks]
  /\ since' = "now" /\ kicked' = FALSE
  /\ Go("engine", IF final THEN "lastfeed" ELSE "feed")
  /\ UNCHANGED reported

Flush(audio, marks, final) ==
  /\ held' = 0
  /\ IF audio > 0 THEN EnterFeed(marks, final) ELSE NothingToFeed(marks, final)

NeverSilenced == FALSE   \* slip: the callback does not look whether it is to drop
Silenced == discarding

(* _message, on what the library hands over next.                          *)
Message ==
  /\ At("engine", "message")
  /\ event < Len(Events)
  /\ event' = event + 1
  /\ LET e == Events[event + 1]
         audio == held + e.size
         marks == IF e.mark = 0 THEN <<>> ELSE <<e.mark>>
     IN  IF ~Silenced /\ (e.mark # 0 \/ audio >= FEED_AT)
           THEN Flush(audio, marks, FALSE)
           ELSE /\ held' = IF Silenced THEN held ELSE audio
                /\ UNCHANGED <<since, pc, out, kicked, reported>>
  /\ UNCHANGED <<readerOwn, told, silence, work, discarding, finished, hand,
                 keep, player, stalled, fault, waiting, whole, applied>>

(* The rest of _speak, once eciSynchronize is back.                        *)
Synchronized ==
  /\ At("engine", "message")
  /\ event = Len(Events)
  /\ IF Silenced
       THEN /\ held' = 0
            /\ Go("engine", "get")
            /\ UNCHANGED <<since, out, kicked, reported>>
       ELSE Flush(held, <<>>, TRUE)
  /\ UNCHANGED <<readerOwn, told, silence, work, discarding, finished, hand,
                 keep, event, player, stalled, fault, waiting, whole, applied>>

InFeed == pc["engine"] \in {"feed", "lastfeed"}

(* player.feed comes back with the buffer taken, or, if the player was     *)
(* stopped over it, perhaps not.                                           *)
Feed ==
  /\ InFeed
  /\ \/ /\ Len(player) < Room
        /\ player' = Append(player, out)
        /\ leaked' = IF out.of <= cut THEN leaked + 1 ELSE leaked
     \/ kicked /\ UNCHANGED <<player, leaked>>
  /\ out' = Nothing
  /\ AfterFlush(At("engine", "lastfeed"))
  /\ UNCHANGED <<readerOwn, told, work, discarding, finished, hand, keep, event,
                 held, stalled, fault, reported, cut, overlapped, waiting,
                 whole, applied>>

(* ... or with an exception.                                               *)
FeedRaises ==
  /\ InFeed
  /\ fault = "none"
  /\ fault' = "feed"
  /\ reported' = reported \cup ToSet(out.marks)
  /\ out' = Nothing
  /\ AfterFlush(At("engine", "lastfeed"))
  /\ UNCHANGED <<readerOwn, told, silence, work, discarding, finished, hand,
                 keep, event, held, player, stalled, waiting, whole, applied>>

(* player.idle: back when everything has been played, or with an exception *)
(* that makes no difference.                                               *)
Idle ==
  /\ At("engine", "idle")
  /\ \/ player = <<>> /\ UNCHANGED fault
     \/ fault = "none" /\ fault' = "idle"
  /\ since' = "none"
  /\ Go("engine", "check")
  /\ UNCHANGED <<history, readerOwn, callback, work, discarding, finished, hand,
                 keep, player, stalled, kicked>>

-----------------------------------------------------------------------------
(* The wave player, and time.                                              *)

(* A buffer has been heard, and the marks hung on it are reported.         *)
Play ==
  /\ player # <<>>
  /\ ~paused /\ ~stalled
  /\ reported' = reported \cup ToSet(Head(player).marks)
  /\ player' = Tail(player)
  /\ UNCHANGED <<readerOwn, engineOwn, told, silence, clock, work, discarding,
                 pc, keep, stalled, kicked, fault, waiting, whole>>

(* Whether the thread stands in the player, which is the only time a stall *)
(* is any different from slow playing.                                     *)
Standing ==
  \/ InFeed /\ Len(player) = Room
  \/ At("engine", "idle") /\ player # <<>>

Stall ==
  /\ Standing
  /\ fault = "none"
  /\ fault' = "stall"
  /\ stalled' = TRUE
  /\ UNCHANGED <<history, readerOwn, callback, clock, work, discarding, pc,
                 hand, keep, player, kicked>>

(* STUCK_AFTER goes by only over a player that takes nothing, for it is    *)
(* longer than any buffer can honestly take to play, and not in the middle *)
(* of what another thread is doing.                                        *)
TimePasses ==
  /\ since = "now"
  /\ Standing
  /\ paused \/ stalled
  /\ pc["reader"] \in {"free", "join", "closed"}
  /\ pc["watchdog"] \in {"look", "ended"}
  /\ since' = "long"
  /\ UNCHANGED <<history, readerOwn, playing, callback, work, discarding,
                 finished, pc, hand, keep>>

-----------------------------------------------------------------------------
(* _watch.  A look at the clock that finds nothing is no step.             *)
Look ==
  /\ At("watchdog", "look")
  /\ watching
  /\ since = "long"
  /\ Go("watchdog", "judge")
  /\ UNCHANGED <<history, readerOwn, playing, callback, clock, work, discarding,
                 hand, keep>>

(* "A pause is meant to stop the player draining, so blocking on one is    *)
(* not a stall."                                                           *)
Excused == paused

Judge ==
  /\ At("watchdog", "judge")
  /\ IF Excused
       THEN /\ Go("watchdog", "look")
            /\ UNCHANGED <<silence, discarding, since, whole>>
       ELSE since' = "none" /\ Discard("watchdog")
  /\ UNCHANGED <<readerOwn, engineOwn, playing, told, work, finished, keep,
                 reported, waiting>>

StopWatching ==
  /\ At("watchdog", "look")
  /\ ~watching
  /\ Go("watchdog", "ended")
  /\ UNCHANGED <<history, readerOwn, playing, callback, clock, work, discarding,
                 hand, keep>>

(* Nothing is asked and nothing is left to do, or everybody but a thread   *)
(* that was given up has gone home.                                        *)
Rest ==
  /\ \/ /\ At("reader", "free") /\ work = <<>>
        /\ At("engine", "get") /\ At("watchdog", "look")
     \/ At("reader", "closed") /\ At("watchdog", "ended")
  /\ UNCHANGED vars

Canceler(c) == Stop(c) \/ DrainOne(c) \/ PutBack(c) \/ PutResume(c)
Teller(t) == Check(t) \/ SetFinished(t) \/ Tell(t)

Reader ==
  \/ Speak \/ Control \/ Pause \/ Cancel \/ Close
  \/ Post \/ PutSentinel \/ Join \/ GiveUp
  \/ Canceler("reader")

Engine ==
  \/ Get \/ RunSetting \/ RunResume \/ SkipSpeech \/ StartSpeaking
  \/ Message \/ Synchronized \/ Feed \/ FeedRaises \/ Idle
  \/ Teller("engine")

Watchdog ==
  Look \/ Judge \/ StopWatching \/ Canceler("watchdog") \/ Teller("watchdog")

Next == Reader \/ Engine \/ Watchdog \/ Play \/ Stall \/ TimePasses \/ Rest

Spec == Init /\ [][Next]_vars

(* A thread with something to do gets to do it, what the player has taken  *)
(* is played unless it is paused or has stalled, and five seconds pass.    *)
(* What the reader asks for, what goes wrong, and whether the library      *)
(* refuses are nobody's duty.                                              *)
Fairness ==
  /\ WF_vars(Post \/ PutSentinel \/ Join \/ GiveUp \/ Canceler("reader"))
  /\ WF_vars(Engine)
  /\ WF_vars(Watchdog)
  /\ WF_vars(Play)
  /\ WF_vars(TimePasses)

LiveSpec == Spec /\ Fairness

-----------------------------------------------------------------------------
ItemType ==
  [kind : {"speech", "setting", "resume", "close"}, n : Nat, piece : Nat]

Places ==
  {"free", "posting", "closing", "join", "closed",
   "stop", "drain", "putback", "check", "set", "tell",
   "get", "speech", "setting", "resume", "close", "ended",
   "message", "feed", "lastfeed", "idle",
   "look", "judge"}

(* What the threads share, and how often something was done, is of the     *)
(* types the fields of class Engine have.                                  *)
TypeOK ==
  /\ work \in Seq(ItemType)
  /\ keep \in [Cancellers -> Seq(ItemType)]
  /\ hand \in ItemType
  /\ pc \in [Threads -> Places]
  /\ discarding \in BOOLEAN /\ finished \in BOOLEAN /\ paused \in BOOLEAN
  /\ watching \in BOOLEAN /\ stalled \in BOOLEAN /\ kicked \in BOOLEAN
  /\ since \in {"none", "now", "long"}
  /\ fault \in {"none", "feed", "idle", "stall"}
  /\ spoken \in Nat /\ piece \in Nat /\ calls \in Nat /\ sets \in Nat
  /\ event \in Nat /\ tells \in Nat /\ whole \in Nat

(* Samples are never being thrown away with nobody left to stop it: either *)
(* a cancel is still running and will post its resume, or a resume is on   *)
(* the queue, in some thread's hands while it drains the queue, or being   *)
(* run.  Two cancels may drain the queue of each other's resumes.          *)
MuteIsUndone == discarding => ResumeIsComing \/ \E c \in Cancellers : Canceling(c)

(* A setting that was asked for has been made, or is still on its way: in  *)
(* the engine's hand, on the queue, or kept by whoever is draining it.  "A *)
(* setting is asked for once and has to arrive."                           *)
NoSettingIsLost ==
  \A n \in 1..sets :
    \/ n \in applied
    \/ At("engine", "setting") /\ hand = Setting(n)
    \/ Contains(work, Setting(n))
    \/ \E c \in Cancellers : Contains(keep[c], Setting(n))

(* Once the reader's cancel has stopped the player, at most one buffer of  *)
(* what was asked for before it goes in, the one the engine's thread had   *)
(* already decided to feed, unless the resume of another cancel came       *)
(* between that cancel's steps.                                            *)
SilenceHolds == overlapped \/ leaked <= 1

MarksOf(u) == UNION {{e.mark : e \in ToSet(p)} : p \in ToSet(Script[u])}
Reporting == pc["engine"] \in {"check", "set", "tell"}

(* The engine's thread says an utterance is over only when every mark of   *)
(* it has been reported and the last of its sound has been played, unless  *)
(* some of it was refused, silenced or dropped, or the player would not be *)
(* waited for.                                                             *)
EndAfterSound ==
  Reporting /\ whole = hand.piece /\ fault # "idle" =>
    /\ player = <<>>
    /\ MarksOf(hand.n) \ {0} \subseteq reported

(* "One utterance is reported finished once, whichever thread gets there", *)
(* unless both were in _finish together.                                   *)
ToldOnce == raced \/ tells <= 1

(* Whoever posted an utterance hears that it is over, or asks for silence, *)
(* whatever goes wrong with the player; a stall is broken by the watchdog. *)
(* Not where the watchdog drops speech over an utterance already told of.  *)
EndIsTold == waiting ~> ~waiting \/ untold \/ paused

(* A close ends the engine's thread, or leaves it in the player: the       *)
(* sentinel arrives, whoever drains the queue it is on.                    *)
CloseEnds == At("reader", "join") ~> At("engine", "ended") \/ since = "long"

=============================================================================
