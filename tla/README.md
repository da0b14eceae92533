# Models of openevv

`src/src` is openevv, a C reconstruction of a text-to-speech library: an application
queues text, marks and settings, a synthesis thread turns them into samples,
and the application collects the results by polling or by waiting. What is
hard in it is not the speech but the traffic: one thread per instance with a
message queue inside it, a second queue going the other way, two counts that
say whether anything is outstanding, and a stop that has to throw all of it
away without waiting for anything that waits for it. These modules model that
traffic. Beside it stand the rings every queue is made of, the streams of points
the language rules hand the synthesizer in them, and the frames and marks that
come of those; beneath it the table of mutexes and the timers; and on top the
screen reader's driver, which puts two threads of its own in front of the
library. TLC checks small instances; TLAPS proves, for every value of the
constants, the safety properties of the message queue and its thread, of the
traffic of speaking, of the rings and the streams, of the timers, of the table
and of the driver.

## The system: components, state, operations

| component | source | state it keeps | operations | where |
|---|---|---|---|---|
| messages and their queue | `eci_msgqueue.c` | reference counts, `is_send`, `result`; the FIFO, `suspended`, events `ready` and `done`, `lock`, `send_lock` | make, addRef, release, post, send, pop, suspend (clears), resume | `MessageQueue`, abstract: `Mailbox` |
| thread with a queue | `eci_soundthread.c` (qt_*), `eci_msgqueue.c` (qt_run, qt_terminate), `eci_thread.c`, `eci_synthmisc.c` (stm_qtSuspend, stm_qtResume) | events `turn` and `gate`, `asked_to_stop`, thread status, three exit semaphores | run loop, post, send, quiet stop and resume, terminate, wait for exit | `QueueThread`, `QueueThreadProofs`, `MailboxProofs` |
| synthesis thread | `eci_synthmsg.c`, `eci_synthrun.c`, `eci_synthtext.c`, `eci_synthwork.c`, `eci_synthback.c`, `eci_synthlife.c` | `ST_PENDING`, `ST_POSTED`, `ST_LOCK`, sample buffer, mark queues, the engine | a sender and a run per kind of message, the end of a run of speech, stop | `Synthesis`, `SynthesisProofs` |
| application queue | `eci_appqueue.c` | `posted`, `seen`, `held`, `stopping`, the FIFO it derives from | post, send, poll, synchronize, pause, suspend, resume | `Synthesis`, `SynthesisProofs` |
| old API | `eci_old.c`, `eci_misc.c`, `eci_text.c` | `OI_BUSY`, manual queue, environment | speaking, synchronize, pause, stop, add text, insert index, synthesize, ... | `Synthesis` (the calls that speak) |
| manual queue, block and unblock | `eci_text.c`, `eci_synthmsg.c`, `eci_sync.c` | list of elements, a semaphore | keep back, clear, read out, block, unblock | `Synthesis`, `SynthesisProofs` |
| mutexes, events, semaphores | `eci_sync.c` | counts, gates | wait, release, signal, unsignal | taken as given; the semaphore of a block in `Synthesis` |
| table of system objects | `port_ral.c` | 1024 slots, no lock | bind, find, drop | `ObjectTable`, `ObjectTableProofs` |
| timer thread | `eci_timer.c` | array of timers, `guard`, `oneAtATime`, `wake` | set, kill, run | `Timers`, `TimerProofs` |
| sound thread, sound manager | `eci_soundthread.c` (snd_*), `eci_sndmgr.c` | device status, tick | open, write, hold, reset, ... | not modelled: `ST_SOUND` is nought in this build (`docs/status.md`) |
| ring buffers | `eci_etiqueue.c`, `eci_tvqueue.c` | array, head, tail, capacity | push, pop, double, shrink | `Ring`, `StreamProofs` |
| streams of parameters | `eci_stmarray.c` | a ring, the last moment written and read | append a point, fetch one, clear | `Stream`, `StreamProofs` |
| array generator | `eci_arraygen.c`, `synthesize` in `klatt_run.c` | a cursor per stream, a window, the last frame's parameters | ask for sound, cut a window, interpolate, step | `ArrayGenerator`, `MarksProofs` |
| index marks | `eci_ixqueue.c`, `eci_synthidx.c`, `klatt_run.c` | list of lead times and their total, three running totals, the interrupt flag | put in, hand over a piece, report, flush, stop, restart | `IndexMarks` (the side of the samples), `MarksProofs` |
| state, environment, voices, dictionaries, filters | `eci_state.c`, `eci_env.c`, `eci_voice.c`, ... | tables of parameters | get, set, convert | not modelled: sequential bookkeeping |
| romanizer | `eci_romanizer.c`, `rom/jajp` | text not yet a sentence | add, process | not modelled |
| Delta machine, Klatt synthesizer, languages | `delta*.c`, `eci_engsyn.c`, `klatt_*.c`, `lang/` | the engine proper | run | not modelled: numerical, and generated |
| NVDA driver | `nvda/addon/synthDrivers/_openevv.py` | queue of work, `_discarding`, `_finished`, `_blockedSince`, `_paused`, audio and marks in hand | post, control, cancel, pause, close; the run loop; the callback; the watchdog | `Driver`, `DriverProofs` |
| programs | `cli`, `win`, `tools` | | | users of the API, one thread each |

How they meet. An application thread calls the old API, which refuses a call
while another one is running and passes it on. The senders post messages to the
synthesis thread under `ST_LOCK` and number them; the thread runs each one and
posts marks, or sends samples, to the application queue. A *send* waits: the
thread stands still until somebody takes the samples. Taking is what a poll and
a synchronize do, on the caller's thread, and it is there that the
application's callback runs. When the thread finds nothing outstanding at a
`synthesize` it posts the number of that message; the caller that collects it
writes it to `seen`, and `posted = seen` is how everybody knows that all is
said. The driver calls all of it from one thread, which takes speech and settings
off a queue that the reader's thread fills and a cancel drains; the library's
callback runs there and stands in the wave player while that is full. `stl_stop`
is never called by it. In the mode that keeps text back nothing reaches the
synthesis thread until a text or a synthesize reads the caller's queue out; for
that long the thread is held by a block, a message that waits on a semaphore
which the caller releases at the end. `stl_stop` suspends both queues, waits for
the thread to come round, clears everything and lets go.

The hard parts, each listed with its line in `PROJECT.json`:

- a reference held by the maker, the sender, the queue and the worker, on paths
  that fail, refuse, clear and quit;
- one `done` event for every sender, and an answer read after the wait;
- a suspend that falls between the worker's wait and its pop;
- ending a thread twice, while others post, send and stop;
- `ST_PENDING` counted after the post and uncounted by the run, in characters,
  which filters change;
- three looks at `ST_PENDING` at the end of a run with the lock let go between;
- a message the callback puts off, a callback that aborts, a call that passes
  the re-entrancy check beside another;
- a thread held by a message, and let go by a caller, with a stop that throws
  away the one and not the other;
- a ring that wraps, doubles, halves and runs out of memory under a stream that
  keeps times as sixteen-bit gaps;
- sound asked for ahead of the points it is made of, in windows cut where they
  end, and marks that are to come out between two of its samples;
- a table of mutexes without a mutex, in which every message has an entry;
- a thread for timers that comes and goes with them, lets its guard go before it
  sleeps, and is waited for by the call that removes the last one;
- in the driver, a cancel of four steps that two threads run at once, on a queue
  a third takes from; a flag tested and set by two threads; a watchdog that
  judges by what it read a moment ago.

## Modules

**`Mailbox`** is what a thread with a queue promises: accepted messages are
served in order, each at most once; a client that asked is told `queued` when
its message was served and `refused` when it was thrown away; a stop cuts the
line behind the message in hand.

**`MessageQueue`** has the queue's state and one operator per critical section
of `q->lock`. `Msgs` are memory cells: a cell is used again once the message in
it is destroyed, so a reference kept too long is seen as one to a stranger.
`ran` is a history variable. The mapping is one to one: `PostQueued`,
`PostFailed` (no memory for a bigger ring), `PostRefused`, `PopFirst`,
`PopNothing`, `SuspendQueue` (with `q_clearMessages` inside), `ResumeQueue`,
`SignalProcessed`.

**`QueueThread`** extends it with the threads: the worker (`W...`, following
`qt_run`, then `th_execute`'s way out) and any number of clients, each with a
program counter. Every wait and every critical section is its own step. `MayDo`
says which operations each client asks for; one client stops and one ends, as
in the code, where both belong to the owner. A post reads the gate, then checks
that the thread is running, then takes the queue's lock, three steps as in
`qt_postMessage`; `EndGate` ... `ExitOpen` are `qt_terminate` and
`qt_waitForExit` with the three-semaphore handshake. `Box` is the refinement
mapping: a message counts as served when its `run` begins.

`th_getStatus` writes back the status it has just read; built as the Makefile
builds it (`-O2`), the store is gone, so it is a read here.

**`Synthesis`** has the callers, the synthesis thread and the application
queue. Data are cut down to what the properties tell apart: a message is its
kind, the units it stands for and its number; what the engine comes out with is
samples or a mark, with the number of the message that caused it. The
synthesis thread's own queue is a sequence, used as `Mailbox` promises it:
accepting is one step, a stop empties it and waits until the worker is idle.
A caller is in one call at a time. `Queue` posts the message, `CommitRead` and
`Commit` count it, with `ST_LOCK` held throughout, as `postAndCommit` does it;
the thread may have run the message in between. `TFilter` and `TAdjust` are the
one change of `ST_PENDING` that does not take the lock. `TWind`, `TFlushed`,
`TClose`, `TRemained` and `TTell` are the end of a run of speech
(`synthesizeRun`, `stw_processRemaining`, `stw_shutDown`, `stw_stopSynthesis`).
`Check` and `Enter` are `eo_reentered` and the assignment of `OI_BUSY`; `Look`
to `Leave` are `aq_poll` and `aq_synchronize`; `Interrupt` to `Reopen` are
`stl_stop` in its order. The manual queue is `AddToManualQueue`, `ClearInput` and
`Block` to `PostWanted`, which follow `et_processManualQueue` and then the call
that came with it: each element goes out by the senders' own steps, behind any
number of changes; a failure throws the rest away; the release comes whatever
happened. On the other side `TBlock` and `TLetGo` are `blockRun`, which is
`sy_semWait` on a count that may go below nought. `last`, `due`, `heard` and
`loose` are history variables. `loose` says that a stop has thrown a block away:
its release is then spent on the next one, which holds nobody
(`HeldWhileRead` excepts it, for the code does what its comment denies).

**`Ring`** has the rings of `eci_etiqueue.c` and `eci_tvqueue.c`, which differ
only in that the second halves its array again: operators from a ring, a
record of the array and its two ends, to the ring the code leaves. The other
modules use the queue of messages as a sequence, and `StreamProofs` is why they
may.

**`Stream`** is one stream of `eci_stmarray.c` over such a ring. `AppendValue`,
`FetchNext` and `Clear` are `sa_appendValue`, `sa_fetchNext` and `sal_clear`,
called by one thread at a time; whether there is memory for a bigger ring is
chosen at each push. Moments and pairs keep their widths: `Word` is 2^16 in the
code and 10 or 16 in the runs, a pair has two signed words, a moment two unsigned
ones. `points`, `skipped` and `due` are history variables. A point before the
last one written is refused with nothing changed, which is no step here; what
`sal_clear` starts from, the record's `zero`, is nought from the moment the
record is made and never written.

**`ArrayGenerator`** extends it with the only reader of a stream,
`sendArrayParameters`, and with `synthesize`, which calls it. `Synthesize` is a
call up to the first window; `Window` the cut (`Boundary`) and what it leaves in
the language record; `Walk`, `MakeFrame` and `NextFrame` the loop over the steps
of a window, with `valueSetValue` once round for each `Walk`; `EndWindow` the way
out, or on to the second window of a call that found its frame changed. Division
drops the fraction as C does. The model has one stream: it is the one that goes
least far of those in a frame, for the others only make a window shorter. What
`isArray`, the parameter map, the volume and the device's opening decide is left
out, and `changed` stands for every reason to send what is left of the old frame
first. `line` is a history variable, the points themselves at the moments they
come back at.

**`IndexMarks`** extends that with the marks: `InsertMark` is
`insertDelayedSynthIndex` with its three totals, two of which are also the
generator's `end` and `limit` (`klatt_lang.h`, 66-72); `HandPiece` is
`ourKlattCallback` once round, with every report that follows from it; `Flush`,
`Interrupt` and `Restart` are `flushDelayedSynthQueue`, `stopSynthesizing` in a
call and `es_engsynRestart`. A frame gives its length in whole samples. `place`
is, for each mark, what is to be heard before it by rights, in parts of a sample;
it goes down with every piece handed over. `short`, `cut` and `stale` say by how
much a report may be off, and when nothing is said:

- `short`: a frame is cut to whole samples (55 of 55.125 at 11025 Hz), so that
  marks fall behind as long as the queue does not become empty;
- `cut`: so is the wait of a mark;
- `stale`: after a stop the totals still speak of the sound that was dropped, and
  a mark before the first call of the next speech is queued behind that much of
  the new one. `insertDelayedSynthIndex` says it is due at once if nothing is
  outstanding.

Two more things the model shows and no property states. A mark that finds
nothing outstanding is reported past those that still wait, when the frames have
fallen short. And the last frame of an exact window, which "is short, so the run
stops where it was asked to" (`eci_arraygen.c`, 251), is as long as it goes over:
4 and not 1, where 1 is left of a step of 5.

**`Driver`** is class `Engine` of `_openevv.py` with the calls `openevv.py` makes
of it: the reader's thread (`Speak`, `Post`, `Control`, `Pause`, `Cancel`,
`Close`), the engine's (`Get` to `Idle`, following `_run`, `_speak`, `_message`
and `_flush`) and the watchdog (`Look`, `Judge`). `Stop`, `DrainOne`, `PutBack`
and `PutResume` are the rest of `cancel`, for whichever thread is in it; `Check`,
`SetFinished` and `Tell` are `_finish`, for whichever is in that. One step is
what no other thread can come between to any effect: each call of the queue, the
player and the callback's test of `_discarding` is one. The library is modelled
from how it is used: for a piece it hands over the buffers and marks `Script`
says, or refuses the piece. So is the player: it takes `Room` buffers, may once
raise or stop taking audio, and a buffer's marks are reported when it has been
played. A time is "none", "now" or "long"; the feeding thread's clock becomes
"long" only while it stands in a player that is paused or stalled. `cut`,
`leaked`, `waiting`, `flight`, `tells`, `whole` and the three exceptions
`overlapped`, `raced` and `untold` are history variables. `whole` counts the pieces
of an utterance begun one behind the other with nothing refused, silenced or
dropped (`Follows`), and is nought when something was.

The exceptions are what the code does; each is as narrow as TLC would let it be,
and what it excepts no property catches:

- `overlapped`: the reader cancels while the resume of an earlier cancel is
  still to be run (cancel, speak, cancel is enough), or while the watchdog's
  cancel is between its steps. That resume lets samples through again early, and
  what is in the library is heard.
- `raced`: both threads are in `_finish` over one utterance, or the watchdog
  comes there when speech has been let through already; its report then counts
  for the wrong utterance, or there are two. The code says otherwise: the
  docstring of `_finish` and that of `idle_stall_checks` (`nvda/test/engine.py`)
  have an utterance reported "once, whoever gets there first" and "once, whichever
  thread gets there". `_finish` tests `_finished` and sets it a statement later with no
  lock, so that both threads may pass the test; without this exception
  `ToldOnce` is false.
- `untold`: the watchdog drops what is queued behind an utterance whose end had
  been told, so its own report is dropped as the second one.

**`Timers`** is `eci_timer.c`, used by sound threads of which each has one timer
at most. `Call` takes `oneAtATime`. `SetTimer` and `SetFails` are what
`tt_setTimer` does under the guard, with memory and without; `LookAtCount` and
`Start` what it does behind it, with `th_start`. `KillTimer` is `tt_killTimer`
under the guard, `Terminate` to `Unlock` the end of a thread that has no timers
left, as `tt_terminate` and `th_waitForExit` have it. The thread goes from `Enter`
to `Take`, with one `Charge` for each timer, and out by `Left` and `Leave`, which
are `th_execute` behind the body. The array is a sequence of users; `index` is
what each timer believes of its place in it. How the array grows is left out, and
`SetFails` stands for every way in which it may not. Times are taken modulo
`Word`. There is no clock: `sy_eventWait` takes the time it is given and does
nothing with it, and what the thread takes for elapsed is what it meant to sleep.
`said` is a history variable.

**`ObjectTable`** is `port_ral.c` for mutexes, with a step for each write to a
slot: `Make` to `WriteObj` are `ral_bind` and what its callers make underneath,
`Drop` to `ClearObj` are `ral_drop`, `Lock` to `Release` a mutex taken and given
back with a search each. The kind of a slot, which tells a mutex's from an
event's, is left out. A search that finds nothing lets its caller go on, as the callers
in `eci_msgqueue.c` do. `refused` is a history variable: the objects there was no
slot for. So is `clashed`: a `ral_bind` has chosen a slot another had chosen and not
filled yet (`Filling`). That happens in the program, for both threads make messages;
what the table promises it promises until then.

`MCQueueThread`, `MCSynthesis`, `MCStream`, `MCIndexMarks`, `MCTimers` and
`MCDriver` hold the mixes of operations, gaps, values, periods and utterances the
runs use.

Some definitions are named as slips (`RecountPosted`, `CountByMessage`,
`NoFloor`, ...): a line or two away from the real operator, none of them used by any
specification. `PROJECT.json` names which slip breaks which property.
`RecountPosted` is a slip the code once had (`docs/status.md`).

## Runs

| run | instance | what it shows |
|---|---|---|
| `thread` | 3 clients (post and send; send; stop and end), 2 cells, fair | reference counts exact, answers reach their sender, a send answers the truth, a stop is quiet, an end means gone, and the thread implements `Mailbox`; a waiting sender is answered, a stop gets its quiet, an end comes back |
| `poll` | 1 caller: text, marks, changes, synthesize, poll, pause, stop, keeping back and clearing; the callback takes, puts off or aborts; texts of 2 rewritten to 1 or 3; 3 messages between stops | equal counts mean nothing is left; what was queued is heard in order and, at equal counts, whole; nothing is spoken while what was kept back is read out |
| `sync` | the same with synchronize, nothing kept back, no rewriting, no putting off, 4 messages | `ST_PENDING` is exact at every step; synchronize ends; an application that goes on asking is told it has all been said |
| `stopper` | one caller keeps back, reads out and speaks by polling, one stops; 3 messages, fair | a stop from another thread leaves nothing and comes back; a thread held by a block is let go |
| `stale` | the same, 2 messages | **violated**: see findings |
| `rewritten` | 1 caller, texts of 2 rewritten to 3 | **violated**: see findings |
| `stream` | gaps of 1 and 4 in words of 10, values of both signs, a ring of 4 that may grow to 8, moments up to 6; sound asked for to 4 and to 5 in steps of 3, at 5/4 samples a moment, with two marks, interrupts and restarts | points come back in order with their values, early only by the gaps of refused ones; the ring holds what is owed and never shrinks below what was asked for; a frame is on the line through the points however the windows are cut; a mark is reported at the sound it was put behind |
| `stream_far` | gaps of 1 and 15 | **violated**: see findings |
| `driver` | two utterances, the second of three pieces; two other calls (settings, pauses, cancels, a close); a player of one buffer that fails once, fair | samples are never thrown away with nobody left to stop it; no setting is lost; what was silenced stays so but for one buffer; the end of an utterance comes after its sound and marks, once, and comes, whatever the player does; a close ends the thread or leaves it in the player |
| `timers` | users with periods of 2, 2 and 3 in words of 8; memory may fail when there are none or two; fair | a kill takes the right timer out; a timer that is set is counted into a sleep, wherever it finds the thread; the thread comes and goes with the timers; a call that has its turn comes back, the one that ends the thread too |
| `table` | three threads, all of them making; three mutexes, two slots | until two `ral_bind`s have been in one slot, a mutex that found one is found until it is dropped and keeps others out, and no slot and no handle is lost |
| `table_makers` | two threads, both making; two mutexes, two slots | **violated**: see findings |

Bounds. `QueueThread` needs none: cells are reused and every counter is bounded
by the number of holders. Two cells let one message be in hand and one on the
queue or in the making, or two be on the queue; a client that finds no cell
waits for one, as it need not in the code. The third client makes the
`send_lock` contended. That nothing depends on the two cells is what the proofs
are for: they hold for any number of clients and messages. In `Synthesis`,
`MaxPosted` bounds the messages between two stops; a stop starts again, so runs
are not bounded in length. Three messages are enough for text, mark and
synthesize, four for a second run of speech queued before the first is
announced. Two lengths, 1 (a mark or change) and 2 (a text), tell counting by
units from counting by messages. One block is on the queue at a time, and
`MaxLoose` bounds the releases left over from blocks a stop threw away: one in
`poll`, so that a new block meets a left-over release; none in the others, where
blocks stop after it.

In `Stream` the ring of 4 is the smallest for which the floor of the shrinking
matters; six points in six moments make it double, wrap, refuse for want of
memory and halve. 4 is the largest gap below half a word of 10, and 15 the
smallest that is escaped in a word of 16 (`stream_far`). Neither 4 nor 5 is a
whole number of steps, and 4 leaves a catch-up window with a last frame of 2
where 1 is left; 5/4 samples to a moment cut every frame and one of the waits.
Two marks are enough for one behind another and for two in one place, and
`MaxShort` bounds how late they may be when another is put in, for it grows
without end in a text that never lets the queue become empty.

In `Driver` two other calls are enough for a cancel behind a cancel, a setting a
cancel drains, a pause over a stall and a cancel before a close; the watchdog's
cancel comes on top of them. Room for one buffer makes the
second feed wait. The first utterance ends on a mark with no sound in hand; the
second has a first piece that says nothing, one in the middle that a drain can
drop with the first begun and the last still to be posted, and a last one of two
feeds, so that one of them can be on its way when a cancel comes and leave
another to stop.

In `Timers` three users are enough for a kill that fills a gap from behind and for
one that kills the last of the array. Of the periods one divides the
word of 8 and one does not, and all the sums wrap. Memory fails when there are no
timers or two. With failure beside one timer let in, `CallsReturn` fails, for the
reason given below: it passes because `FailsAt` leaves that out. `ThreadWhileTimers`
and `EveryTimerIsCounted` hold then too, but the first says nothing any more, since
it speaks of moments when nobody has the turn and the turn never comes back.

`ObjectTable` has a slot fewer than it has mutexes, and every thread makes them.
`table` does not go on from a state in which two `ral_bind`s have been in one slot
(the constraint `Unclashed`): its properties promise nothing beyond, and
`table_makers` shows what comes then. A `ral_bind` that searches while another fills
a slot chooses the same one, unless one before it has become free in the meantime.

The deadlock check is on in every run.

## Fairness

`QueueThread!Fairness` is weak fairness for the worker and for each client once
it has started an operation: the operating system runs a thread that can run.
Nobody has to start one. `EverySendReturns` and `EveryStopGetsQuiet` except a
thread that has gone: what is left on its queue nobody answers.
`Synthesis!Fairness` adds strong fairness for the callback taking what it is
offered: a callback may put something off, or ask a synchronize to call again,
any number of times, but not for ever. `PollingSpec` adds that an application
that polls goes on polling, which `eo_speaking` says it must ("a caller that
never asks never hears anything"). `Driver!Fairness` is weak fairness for the
engine's thread, for the watchdog, for the reader within a call it has begun,
for the player unless it is paused or stalled, and for the five seconds of
`STUCK_AFTER`. Nobody has to speak, cancel or pause, and nothing has to go
wrong. `Timers!Fairness` is weak fairness for the thread and for each user
within a call, not for getting a turn.

## Assumptions about the application

- The calls that queue work are not entered from two threads at once, nor
  beside another call of the same instance (`nvda/addon/synthDrivers/_openevv.py`,
  line 10, and how `test/stopthread.c` uses the API): `Alone`. Stop, poll and
  synchronize may come from anywhere, but for the next point.
- No call comes while a caller reads its queue out: a stop of another thread
  would free the list under it (`eo_stop` calls `eo_clearManualQueue`, and
  `et_processManualQueue` does not set `OI_BUSY`).
- A synchronize follows a synthesize; without one nothing would ever announce
  the end, and it would wait for ever.
- The rules clear a stream before each utterance, ask for one stretch of sound
  after another, leave something to the last call (`synthesize` else returns
  before it has done anything), and change a frame only where all that comes
  before is written. Each of these is a call the language programs make through
  `eci_stmarray.c` and `klatt_run.c`; nothing in those files requires it.
- Nobody asks for sound so late that a window's last step is beyond the last moment a
  word has (`AskAssumption`): that is weeks into one utterance.
- A callback is registered; without one nothing is posted at all.
- A second caller (`stopper`, `stale`) only stops, and the callback then takes
  what it is given: putting off beside a stop of another thread would let the
  stop release the message while the callback has it, which is again a matter
  of two calls passing the re-entrancy check together.

## What the violated runs show

1. `stale`: `OI_BUSY` is tested and set in two statements. A poll and a stop
   can both be inside; the poll then writes the count it collected over the
   nought the stop has just put there, and the next message has that very
   number. The comment in `stl_stop` describes this as what must not happen.
2. `rewritten`: the adjustment of `ST_PENDING` in `addTextRun` is not under
   `ST_LOCK`; a commit between its read and its write is lost or loses it.
3. `stream_far`: a pair's time is signed and the escape is 65535, so an escape
   read back is -1, matches nothing and steps back by one, and the pair with
   the moment in it is read as a point. Any gap of half a word or more is read
   back a word early for the same reason. It takes a parameter
   without a point for 33 seconds (moments are milliseconds,
   `src/src/klatt_run.c`).
4. `table_makers`: two threads in `ral_bind` at once are given one slot, so that
   "each is identified by nothing more than its own address" (`eci_sync.c`) is not so. The
   mutex of the one is not in the table, its waits fail at once, and the callers
   do not look. A caller's message of text and the synthesis thread's message of
   samples are made at once all the time.

The models show more than these runs ask about. Each of the following is in the
actions as the code has it, and is why a property is worded as it is:

- `qt_postMessage` lets go of the gate (it only waits for it) before it posts, so
  its check does not keep a message from a thread that ends meanwhile, though the
  comment above it says so. `Post` may come behind the worker's way out.
- `aq_synchronize` does not look at `held`. What the callback put off during a
  poll is still put off when synchronize says it has caught up; `sync` has a
  callback that puts nothing off.
- `tt_setTimer` looks at the count whether it has made a timer or not. When the
  second finds no memory the count is one, and `th_start` is called for a thread
  that runs: it waits for the gate, with `oneAtATime` held, and no kill can get in
  to end the thread. Hence the bound on `FailsAt`.
- `sy_eventWait` does not pass on the time it is given. The head of `eci_timer.c`
  (3-5) and the comment on `tt_run` (283-284) say that the thread sleeps exactly as
  long as the soonest timer has left; it sleeps until it is signalled. A timer is
  posted once, at once (the signal of its own set is still up), and then only when
  another is set. No property says that the thread does not oversleep, for it does.
- A new timer starts at `elapsed % period`, which is where every other timer of
  that period is. The comment on `tt_setTimer` (212-214) says that it starts part
  way so that timers of the same period do not all fall due on the same tick;
  they always do, if the period divides 2^32 (`EqualPeriodsFallDueTogether`).
- A kill signals nothing while timers are left, though the head of the file says
  that removing one does.
- A stop beside a synchronize of another thread is the race of `stale` once more.
  A synchronize past the test of `OI_BUSY` finds the counts unequal; the stop puts
  both back to nought; and the synchronize goes to wait for a message that nothing
  will post. `EverySynchronizeReturns` is checked with one caller.

The timers belong to the sound thread, which this build does not start.

## Proofs

`QueueThreadProofs` proves, for every `Clients`, `Msgs` and `MayDo` allowed by
the assumptions (`NoMsgAssumption`, `ClientAssumption`):

| theorem | statement |
|---|---|
| `OwnershipCorrect` | `Spec => []Ownership`, the invariant the next two follow from |
| `TypeCorrect` | `Spec => []TypeOK` |
| `ReferencesCorrect` | `Spec => []EveryReferenceIsOwed` |
| `WakesCorrect` | `Spec => []ReadyIffWaiting`: the event the worker sleeps on is up exactly while something is queued |
| `QuietCorrect` | `Spec => []Quiet` |

`ReadyIffWaiting` needs only the types of the state beside it. The others are
not inductive. `EveryReferenceIsOwed` counts holders, and a step preserves it
only if each client that is somewhere in an operation still holds the message
the operation is about, no two clients hold the same one, and the worker's
`cur` is a message exactly when its program counter says so. `TypeOK` itself
needs the counts, for `refs` stays a natural number only because nobody gives
back what is not owed. The proof therefore goes in three layers:

- `Shape`: the types of the state without the sign of the counts
  (`ShapeInit`, `ShapeWorker`, `ShapeClient`);
- `Ownership`: only messages are queued; a client holds a message exactly while
  it is at one of the places of a post, a send or an end, and no two hold the
  same one; `cur` is a message exactly while the worker is handling one; the
  queue has no message twice nor the one in the worker's hand; a message its
  maker has yet to post is nowhere else; and every count is what is owed
  (`OwnershipCorrect`, from `Shape` and `Ownership` together). Frame lemmas say
  what a move, a make, a post, a release and a suspend do to it, and each
  action cites one;
- for `Quiet`, `QuietInv`: while the turn is free the worker handles nothing,
  and only a client that may stop is at a place of a stop.

Lemmas about the elements of a sequence after an append or a tail
(`ElemsAppend`, `ElemsTail`) are stated once and cited.

Of what a send is answered, in the same module and for the same constants:

| theorem | statement |
|---|---|
| `AnswersArrive` | `Spec => []AnswerReachesItsSender` |
| `DoneTakenBack` | `Spec => []DoneIsTakenBack`: `done` is down whenever no sender is waking |
| `SendsAnswerTruly` | `Spec => []SendAnswersTruly` |

The three are inductive only together (`SendInv`), beside `Ownership`. The lock
is held by exactly the client that is sending (`LockHeld`), so at most one
waits. Its message says that it is sent, and no message that is yet to be
answered says so unless somebody waits for it (`Marked`, `Unposted`,
`Awaited`): so whoever raises `done`, the worker or a stop, raises it for the
one that waits. What the woken sender reads is right because the result of its
message follows whether it ran but for the one step between running it and
marking it, when it is not yet answered (`Recorded`), and stays right because
nothing can run a message that was answered (`Settled`).

And of the end of the thread:

| theorem | statement |
|---|---|
| `EndsGone` | `Spec => []EndMeansGone` |

`EndInv` says where both sides of the exit are whenever one of its three
semaphores is up (`Handshake`), and that one client ends the thread and only it
makes quit messages (`OneEnder`, from `ClientAssumption`). That is why an end
that finds the status no longer running may leave without waiting: nobody but
itself could have let the worker go, and it waited for it then.

`MailboxProofs`:

| theorem | statement |
|---|---|
| `MailboxImplemented` | `Spec => ImplementsMailbox` |

One lemma per action of `Mailbox` says when a step is that action, seen through
the mapping (`BoxPost`, `BoxAsk`, `BoxServe`, `BoxStop`, ...); one lemma per kind
of step of `QueueThread` shows that it is one of them or hidden (`MapWorker`,
`MapQueued`, `MapWoken`, `MapSuspend`, `MapClient`). The sender's verdict is the
fate the mailbox gave it by `SendInv`.

`StreamProofs` proves first, for any ring that is in order (`InOrder`) and any contents:

| theorem | statement |
|---|---|
| `PushAppends` | a push leaves the ring in order, and its contents are the old ones with the new thing behind if it was taken, and the old ones if not |
| `PopTakesOldest` | a pop hands out the head of the contents and leaves their tail, shrunk or not |

The lemmas under them speak of single cells: a write at the tail touches no
cell in use (`WrittenCells`), straightening out keeps the order of the cells
(`StraightCells`), whatever side of the end of the array they are on.

Then it uses both, for every `Word`, `Want`, `Values`, `MaxMoment` and
`MaxRoom`, on the hypothesis `HalfWordGaps` (no gap of half a word or more, as
the finding shows it must):

| theorem | statement |
|---|---|
| `StreamCorrect` | `Spec => []StreamInv` |
| `StreamTypeCorrect` | `Spec => []TypeOK` |
| `PointsComeBackCorrect` | `Spec => []PointsComeBack` |
| `RingHoldsCorrect` | `Spec => []RingHoldsWhatIsOwed` |

`PointsComeBack` speaks of the last call only. `StreamInv` says what the ring
is: the line of the points not yet fetched, one pair each, the pair's time
being the gap between the moments two neighbours *come back* at, where the
clock stands still for the gaps of refused points; and that this clock, at the
end of the line, shows `written - skipped`.

The floor in `RingHoldsWhatIsOwed` needs to know that halving a room above
`Want` cannot go under it, though `Want` may be odd: a room is always `Want`
doubled some number of times. `Rooms` is the smallest set of numbers that has
`Want` and the doubles of its own; that every room in it is at least `Want`
(`RoomsAboveWant`) and that the half of a larger one is in it again
(`RoomsHalve`) follow from its being the smallest (`RoomsLeast`), with no
induction.

`SynthesisProofs` proves, for every `Callers`, `MayDo`, `Answers`, `Lengths`,
`Rewritten`, `MaxPosted` and `MaxLoose`, on the hypotheses named:

| theorem | hypotheses | statement |
|---|---|---|
| `SynthesisTypeCorrect` | `PutOffByOne` | `Spec => []TypeOK` |
| `StopsAreClean` | `PutOffByOne` | `Spec => []StopIsClean` |
| `HeldWhileReadOut` | `PutOffByOne` | `Spec => []HeldWhileRead` |
| `PendingIsWhatIsOwed` | `PutOffByOne`, `NothingRewritten` | `Spec => []PendingIsOwed` |
| `OrderInvCorrect` | `OneCaller`, `NothingPassed` | `Spec => []OrderInv`, from which the next three follow |
| `TakenInOrder` | the same | `Spec => []HeardInOrder` |
| `EqualCountsMeanNothing` | the same | `Spec => []EqualMeansNothing` |
| `CaughtUpHeardEverything` | the same | `Spec => []CaughtUpHeardAll` |

The hypotheses are the assumptions about the application given above, and each
is needed: without it TLC finds the property violated, or the violated run is
just that.

- `PutOffByOne`: there is one caller, or the callback puts nothing off. Else a stop
  of another thread throws away what a poll is about to take up again.
- `NothingRewritten`: no filter changes a text's length (`rewritten`).
- `OneCaller`: the second of two would be the stop of `stale`.
- `NothingPassed`: the callback puts nothing off, or nobody calls synchronize, which
  does not look at `held`.

All of it stands on `Shape`: what the thread has in hand is what the place it is
at is for; one caller at a time is in a call that queues, and has the lock and a
number between a post and its commit; and there is a number left for everything
kept back and for what reads it out. Over that,

- `StopInv` follows the order in which a stop empties things: the application queue
  first, which then refuses, so that it stays empty; the thread's queue next; and
  from the end of the wait for its turn the thread stands, for nobody can queue;
- `HeldInv` counts: the semaphore is as many as the blocks the thread has still to
  come to, less the release of the reading that goes on, and the thread is held
  exactly while that is below nought. A block the thread comes to too late and one
  it comes to in time leave the same count behind;
- `OwedInv`: the count is what is queued and in hand less what is posted and not
  counted. `Outstanding` is a sum over the queue by a recursive function. That such
  a function has one value at every length, that an append adds to the sum and a
  tail takes the head's part off it needs no induction theorem: the least length
  at which it fails is not nought and is one more than a length at which it does
  not (`Least`, `UnitsOfIsATotal` and what follows them);
- `OrderInv` follows what is owed to the callback the whole way. What is in a
  caller's hand or put off, on the application queue, in the engine, in the
  thread's hand and on its queue has rising numbers along that way (`InLine`); the
  spoken ones of them are exactly what the callback has not yet had, unless
  somebody is in a stop or going to be (`Told`); and if the last number given is
  on the queue as a count, in the hand of a caller that collects it, or in `seen`,
  then nothing is behind it (`Counted`).

`ObjectTableProofs` proves, for every `Threads`, `Makers`, `Mutexes` and `RAL_MAX`, with
no hypothesis on who makes:

| theorem | statement |
|---|---|
| `TableInvCorrect` | `Spec => []UntilTheyClash` |
| `MadeAreFound` | `Spec => []MadeIsFound` |
| `MutexesExclude` | `Spec => []MutexExcludes` |
| `NothingIsLost` | `Spec => []NothingLeaks` |

`TableInv` says for every place of a making and a dropping where the mutex's
address and the object underneath are (`AtWork`), that a slot with one of the two
is in the hands of the thread that fills or empties it (`Matched`), and who can be
about one mutex (`Apart`). The search for a slot looks at the object only. A drop
takes the address out before it, so that what the search finds the drop has done
with; a making writes the address before it too, and a second making must not come
in between (`SlotsApart`: no two threads are filling one slot). `UntilTheyClash` is
`TableInv` and `SlotsApart` unless `clashed`, which never comes down again; `Seek` is
the one step that could break `SlotsApart`, and it raises `clashed` when it does. So
the violation `table_makers` shows has no other cause than the two in one slot.
`Held` has the counts: one that was taken has exactly one thread inside.

`DriverProofs` proves, for every `Script`, `Room` and `MaxCalls`, with no hypothesis:

| theorem | statement |
|---|---|
| `SilenceIsAlwaysUndone` | `Spec => []MuteIsUndone` |
| `SettingsArrive` | `Spec => []NoSettingIsLost` |
| `DriverTypeCorrect` | `Spec => []TypeOK` |
| `WhatIsCancelledStaysSilent` | `Spec => []SilenceHolds` |
| `SpeechIsInOrder` | `Spec => []Lined` |
| `EndComesAfterSound` | `Spec => []EndAfterSound` |
| `EndIsToldOnce` | `Spec => []ToldOnce` |

The first two are inductive together with the types of the fields they speak of
(`Kind`); the other types are preserved by themselves (`Flags`). Both say that
something is somewhere: on the queue, in a drain's hands, in the engine's. So
the lemmas are one for each way an item moves (`PutsOn`, `GetKeeps`,
`DrainKeeps`, `PutBackKeeps`, `RunKeeps`, `Discards`) and one for a step that
moves none (`StandsStill`); every action cites one of them. They rest on two
facts about sequences: what is on a queue still is after an append, and is its
head or in its tail.

The other four are each an invariant on top of that, and take the exceptions
(`overlapped`, `raced`) as they are in the properties, no wider:

- `Hush`: what was asked for before the player was stopped is on the queue only while
  the drain goes on, and in nobody's keeping behind it (`Numbers`); while the
  reader's cancel runs no resume is coming, so what the engine still has in hand
  meets `discarding` (`Quiet`);
- `Lined`: the queue is sorted by utterance and piece, behind what is in hand, before
  what is to be posted. It is what makes a last piece the last;
- `Heard`: while `whole` is not nought, every mark of the pieces begun, as far as the
  library has got, has been reported or hangs on a buffer in the player or on its way
  (`Secured`), so that an empty player leaves none;
- `Once`: whoever is about to tell has found `finished` down, with the utterance off
  the queue and out of the hands of the reader, and so is the other thread kept
  away (`Single`).

`EndComesAfterSound` is about utterances of any number of pieces. The run had none of
three, and in one a drain can drop the middle piece between two that are said;
`whole` was a flag then, and was still up. The fault was in the history variable;
the run has an utterance of three pieces since.

`TimerProofs` proves, for every `Users`, `Period`, `Word` and `FailsAt`:

| theorem | statement |
|---|---|
| `TimersTypeCorrect` | `Spec => []TypeOK` |
| `TimersStayInPlace` | `Spec => []TimersAreInPlace` |
| `NoTickFollowsKill` | `Spec => NoTickAfterKill`: nothing is posted for a timer after its kill |
| `ThreadLivesWithTimers` | `Spec => []ThreadWhileTimers`, if `1 \notin FailsAt` |
| `TimersAreInStep` | `Spec => []TimersKeepStep` |
| `EqualPeriodsFallDueTogether` | `Spec => []EqualPeriodsTogether`: the opposite of the comment on `tt_setTimer` |
| `NoTimerIsMissed` | `Spec => []SleepIsRecomputed`: what is handed to the wait, not how long it is |

The second and third rest on `Inv`: one user is in a call at a time (`Turns`), every timer
in the array is where its index says (`InPlace`), and who has a timer is among
them (`Having`). The heart of it is `FilledPlaces`: what a kill leaves is an array
without the timer and with all the others, packed, each at its index, whether the
timer was the last or not. The fourth adds what a user in a call may rely on, place
by place (`Stages`), and what each of the thread's four semaphores says while it is
up (`Signs`). Its hypothesis leaves
out the failure beside a single timer described above.

The last three do not need that hypothesis: whatever memory does, the thread is asked to
end only when there are no timers, by somebody who stays until it has (`Ending`), so
it never leaves a round half charged. `StepInv` says which timers a round has charged
and what the others lack; a sum that wraps keeps its remainder by a period that
divides the word, which is what the lemmas on remainders show. `SleepInv` says that what the
round has worked out so far is no longer than any timer it has charged has to go;
what is handed to the wait is then too long for no timer, but for one set since,
whose signal is still up. Neither speaks of a clock: `elapsed` is what the thread
takes for elapsed, and the wait does nothing with its time.

`MarksProofs` proves of the generator and the marks together, for every `Word`, `Want`,
`Values`, `MaxMoment`, `MaxRoom`, `Step`, `Rate`, `Second`, `Asks`, `MaxMarks` and
`MaxShort`, on the hypothesis `HalfWordGaps` and one of its own:

| theorem | hypotheses | statement |
|---|---|---|
| `MarksInvCorrect` | `HalfWordGaps` | `MarksSpec => []MarksInv`, on which the others stand |
| `MarksTypeCorrect` | the same | `MarksSpec => []MarksTypeOK` |
| `FrameCorrect` | the same | `MarksSpec => []FrameIsOnTheLine` |
| `MarksKeepTheirPlace` | the same, `WholeSteps` | `MarksSpec => []MarkKeepsItsPlace` |

`MarksInv` is the stream's invariant and, over it,

- `Timed`: every moment fits in the word it is kept in. That is what `AskAssumption`
  is for: the last step of a window goes beyond what was asked for;
- `Course`: each window goes on where the last one ended, none goes beyond what was
  asked for, and the cursor's left point is never ahead of it;
- `Known`: what a window needs of the stream has been written, unless it is the last
  one of an utterance; and a mark ahead of a window's end leaves a window of whole
  steps;
- `Sound`: the queue, of leads that are never negative. A piece never takes more off
  the head than it waits for, which is `Pieces`.

`FrameInv` adds where the cursor is on the line (`OnLine`): before its first point,
between two that stand next to each other (`Beside`), or, with the stream run
dry in a last window, behind the last (`RunOut`). Rules that write on while the
cursor stands change the line behind it only, because an ordinary window never lets
it run dry; that is what the cut to the *known* part of a window is for. The points
that `MakeFrame` drops from the line are too far back for a later moment: the least
that is not before a later moment is among those kept (`LineMakeFrame`).

`MarkKeepsItsPlace` speaks of the step that reports a mark only. What has to hold while
it waits is about its wait *in all*, the sum of its lead and of those in front of
it. `MarkInv` says that there are running totals `w` of the leads (`Totalled`), so that
no recursive sum is needed, for which each mark's place is its total but for what was
cut off and what the frames fell short (`InPlace`); and that the total of the last is
what the generator still owes up to there (`Owed`), from both sides and, besides, in
whole samples. Each step moves one of the two and the other with it: a mark
adds to the totals what it adds to what is owed, less what its wait was cut by; a
piece takes the same off every total; a frame takes its moments off what is owed and
its samples off the totals, and puts the difference on `short`. That a mark put in
behind others waits for no less than they do needs the third part of `Owed`, and there
`WholeSteps` comes in: a frame may not make more samples than its moments
would one by one (`Samples(Step) = Step * Samples(1)`), and a moment makes one at
least. With 8000, 11025 and 22050 samples to a second that is so for frames shorter
than 20 ms; the length that `klatt_run.c` takes when it is given none is 5. Without it
the property is false: at 7/4 samples to a moment, in steps of 4, TLC finds a mark
that is reported two and a half samples early where three quarters of one were cut off.

With that every invariant a passing run checks is proved, on the hypotheses named.
Liveness stays with TLC, for the prover has neither fairness nor `ENABLED`.

## Not modelled, within the modelled parts

- `sy_eventSignal` failing inside `q_postMessage`: the port's event cannot fail
  once it is made, so its undo (which pops the oldest message instead of the
  one just pushed) is never reached.
- The start of a thread; `th_exit`, which nothing calls; timeouts, which the
  port's waits ignore.
- The returns of the runs that leave `ST_PENDING` alone when the romanizer
  refuses: in this build it does not.
- The settings an element of the manual queue brings with it (a change stands
  for any of them); a block that cannot be made, which reads nothing out; a text
  the engine has no room for (-14), which the reading out passes over;
  `eciBlock2` and `eciUnblock2` called by the application itself.
- Phonemes; errors reported by the engine; marks lost for want of memory.
- Marks while they are counted in characters; `sendStreamParameters`
  (`eci_stmgen.c`), the other source of frames; sound that goes to a file.
- A shrinking `realloc` that fails, and rings of 38400 and more.
- In the table: a mutex taken twice by one thread (`ral_owner`, `ral_depth`); a
  search overtaken by a slot that becomes free behind it; the kind of a slot, which
  `ral_drop` clears after the slot is free and an event bound meanwhile needs; the
  semaphores of `eci_thread.c`, which are bound the same way.
- In the timers: the references of the messages they post, the growing of the
  array, and how long anything takes.
- In the driver: how a sequence is cut into pieces and annotations (its loops
  change no state two threads share), what a setting sets, a call in a batch
  that raises (nothing but a failure of `ctypes` would), and a start that fails.
- That settings are made in the order they were asked for: they need not be. A
  drain that holds the first lets the engine's thread take the second.
- The rules of the languages (`lang/*/delta_rules_*.c`), which are nine tenths
  of the implementation's lines. They are generated tables: bytecode, written as
  numbers, for the machine in `src/delta*.c`. There are no transitions in them
  to state, only what that machine reads.
- What the engine leaves out when interrupted: it is told, but cannot abandon
  the utterance it is on (`docs/status.md`), so what it comes out with is
  refused by the suspended application queue.

## Plan

1. The marks on the way in, counted in characters (`eci_synthrun.c`), over
   `Synthesis`; several streams in a frame.
2. The NVDA driver's thread over `Synthesis`' promises, in the place of its
   script.
