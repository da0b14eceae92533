---------------------------- MODULE MessageQueue ----------------------------
(***************************************************************************)
(* Messages and the queue they travel on (src/src/eci_msgqueue.c).         *)
(*                                                                         *)
(* A message is a reference-counted cell.  A queue is a FIFO of pointers   *)
(* to messages with one mutex, two events (`ready': something is waiting   *)
(* to be taken; `done': the message somebody sent has been dealt with) and *)
(* a flag that makes it refuse everything.                                 *)
(*                                                                         *)
(* This module has the state and one operator per critical section: what   *)
(* the code does between taking q->lock and letting it go is one step.     *)
(* The threads that take these steps are in QueueThread.                   *)
(***************************************************************************)
EXTENDS Integers, Sequences

CONSTANTS
  Msgs,      \* the memory a message can be made in; a cell is used again
             \* once the message in it has been destroyed
  NoMsg      \* a null message pointer

ASSUME NoMsgAssumption == NoMsg \notin Msgs

VARIABLES
  live,      \* live[m]: the cell holds a constructed message
  refs,      \* refs[m]: m->refs
  isSend,    \* isSend[m]: m->is_send, somebody waits for the answer
  result,    \* result[m]: m->result, one once the thread has run it
  ran,       \* ran[m]: history, m->vt->run has been called on it
  items,     \* the pointers on q->queue, oldest first
  suspended, \* q->suspended
  ready,     \* the event q->ready
  done       \* the event q->done

messageVars == <<live, refs, isSend, result, ran>>
queueVars == <<items, suspended, ready, done>>

(* The messages on the queue.                                              *)
Queued == {items[i] : i \in 1..Len(items)}

QueueTypeOK ==
  /\ live \in [Msgs -> BOOLEAN]
  /\ refs \in [Msgs -> Nat]
  /\ isSend \in [Msgs -> BOOLEAN]
  /\ result \in [Msgs -> {0, 1}]
  /\ ran \in [Msgs -> BOOLEAN]
  /\ items \in Seq(Msgs)
  /\ suspended \in BOOLEAN
  /\ ready \in BOOLEAN
  /\ done \in BOOLEAN

QueueInit ==
  /\ live = [m \in Msgs |-> FALSE]
  /\ refs = [m \in Msgs |-> 0]
  /\ isSend = [m \in Msgs |-> FALSE]
  /\ result = [m \in Msgs |-> 0]
  /\ ran = [m \in Msgs |-> FALSE]
  /\ items = <<>>
  /\ suspended = FALSE
  /\ ready = FALSE
  /\ done = FALSE

-----------------------------------------------------------------------------
(* A message.                                                              *)

(* cpp_new, msg_ctor, and the addRef every maker of a message takes before *)
(* it shows the message to anybody.                                        *)
Make(m) ==
  /\ ~live[m]
  /\ live' = [live EXCEPT ![m] = TRUE]
  /\ refs' = [refs EXCEPT ![m] = 1]
  /\ isSend' = [isSend EXCEPT ![m] = FALSE]
  /\ result' = [result EXCEPT ![m] = 0]
  /\ ran' = [ran EXCEPT ![m] = FALSE]

(* Every message of S gives back one reference; the last one out destroys. *)
ReleaseAll(S) ==
  /\ refs' = [m \in Msgs |-> IF m \in S THEN refs[m] - 1 ELSE refs[m]]
  /\ live' = [m \in Msgs |-> live[m] /\ ~(m \in S /\ refs[m] = 1)]
  /\ UNCHANGED <<isSend, result, ran>>

Release(m) == ReleaseAll({m})

(* The reference a sender holds for as long as it waits.                   *)
HoldForSend(m) ==
  /\ refs' = [refs EXCEPT ![m] = @ + 1]
  /\ isSend' = [isSend EXCEPT ![m] = TRUE]
  /\ UNCHANGED <<live, result, ran>>

(* m->vt->run, and the mark that it has been.                              *)
NoteRun(m) ==
  /\ ran' = [ran EXCEPT ![m] = TRUE]
  /\ UNCHANGED <<live, refs, isSend, result>>

MarkResult(m) ==
  /\ result' = [result EXCEPT ![m] = 1]
  /\ UNCHANGED <<live, refs, isSend, ran>>

-----------------------------------------------------------------------------
(* The queue: one operator per critical section of q->lock.                *)

(* Slips of the hand, one line away from the code, that the runs must be   *)
(* able to tell from it: the ring pushes on the wrong end; the reference   *)
(* is not given back, or given back twice, when there is no room; the last *)
(* message is not told from the others; thrown-away messages are not       *)
(* answered; everybody is answered; the answer is left up.                 *)
PushOnFront(m) ==
  /\ ~suspended
  /\ result' = [result EXCEPT ![m] = 0]
  /\ refs' = [refs EXCEPT ![m] = @ + 1]
  /\ items' = <<m>> \o items
  /\ ready' = TRUE
  /\ UNCHANGED <<live, isSend, ran, suspended, done>>

FailAndKeep(m) ==
  /\ ~suspended
  /\ result' = [result EXCEPT ![m] = 0]
  /\ refs' = [refs EXCEPT ![m] = @ + 1]
  /\ UNCHANGED <<live, isSend, ran, queueVars>>

SuspendSilently ==
  /\ ReleaseAll(Queued)
  /\ items' = <<>>
  /\ ready' = FALSE
  /\ suspended' = TRUE
  /\ UNCHANGED done

LeaveDoneUp == UNCHANGED <<messageVars, queueVars>>

(* q_postMessage on a queue that takes messages: a reference for the queue,*)
(* the pointer on the end, the event up.                                   *)
PostQueued(m) ==
  /\ ~suspended
  /\ result' = [result EXCEPT ![m] = 0]
  /\ refs' = [refs EXCEPT ![m] = @ + 1]
  /\ items' = Append(items, m)
  /\ ready' = TRUE
  /\ UNCHANGED <<live, isSend, ran, suspended, done>>

(* q_postMessage with no memory for a bigger ring: the reference it took   *)
(* is given back and the answer is POST_FAILED.                            *)
PostFailed(m) ==
  /\ ~suspended
  /\ result' = [result EXCEPT ![m] = 0]
  /\ UNCHANGED <<live, refs, isSend, ran, queueVars>>

(* q_postMessage on a suspended queue: POST_REFUSED, nothing taken.        *)
PostRefused(m) ==
  /\ suspended
  /\ result' = [result EXCEPT ![m] = 0]
  /\ UNCHANGED <<live, refs, isSend, ran, queueVars>>

(* q_popMessage that finds something; ready goes down with the last one.   *)
PopFirst ==
  /\ items # <<>>
  /\ items' = Tail(items)
  /\ ready' = IF Tail(items) = <<>> THEN FALSE ELSE ready
  /\ UNCHANGED <<suspended, done>>

(* q_popMessage that finds the queue empty: it answers yes with nothing.   *)
PopNothing ==
  /\ items = <<>>
  /\ ready' = FALSE
  /\ UNCHANGED <<items, suspended, done>>

(* q_suspend with q_clearMessages inside it: every waiting message is      *)
(* answered and let go, and the queue refuses from here on.                *)
SuspendQueue ==
  /\ done' = (done \/ \E m \in Queued : isSend[m])
  /\ ReleaseAll(Queued)
  /\ items' = <<>>
  /\ ready' = FALSE
  /\ suspended' = TRUE

ResumeQueue ==
  /\ suspended' = FALSE
  /\ UNCHANGED <<messageVars, items, ready, done>>

(* mq_signalProcessed: only somebody who sent is waiting to be told.       *)
SignalProcessed(m) ==
  /\ done' = (done \/ isSend[m])
  /\ UNCHANGED <<messageVars, items, suspended, ready>>

UnsignalDone ==
  /\ done' = FALSE
  /\ UNCHANGED <<messageVars, items, suspended, ready>>
=============================================================================
