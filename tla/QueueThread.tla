----------------------------- MODULE QueueThread -----------------------------
(***************************************************************************)
(* A thread with a message queue inside it, and the threads that use it    *)
(* (ETImessageQueueThread: eci_msgqueue.c, the first part of               *)
(* eci_soundthread.c, eci_thread.c, stm_qtSuspend and stm_qtResume in      *)
(* eci_synthmisc.c).                                                       *)
(*                                                                         *)
(* The worker takes messages off the queue and runs them.  A client posts  *)
(* one and leaves, sends one and waits for the worker's answer, stops the  *)
(* queue and lets it go again, or ends the thread.  Every wait and every   *)
(* critical section is a step of its own; between two of them any other    *)
(* thread may run.                                                         *)
(***************************************************************************)
EXTENDS MessageQueue

CONSTANTS
  Clients,   \* the threads that use this one
  MayDo,     \* MayDo[c]: the operations client c may ask for
  Nobody     \* nobody holds the lock

Ops == {"post", "send", "stop", "end"}

(* One thread stops the queue and one thread ends it: stl_stop and the     *)
(* destructors are the only callers, and both belong to the thread that    *)
(* owns the instance.                                                      *)
ClientAssumption ==
  /\ Nobody \notin Clients
  /\ MayDo \in [Clients -> SUBSET Ops]
  /\ \A c, d \in Clients :
       "stop" \in MayDo[c] /\ "stop" \in MayDo[d] => c = d
  /\ \A c, d \in Clients :
       "end" \in MayDo[c] /\ "end" \in MayDo[d] => c = d

ASSUME ClientAssumption

VARIABLES
  sendLock,   \* who holds q->send_lock
  turn,       \* the event t->turn: a round of the loop is over
  gate,       \* the event t->gate
  asked,      \* t->asked_to_stop: the quit message was accepted
  stopFlag,   \* t->th_asked_to_stop: the loop is to end
  status,     \* t->th_status
  thDone,     \* the binary semaphore t->th_done: the body has come back
  mayFinish,  \* the binary semaphore t->th_may_finish
  finished,   \* the binary semaphore t->th_finished
  pc,         \* pc[c]: where client c is
  mine,       \* mine[c]: the message client c made and still holds
  quit,       \* quit[m]: m is the message that stops the thread
  answer,     \* answer[c]: what client c's last post or send came back with
  wpc,        \* where the worker is
  cur         \* the message the worker has taken

threadVars == <<sendLock, turn, gate, asked, stopFlag, status>>
exitVars == <<thDone, mayFinish, finished>>
clientVars == <<pc, mine, quit, answer>>
workerVars == <<wpc, cur>>
vars == <<messageVars, queueVars, threadVars, exitVars, clientVars, workerVars>>

(* What a post or a send answers.                                          *)
Answers == {"failed", "queued", "refused"}

(* Holding the send lock, and between making a message and letting it go.  *)
Locked == {"sendpost", "await", "unsignal", "unlock"}
PostPC == {"gate", "check", "post"}
SendPC == {"lock", "letgo"} \cup Locked
ClientPC == {"idle", "drop"} \cup PostPC \cup SendPC
            \cup {"stopgate", "stopcheck", "suspend", "turn", "quiet",
                  "resumegate", "resumecheck", "resume"}
            \cup {"endgate", "endclose", "quitdrop", "endopen",
                  "exitgate", "exitclose", "exitdone", "exitlet",
                  "exitfinished", "exitopen", "over"}

(* The worker has a message off the queue and has not answered it yet; it  *)
(* still has its reference one step longer.                                *)
Unanswered == {"run", "mark", "answer"}
Holding == Unanswered \cup {"release"}
WorkerPC == {"top", "wait", "pop", "turn"} \cup Holding
            \cup {"exited", "leave", "last", "gone"}

TypeOK ==
  /\ QueueTypeOK
  /\ sendLock \in Clients \cup {Nobody}
  /\ turn \in BOOLEAN
  /\ gate \in BOOLEAN
  /\ asked \in BOOLEAN
  /\ stopFlag \in BOOLEAN
  /\ status \in {"running", "finished"}
  /\ thDone \in BOOLEAN
  /\ mayFinish \in BOOLEAN
  /\ finished \in BOOLEAN
  /\ pc \in [Clients -> ClientPC]
  /\ mine \in [Clients -> Msgs \cup {NoMsg}]
  /\ quit \in [Msgs -> BOOLEAN]
  /\ answer \in [Clients -> Answers]
  /\ wpc \in WorkerPC
  /\ cur \in Msgs \cup {NoMsg}

(* qt_ctor has run and th_start has started the body.                      *)
Init ==
  /\ QueueInit
  /\ sendLock = Nobody
  /\ turn = TRUE
  /\ gate = TRUE
  /\ asked = FALSE
  /\ stopFlag = FALSE
  /\ status = "running"
  /\ thDone = FALSE
  /\ mayFinish = FALSE
  /\ finished = FALSE
  /\ pc = [c \in Clients |-> "idle"]
  /\ mine = [c \in Clients |-> NoMsg]
  /\ quit = [m \in Msgs |-> FALSE]
  /\ answer = [c \in Clients |-> "failed"]
  /\ wpc = "top"
  /\ cur = NoMsg

Goto(c, there) == pc' = [pc EXCEPT ![c] = there]

(* th_getStatus(t) == 1 && !th_shouldTerminate(t)                          *)
Taking == status = "running" /\ ~stopFlag

-----------------------------------------------------------------------------
(* More slips the runs must catch: the exit is not waited for to its end;  *)
(* the quit message does nothing; a pop leaves the turn up; a round does   *)
(* not give the turn back.                                                 *)
LetGoUnwatched(c) ==
  /\ pc[c] = "exitlet"
  /\ mayFinish' = TRUE
  /\ Goto(c, "exitopen")
  /\ UNCHANGED <<messageVars, queueVars, threadVars, thDone, finished,
                 mine, quit, answer, workerVars>>

QuitIgnored ==
  /\ wpc = "run"
  /\ NoteRun(cur)
  /\ wpc' = "mark"
  /\ UNCHANGED <<queueVars, threadVars, exitVars, clientVars, cur>>

TurnLeftUp ==
  /\ wpc = "pop"
  /\ \/ /\ PopFirst
        /\ cur' = Head(items)
        /\ wpc' = "run"
     \/ /\ PopNothing
        /\ wpc' = "turn"
        /\ UNCHANGED cur
  /\ UNCHANGED <<messageVars, threadVars, exitVars, clientVars>>

TurnKept ==
  /\ wpc = "turn"
  /\ wpc' = "top"
  /\ UNCHANGED <<messageVars, queueVars, threadVars, exitVars, clientVars, cur>>

-----------------------------------------------------------------------------
(* Posting and sending: qt_postMessage, qt_sendMessage and the makers of   *)
(* messages that call them.                                                *)

(* newSnd, makeUser and their like: the message, and one reference to it.  *)
(* Whether it will be posted or sent shows at the check.                   *)
Begin(c, m) ==
  /\ pc[c] = "idle"
  /\ MayDo[c] \cap {"post", "send"} # {}
  /\ Make(m)
  /\ quit' = [quit EXCEPT ![m] = FALSE]
  /\ mine' = [mine EXCEPT ![c] = m]
  /\ Goto(c, "gate")
  /\ UNCHANGED <<queueVars, threadVars, exitVars, answer, workerVars>>

(* The gate is waited for and not taken: it stays as it was.               *)
PassGate(c, from, to) ==
  /\ pc[c] = from
  /\ gate
  /\ Goto(c, to)
  /\ UNCHANGED <<messageVars, queueVars, threadVars, exitVars, mine, quit,
                 answer, workerVars>>

Gate(c) == PassGate(c, "gate", "check")

(* A thread that is not taking messages answers POST_FAILED.               *)
Check(c) ==
  /\ pc[c] = "check"
  /\ IF Taking
     THEN /\ \/ "post" \in MayDo[c] /\ Goto(c, "post")
             \/ "send" \in MayDo[c] /\ Goto(c, "lock")
          /\ UNCHANGED answer
     ELSE /\ Goto(c, "drop")
          /\ answer' = [answer EXCEPT ![c] = "failed"]
  /\ UNCHANGED <<messageVars, queueVars, threadVars, exitVars, mine, quit,
                 workerVars>>

(* The critical section of q_postMessage; what it answers goes back to c.  *)
PostMessage(c, onQueued, otherwise) ==
  /\ \/ /\ PostQueued(mine[c])
        /\ answer' = [answer EXCEPT ![c] = "queued"]
        /\ Goto(c, onQueued)
     \/ /\ PostFailed(mine[c])
        /\ answer' = [answer EXCEPT ![c] = "failed"]
        /\ Goto(c, otherwise)
     \/ /\ PostRefused(mine[c])
        /\ answer' = [answer EXCEPT ![c] = "refused"]
        /\ Goto(c, otherwise)
  /\ UNCHANGED <<threadVars, exitVars, mine, quit, workerVars>>

Post(c) == pc[c] = "post" /\ PostMessage(c, "drop", "drop")

(* q_sendMessage, one step at a time.                                      *)
SendLock(c) ==
  /\ pc[c] = "lock"
  /\ sendLock = Nobody
  /\ sendLock' = c
  /\ HoldForSend(mine[c])
  /\ Goto(c, "sendpost")
  /\ UNCHANGED <<queueVars, turn, gate, asked, stopFlag, status, exitVars,
                 mine, quit, answer, workerVars>>

SendPost(c) == pc[c] = "sendpost" /\ PostMessage(c, "await", "unlock")

(* Woken, and the message says whether it was run or thrown away.          *)
SendAwait(c) ==
  /\ pc[c] = "await"
  /\ done
  /\ answer' = [answer EXCEPT ![c] =
                  IF result[mine[c]] = 0 THEN "refused" ELSE "queued"]
  /\ Goto(c, "unsignal")
  /\ UNCHANGED <<messageVars, queueVars, threadVars, exitVars, mine, quit,
                 workerVars>>

SendUnsignal(c) ==
  /\ pc[c] = "unsignal"
  /\ UnsignalDone
  /\ Goto(c, "unlock")
  /\ UNCHANGED <<threadVars, exitVars, mine, quit, answer, workerVars>>

SendUnlock(c) ==
  /\ pc[c] = "unlock"
  /\ sendLock' = Nobody
  /\ Goto(c, "letgo")
  /\ UNCHANGED <<messageVars, queueVars, turn, gate, asked, stopFlag, status,
                 exitVars, mine, quit, answer, workerVars>>

SendRelease(c) ==
  /\ pc[c] = "letgo"
  /\ Release(mine[c])
  /\ Goto(c, IF quit[mine[c]] THEN "quitdrop" ELSE "drop")
  /\ UNCHANGED <<queueVars, threadVars, exitVars, mine, quit, answer,
                 workerVars>>

(* The caller has its answer and lets its message go.                      *)
Drop(c) ==
  /\ pc[c] = "drop"
  /\ Release(mine[c])
  /\ mine' = [mine EXCEPT ![c] = NoMsg]
  /\ Goto(c, "idle")
  /\ UNCHANGED <<queueVars, threadVars, exitVars, quit, answer, workerVars>>

-----------------------------------------------------------------------------
(* Stopping the queue and letting it go: stm_qtSuspend, stm_qtResume.      *)

BeginStop(c) ==
  /\ "stop" \in MayDo[c]
  /\ pc[c] = "idle"
  /\ Goto(c, "stopgate")
  /\ UNCHANGED <<messageVars, queueVars, threadVars, exitVars, mine, quit,
                 answer, workerVars>>

StopGate(c) == PassGate(c, "stopgate", "stopcheck")

(* A thread that is not running, or on its way out, is left alone.         *)
CheckTaking(c, from, to) ==
  /\ pc[c] = from
  /\ Goto(c, IF Taking THEN to ELSE "idle")
  /\ UNCHANGED <<messageVars, queueVars, threadVars, exitVars, mine, quit,
                 answer, workerVars>>

StopCheck(c) == CheckTaking(c, "stopcheck", "suspend")

Suspend(c) ==
  /\ pc[c] = "suspend"
  /\ SuspendQueue
  /\ Goto(c, "turn")
  /\ UNCHANGED <<threadVars, exitVars, mine, quit, answer, workerVars>>

(* Wait until the message the thread is on has been finished with.         *)
AwaitTurn(c) ==
  /\ pc[c] = "turn"
  /\ turn
  /\ Goto(c, "quiet")
  /\ UNCHANGED <<messageVars, queueVars, threadVars, exitVars, mine, quit,
                 answer, workerVars>>

(* stl_stop does what it wanted the quiet for, and resumes.                *)
BeginResume(c) ==
  /\ pc[c] = "quiet"
  /\ Goto(c, "resumegate")
  /\ UNCHANGED <<messageVars, queueVars, threadVars, exitVars, mine, quit,
                 answer, workerVars>>

ResumeGate(c) == PassGate(c, "resumegate", "resumecheck")
ResumeCheck(c) == CheckTaking(c, "resumecheck", "resume")

Resume(c) ==
  /\ pc[c] = "resume"
  /\ ResumeQueue
  /\ Goto(c, "idle")
  /\ UNCHANGED <<threadVars, exitVars, mine, quit, answer, workerVars>>

-----------------------------------------------------------------------------
(* Ending the thread: th_terminateAndWait, which is qt_terminate and then  *)
(* qt_waitForExit.                                                         *)

BeginEnd(c) ==
  /\ "end" \in MayDo[c]
  /\ pc[c] = "idle"
  /\ Goto(c, "endgate")
  /\ UNCHANGED <<messageVars, queueVars, threadVars, exitVars, mine, quit,
                 answer, workerVars>>

EndGate(c) == PassGate(c, "endgate", "endclose")

(* The gate is shut, and a thread not yet asked is sent the quit message.  *)
EndClose(c) ==
  /\ pc[c] = "endclose"
  /\ gate' = FALSE
  /\ IF asked
     THEN /\ Goto(c, "endopen")
          /\ UNCHANGED <<messageVars, quit, mine>>
     ELSE /\ Goto(c, "lock")
          /\ \E m \in Msgs : /\ Make(m)
                            /\ quit' = [quit EXCEPT ![m] = TRUE]
                            /\ mine' = [mine EXCEPT ![c] = m]
  /\ UNCHANGED <<queueVars, sendLock, turn, asked, stopFlag, status, exitVars,
                 answer, workerVars>>

(* No memory for the quit message: nobody is told.                         *)
EndNoMemory(c) ==
  /\ pc[c] = "endclose"
  /\ ~asked
  /\ gate' = FALSE
  /\ Goto(c, "endopen")
  /\ UNCHANGED <<messageVars, queueVars, sendLock, turn, asked, stopFlag,
                 status, exitVars, mine, quit, answer, workerVars>>

(* Only a quit message that was run counts as having asked.                *)
QuitDrop(c) ==
  /\ pc[c] = "quitdrop"
  /\ asked' = (asked \/ answer[c] = "queued")
  /\ Release(mine[c])
  /\ mine' = [mine EXCEPT ![c] = NoMsg]
  /\ Goto(c, "endopen")
  /\ UNCHANGED <<queueVars, sendLock, turn, gate, stopFlag, status, exitVars,
                 quit, answer, workerVars>>

OpenGate(c, from, to) ==
  /\ pc[c] = from
  /\ gate' = TRUE
  /\ Goto(c, to)
  /\ UNCHANGED <<messageVars, queueVars, sendLock, turn, asked, stopFlag,
                 status, exitVars, mine, quit, answer, workerVars>>

EndOpen(c) == OpenGate(c, "endopen", "exitgate")
ExitGate(c) == PassGate(c, "exitgate", "exitclose")

(* th_waitForExit has nothing to wait for when the status is not running.  *)
ExitClose(c) ==
  /\ pc[c] = "exitclose"
  /\ gate' = FALSE
  /\ Goto(c, IF asked /\ status = "running" THEN "exitdone" ELSE "exitopen")
  /\ UNCHANGED <<messageVars, queueVars, sendLock, turn, asked, stopFlag,
                 status, exitVars, mine, quit, answer, workerVars>>

ExitDone(c) ==
  /\ pc[c] = "exitdone"
  /\ thDone
  /\ thDone' = FALSE
  /\ Goto(c, "exitlet")
  /\ UNCHANGED <<messageVars, queueVars, threadVars, mayFinish, finished,
                 mine, quit, answer, workerVars>>

ExitLet(c) ==
  /\ pc[c] = "exitlet"
  /\ mayFinish' = TRUE
  /\ Goto(c, "exitfinished")
  /\ UNCHANGED <<messageVars, queueVars, threadVars, thDone, finished,
                 mine, quit, answer, workerVars>>

ExitFinished(c) ==
  /\ pc[c] = "exitfinished"
  /\ finished
  /\ finished' = FALSE
  /\ Goto(c, "exitopen")
  /\ UNCHANGED <<messageVars, queueVars, threadVars, thDone, mayFinish,
                 mine, quit, answer, workerVars>>

ExitOpen(c) == OpenGate(c, "exitopen", "over")

(* The destructors ask a second time (snd_dtor and then qt_dtor).          *)
EndAgain(c) ==
  /\ pc[c] = "over"
  /\ Goto(c, "endgate")
  /\ UNCHANGED <<messageVars, queueVars, threadVars, exitVars, mine, quit,
                 answer, workerVars>>

-----------------------------------------------------------------------------
(* The worker: qt_run inside th_execute.                                   *)

WGoto(there) == wpc' = there

WTop ==
  /\ wpc = "top"
  /\ WGoto(IF stopFlag THEN "exited" ELSE "wait")
  /\ UNCHANGED <<messageVars, queueVars, threadVars, exitVars, clientVars, cur>>

WWait ==
  /\ wpc = "wait"
  /\ ready
  /\ WGoto("pop")
  /\ UNCHANGED <<messageVars, queueVars, threadVars, exitVars, clientVars, cur>>

(* The critical section of q_popMessage: with a message in hand the round  *)
(* is no longer over.                                                      *)
WPop ==
  /\ wpc = "pop"
  /\ \/ /\ PopFirst
        /\ cur' = Head(items)
        /\ turn' = FALSE
        /\ WGoto("run")
     \/ /\ PopNothing
        /\ WGoto("turn")
        /\ UNCHANGED <<cur, turn>>
  /\ UNCHANGED <<messageVars, sendLock, gate, asked, stopFlag, status,
                 exitVars, clientVars>>

(* Running the quit message is what stops the thread; any other is between *)
(* its maker and what it is for.                                           *)
WRun ==
  /\ wpc = "run"
  /\ NoteRun(cur)
  /\ stopFlag' = (stopFlag \/ quit[cur])
  /\ WGoto("mark")
  /\ UNCHANGED <<queueVars, sendLock, turn, gate, asked, status, exitVars,
                 clientVars, cur>>

WMark ==
  /\ wpc = "mark"
  /\ MarkResult(cur)
  /\ WGoto("answer")
  /\ UNCHANGED <<queueVars, threadVars, exitVars, clientVars, cur>>

WAnswer ==
  /\ wpc = "answer"
  /\ SignalProcessed(cur)
  /\ WGoto("release")
  /\ UNCHANGED <<threadVars, exitVars, clientVars, cur>>

WRelease ==
  /\ wpc = "release"
  /\ Release(cur)
  /\ cur' = NoMsg
  /\ WGoto("turn")
  /\ UNCHANGED <<queueVars, threadVars, exitVars, clientVars>>

WTurn ==
  /\ wpc = "turn"
  /\ turn' = TRUE
  /\ WGoto("top")
  /\ UNCHANGED <<messageVars, queueVars, sendLock, gate, asked, stopFlag,
                 status, exitVars, clientVars, cur>>

(* The body has come back: say so, wait to be let go, finish.              *)
WExited ==
  /\ wpc = "exited"
  /\ thDone' = TRUE
  /\ WGoto("leave")
  /\ UNCHANGED <<messageVars, queueVars, threadVars, mayFinish, finished,
                 clientVars, cur>>

WLeave ==
  /\ wpc = "leave"
  /\ mayFinish
  /\ mayFinish' = FALSE
  /\ status' = "finished"
  /\ WGoto("last")
  /\ UNCHANGED <<messageVars, queueVars, sendLock, turn, gate, asked, stopFlag,
                 thDone, finished, clientVars, cur>>

WLast ==
  /\ wpc = "last"
  /\ finished' = TRUE
  /\ WGoto("gone")
  /\ UNCHANGED <<messageVars, queueVars, threadVars, thDone, mayFinish,
                 clientVars, cur>>

-----------------------------------------------------------------------------
SendStep(c) ==
  \/ SendLock(c) \/ SendPost(c) \/ SendAwait(c) \/ SendUnsignal(c)
  \/ SendUnlock(c) \/ SendRelease(c)

StopStep(c) ==
  \/ StopGate(c) \/ StopCheck(c) \/ Suspend(c) \/ AwaitTurn(c)
  \/ BeginResume(c) \/ ResumeGate(c) \/ ResumeCheck(c) \/ Resume(c)

EndStep(c) ==
  \/ EndGate(c) \/ EndClose(c) \/ EndNoMemory(c) \/ QuitDrop(c) \/ EndOpen(c)
  \/ ExitGate(c) \/ ExitClose(c) \/ ExitDone(c) \/ ExitLet(c)
  \/ ExitFinished(c) \/ ExitOpen(c)

(* Everything a client does once it has started on an operation.           *)
ClientStep(c) ==
  \/ Gate(c) \/ Check(c) \/ Post(c) \/ Drop(c)
  \/ SendStep(c) \/ StopStep(c) \/ EndStep(c)

ClientStart(c) ==
  \/ \E m \in Msgs : Begin(c, m)
  \/ BeginStop(c) \/ BeginEnd(c) \/ EndAgain(c)

WorkerStep ==
  \/ WTop \/ WWait \/ WPop \/ WRun \/ WMark \/ WAnswer \/ WRelease \/ WTurn
  \/ WExited \/ WLeave \/ WLast

Next ==
  \/ WorkerStep
  \/ \E c \in Clients : ClientStart(c) \/ ClientStep(c)

Spec == Init /\ [][Next]_vars

(* Every thread that can go on goes on; nobody has to start anything.      *)
Fairness ==
  /\ WF_vars(WorkerStep)
  /\ \A c \in Clients : WF_vars(ClientStep(c))

FairSpec == Spec /\ Fairness

-----------------------------------------------------------------------------
(* What the thread promises.                                               *)

Count(holds) == IF holds THEN 1 ELSE 0

(* A sender has a second reference from taking the lock until it lets go.  *)
Sending(c) == pc[c] \in Locked \cup {"letgo"}

Made(m) == \E c \in Clients : mine[c] = m
Sent(m) == \E c \in Clients : mine[c] = m /\ Sending(c)

(* The references somebody is still going to give back.                    *)
Owed(m) ==
  Count(Made(m)) + Count(Sent(m)) + Count(m \in Queued) + Count(cur = m)

(* A message's count is exactly the references that are still to be given  *)
(* back: by its maker, by a sender for the wait, by the queue and by the   *)
(* worker.  It exists precisely as long as there is one, so nobody uses a  *)
(* message that has been destroyed and none is left over (msg_addRef and   *)
(* msg_release across q_postMessage, q_sendMessage, q_clearMessages,       *)
(* qt_run and qt_terminate).                                               *)
EveryReferenceIsOwed ==
  \A m \in Msgs : refs[m] = Owed(m) /\ (live[m] <=> Owed(m) > 0)

(* The worker sleeps only on an empty queue and never spins on one: the    *)
(* event that wakes it is up exactly while something is waiting, whatever  *)
(* order posts, pops and suspends take the lock in.                        *)
ReadyIffWaiting == ready <=> items # <<>>

(* Somebody will still answer the message: it is on the queue, or in the   *)
(* worker's hand and not yet signalled.                                    *)
WillBeAnswered(m) == m \in Queued \/ (cur = m /\ wpc \in Unanswered)

(* The one `done' event serves every sender in turn.  A sender that waits  *)
(* either has an answer still coming or finds the event up, and never both:*)
(* an answer meant for one sender is never taken by the next, and none is  *)
(* lost (q_sendMessage, mq_signalProcessed, q_clearMessages).              *)
AnswerReachesItsSender ==
  \A c \in Clients : pc[c] = "await" => (done <=> ~WillBeAnswered(mine[c]))

(* Outside a send the event is down, so the next sender starts clean.      *)
DoneIsTakenBack ==
  done => \E c \in Clients : pc[c] \in {"await", "unsignal"}

(* What a send answers is what happened: POST_QUEUED exactly when the      *)
(* thread has run the message, and a message that was thrown away, refused *)
(* or never got on the queue was not run (the read of m->result after the  *)
(* wait in q_sendMessage).                                                 *)
SendAnswersTruly ==
  \A c \in Clients :
    pc[c] \in {"unsignal", "unlock", "letgo", "quitdrop"} =>
      (answer[c] = "queued" <=> ran[mine[c]])

(* The stop of stl_stop is a real one: from the suspend to the resume     *)
(* nothing waits and nobody can change that, and once the turn has come    *)
(* the thread runs nothing and holds nothing either, though it may have    *)
(* been between its wait and its pop when the queue was emptied            *)
(* (stm_qtSuspend against q_popMessage, which unsignals `turn' inside the  *)
(* lock).                                                                  *)
Quiet ==
  \A c \in Clients :
    /\ pc[c] \in {"turn", "quiet", "resumegate", "resumecheck", "resume"} =>
         suspended /\ items = <<>>
    /\ pc[c] \in {"quiet", "resumegate", "resumecheck", "resume"} =>
         wpc \notin Holding

(* When the end of the thread comes back having asked, the thread is gone: *)
(* its owner may destroy what it used (qt_terminate and qt_waitForExit,    *)
(* the handshake of th_waitForExit and th_execute).                        *)
EndMeansGone ==
  \A c \in Clients : pc[c] = "over" /\ asked => wpc = "gone"

(* The thread as its clients see it.  A message is served when it is run:  *)
(* from there on nothing can throw it away.                                *)
Box == INSTANCE Mailbox WITH
  line <- (IF wpc = "run" THEN <<cur>> ELSE <<>>) \o items,
  open <- ~suspended,
  fate <- [c \in Clients |->
             IF pc[c] # "await" THEN "none"
             ELSE IF mine[c] \in Queued \/ (wpc = "run" /\ cur = mine[c])
                  THEN "asked"
             ELSE IF ran[mine[c]] THEN "run" ELSE "thrown"],
  waitsFor <- [c \in Clients |-> IF pc[c] = "await" THEN mine[c] ELSE NoMsg],
  verdict <- answer

(* Seen like that, the locks, events and counts of the code implement the  *)
(* mailbox: first come first served, each message run once or thrown away  *)
(* by a stop, every waiting sender told which.                             *)
ImplementsMailbox == Box!Spec

(* The clients that may ask for an operation.                              *)
Who(op) == {c \in Clients : op \in MayDo[c]}

(* Every sender that waits is answered (q_sendMessage), unless the thread   *)
(* has gone: a message posted behind its end is left on the queue.         *)
EverySendReturns ==
  \A c \in Who("send") : pc[c] = "await" ~> pc[c] # "await" \/ wpc = "gone"

(* Every stop gets its quiet (stm_qtSuspend waiting for the turn), unless  *)
(* the thread is on its way out.                                           *)
EveryStopGetsQuiet ==
  \A c \in Who("stop") : pc[c] = "stopgate" ~> pc[c] \in {"quiet", "idle"}

(* Ending the thread comes back, and so does what it holds the gate from.  *)
EveryEndReturns ==
  \A c \in Who("end") : pc[c] = "endgate" ~> pc[c] = "over"
=============================================================================
