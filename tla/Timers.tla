------------------------------- MODULE Timers -------------------------------
(***************************************************************************)
(* Timers (eci_timer.c): one thread serves them all, and lives while there *)
(* are any.                                                                *)
(*                                                                         *)
(* A user has a timer set and later killed; setting the first starts the   *)
(* thread and killing the last waits for its end.  The array of timers is  *)
(* under the mutex `guard`, which the thread keeps while it goes round     *)
(* them and posts what is due; a call as a whole is under `oneAtATime`.    *)
(* What a user does under the guard is one step, for no other thread sees  *)
(* the middle of it.                                                       *)
(*                                                                         *)
(* The users are sound threads (snd_*, eci_soundthread.c), each with one   *)
(* timer at most.                                                          *)
(***************************************************************************)
EXTENDS Integers, Sequences, SequencesExt

CONSTANTS
  Users,        \* who has timers set
  Period,       \* Period[u]: how often user u wants a message
  Word,         \* how many values a time has; 2^32 in the code
  FailsAt,      \* how many timers there may be when one more finds no memory
  Nobody        \* nobody holds the mutex

ASSUME UserAssumption ==
  /\ Nobody \notin Users
  /\ Word \in Nat \ {0}
  /\ Period \in [Users -> 1..Word - 1]
  /\ FailsAt \subseteq Nat

VARIABLES
  timers,     \* t->timers, up to t->count: whose they are, in order
  index,      \* index[u]: where user u's timer says it is
  sofar,      \* sofar[u]: what is charged against it
  elapsed,    \* t->elapsed
  guarded,    \* whether the timer thread holds t->guard
  turn,       \* who holds t->oneAtATime
  wake,       \* the event t->wake
  pc,         \* pc[u]: where user u is
  tpc,        \* where the thread is, "none" if there is none
  slept,      \* tt_run's slept,
  soonest,    \* soonest
  next,       \* and i
  asked,      \* th_asked_to_stop
  status,     \* th_status
  gate,       \* the four semaphores of a thread
  done,
  mayFinish,
  finished,
  said        \* history: who was posted to in this round

arrayVars == <<timers, index, sofar, elapsed>>
roundVars == <<slept, soonest, next, said>>
threadVars == <<asked, status, gate, done, mayFinish, finished>>
vars == <<arrayVars, guarded, turn, wake, pc, tpc, roundVars, threadVars>>

UserPC == {"without", "set", "start", "gate", "with",
           "kill", "last", "wake", "exit", "done", "finished", "unlock"}
ThreadPC == {"none", "enter", "top", "charge", "sleep", "unsignal", "take",
             "left", "leave"}

TypeOK ==
  /\ timers \in Seq(Users)
  /\ index \in [Users -> Nat]
  /\ \A u \in Users : sofar[u] \in 0..Period[u] - 1
  /\ elapsed \in 0..Word - 1
  /\ guarded \in BOOLEAN
  /\ turn \in Users \cup {Nobody}
  /\ wake \in BOOLEAN
  /\ pc \in [Users -> UserPC]
  /\ tpc \in ThreadPC
  /\ slept \in 0..Word - 1
  /\ soonest \in 0..Word - 1
  /\ next \in Nat
  /\ asked \in BOOLEAN
  /\ status \in {"new", "running", "finished"}
  /\ gate \in BOOLEAN
  /\ done \in BOOLEAN
  /\ mayFinish \in BOOLEAN
  /\ finished \in BOOLEAN
  /\ said \subseteq Users

Init ==
  /\ timers = <<>>
  /\ index = [u \in Users |-> 0]
  /\ sofar = [u \in Users |-> 0]
  /\ elapsed = 0
  /\ guarded = FALSE
  /\ turn = Nobody
  /\ wake = FALSE
  /\ pc = [u \in Users |-> "without"]
  /\ tpc = "none"
  /\ slept = 0 /\ soonest = 0 /\ next = 1 /\ said = {}
  /\ asked = FALSE /\ status = "new"
  /\ gate = TRUE /\ done = FALSE /\ mayFinish = FALSE /\ finished = FALSE

Count == Len(timers)
Live == ToSet(timers)
Goto(u, there) == pc' = [pc EXCEPT ![u] = there]

(* tt_timerNextDue                                                         *)
NextDue(u) == Period[u] - sofar[u]

-----------------------------------------------------------------------------
(* The calls.                                                              *)

(* The event: brought up by a new timer and by the end, taken down by the  *)
(* thread that has come out of its sleep.                                  *)
Unbroken == wake' = wake
Signal == wake' = TRUE
TakeDown == wake' = FALSE

(* Either call begins by waiting for its turn.                             *)
Call(u) ==
  /\ turn = Nobody
  /\ turn' = u
  /\ \/ pc[u] = "without" /\ Goto(u, "set")
     \/ pc[u] = "with" /\ Goto(u, "kill")
  /\ UNCHANGED <<arrayVars, guarded, wake, tpc, roundVars, threadVars>>

(* How far into its first round a timer starts.                            *)
StartsAt(u) == elapsed % Period[u]

(* tt_setTimer under the guard, when there is memory for it.               *)
SetTimer(u) ==
  /\ pc[u] = "set"
  /\ ~guarded
  /\ timers' = Append(timers, u)
  /\ index' = [index EXCEPT ![u] = Count + 1]
  /\ sofar' = [sofar EXCEPT ![u] = StartsAt(u)]
  /\ Signal
  /\ Goto(u, "start")
  /\ UNCHANGED <<elapsed, guarded, turn, tpc, roundVars, threadVars>>

(* When there is none: nothing has changed, and the call goes on to look   *)
(* at the count all the same.                                              *)
SetFails(u) ==
  /\ Count \in FailsAt
  /\ pc[u] = "set"
  /\ ~guarded
  /\ Goto(u, "start")
  /\ UNCHANGED <<arrayVars, guarded, turn, wake, tpc, roundVars, threadVars>>

(* The call is over: the user has a timer if one came of it.               *)
Return(u) ==
  /\ turn' = Nobody
  /\ Goto(u, IF u \in Live THEN "with" ELSE "without")

(* With one timer there is, tt_setTimer starts the thread.                 *)
LookAtCount(u) ==
  /\ pc[u] = "start"
  /\ IF Count = 1
       THEN asked' = FALSE /\ Goto(u, "gate") /\ UNCHANGED turn
       ELSE Return(u) /\ UNCHANGED asked
  /\ UNCHANGED <<arrayVars, guarded, wake, tpc, roundVars, status, gate, done,
                 mayFinish, finished>>

(* th_start waits for the gate, makes the thread and says it is running.   *)
Start(u) ==
  /\ pc[u] = "gate"
  /\ gate
  /\ gate' = FALSE
  /\ status' = "running"
  /\ tpc' = "enter"
  /\ Return(u)
  /\ UNCHANGED <<arrayVars, guarded, wake, roundVars, asked, done, mayFinish,
                 finished>>

(* What tt_killTimer leaves of the array: the last timer goes where user   *)
(* u's is, and is told so.                                                 *)
Filled(u) == Front([timers EXCEPT ![index[u]] = Last(timers)])
NotTold(u) == index
Told(u) == [index EXCEPT ![Last(timers)] = index[u]]

(* tt_killTimer under the guard.                                           *)
KillTimer(u) ==
  /\ pc[u] = "kill"
  /\ ~guarded
  /\ timers' = Filled(u)
  /\ index' = Told(u)
  /\ Goto(u, "last")
  /\ UNCHANGED <<sofar, elapsed, guarded, turn, wake, tpc, roundVars,
                 threadVars>>

OneLeft == Count = 1
LastGone == Count = 0

(* With none left it has the thread end: tt_terminate, in two steps.       *)
Terminate(u) ==
  /\ pc[u] = "last"
  /\ IF LastGone
       THEN asked' = TRUE /\ Goto(u, "wake") /\ UNCHANGED turn
       ELSE Return(u) /\ UNCHANGED asked
  /\ UNCHANGED <<arrayVars, guarded, wake, tpc, roundVars, status, gate, done,
                 mayFinish, finished>>

Wake(u) ==
  /\ pc[u] = "wake"
  /\ Signal
  /\ Goto(u, "exit")
  /\ UNCHANGED <<arrayVars, guarded, turn, tpc, roundVars, threadVars>>

(* th_waitForExit.                                                         *)
WaitForExit(u) ==
  /\ pc[u] = "exit"
  /\ Goto(u, IF status = "running" THEN "done" ELSE "unlock")
  /\ UNCHANGED <<arrayVars, guarded, turn, wake, tpc, roundVars, threadVars>>

WaitDone(u) ==
  /\ pc[u] = "done"
  /\ done
  /\ done' = FALSE
  /\ mayFinish' = TRUE
  /\ Goto(u, "finished")
  /\ UNCHANGED <<arrayVars, guarded, turn, wake, tpc, roundVars, asked, status,
                 gate, finished>>

WaitFinished(u) ==
  /\ pc[u] = "finished"
  /\ finished
  /\ finished' = FALSE
  /\ Goto(u, "unlock")
  /\ UNCHANGED <<arrayVars, guarded, turn, wake, tpc, roundVars, asked, status,
                 gate, done, mayFinish>>

Unlock(u) ==
  /\ pc[u] = "unlock"
  /\ Return(u)
  /\ UNCHANGED <<arrayVars, guarded, wake, tpc, roundVars, threadVars>>

-----------------------------------------------------------------------------
(* The thread: tt_run.                                                     *)

Enter ==
  /\ tpc = "enter"
  /\ ~guarded
  /\ guarded' = TRUE
  /\ slept' = 0
  /\ tpc' = "top"
  /\ UNCHANGED <<arrayVars, turn, wake, pc, soonest, next, said, threadVars>>

Stop ==
  /\ tpc = "top"
  /\ asked
  /\ guarded' = FALSE
  /\ tpc' = "left"
  /\ UNCHANGED <<arrayVars, turn, wake, pc, roundVars, threadVars>>

Round ==
  /\ tpc = "top"
  /\ ~asked
  /\ soonest' = Word - 1
  /\ next' = 1
  /\ tpc' = "charge"
  /\ UNCHANGED <<arrayVars, guarded, turn, wake, pc, slept, said, threadVars>>

(* What charging does to a timer: tt_timerIsDue.                           *)
Charged(u) == (sofar[u] + slept) % Word
IsDue(u) == Charged(u) >= Period[u]
Remainder(u) == Charged(u) % Period[u]

(* One timer: charged, posted if it has come round, and asked how long it  *)
(* has still to go.                                                        *)
Charge ==
  /\ tpc = "charge"
  /\ next <= Count
  /\ LET u == timers[next] IN
       /\ sofar' = [sofar EXCEPT ![u] = Remainder(u)]
       /\ said' = IF IsDue(u) THEN said \cup {u} ELSE said
       /\ soonest' = LET left == Period[u] - Remainder(u)
                     IN  IF soonest >= left THEN left ELSE soonest
  /\ next' = next + 1
  /\ UNCHANGED <<timers, index, elapsed, guarded, turn, wake, pc, tpc, slept,
                 threadVars>>

EndRound ==
  /\ tpc = "charge"
  /\ next > Count
  /\ guarded' = FALSE
  /\ said' = {}
  /\ tpc' = "sleep"
  /\ UNCHANGED <<arrayVars, turn, wake, pc, slept, soonest, next, threadVars>>

(* sy_eventWait takes the time it is to wait and does nothing with it: it  *)
(* comes back when the event is up.                                        *)
Sleep ==
  /\ tpc = "sleep"
  /\ wake
  /\ tpc' = "unsignal"
  /\ UNCHANGED <<arrayVars, guarded, turn, wake, pc, roundVars, threadVars>>

Unsignal ==
  /\ tpc = "unsignal"
  /\ TakeDown
  /\ tpc' = "take"
  /\ UNCHANGED <<arrayVars, guarded, turn, pc, roundVars, threadVars>>

(* The guard again; the time it meant to sleep is what it has slept.       *)
Take ==
  /\ tpc = "take"
  /\ ~guarded
  /\ guarded' = TRUE
  /\ elapsed' = (elapsed + soonest) % Word
  /\ slept' = soonest
  /\ tpc' = "top"
  /\ UNCHANGED <<timers, index, sofar, turn, wake, pc, soonest, next, said,
                 threadVars>>

(* th_execute, behind the body.                                            *)
Left ==
  /\ tpc = "left"
  /\ done' = TRUE
  /\ tpc' = "leave"
  /\ UNCHANGED <<arrayVars, guarded, turn, wake, pc, roundVars, asked, status,
                 gate, mayFinish, finished>>

Leave ==
  /\ tpc = "leave"
  /\ mayFinish
  /\ mayFinish' = FALSE
  /\ status' = "finished"
  /\ gate' = TRUE
  /\ finished' = TRUE
  /\ tpc' = "none"
  /\ UNCHANGED <<arrayVars, guarded, turn, wake, pc, roundVars, asked, done>>

-----------------------------------------------------------------------------
(* A user's step within a call it has begun.                               *)
Within(u) ==
  \/ SetTimer(u) \/ SetFails(u) \/ LookAtCount(u) \/ Start(u)
  \/ KillTimer(u) \/ Terminate(u) \/ Wake(u)
  \/ WaitForExit(u) \/ WaitDone(u) \/ WaitFinished(u) \/ Unlock(u)

Run ==
  \/ Enter \/ Stop \/ Round \/ Charge \/ EndRound
  \/ Sleep \/ Unsignal \/ Take \/ Left \/ Leave

Next ==
  \/ \E u \in Users : Call(u) \/ Within(u)
  \/ Run

Spec == Init /\ [][Next]_vars

(* A thread that can run does; nobody has to call.                         *)
Fairness == WF_vars(Run) /\ \A u \in Users : WF_vars(Within(u))
FairSpec == Spec /\ Fairness

-----------------------------------------------------------------------------
(* Every timer is where it says it is, and one that a user has been given  *)
(* and not asked to have killed is among them: a kill fills the gap with   *)
(* the last timer, and the next kill finds that one by what it was told    *)
(* (tt_killTimer).                                                         *)
TimersAreInPlace ==
  /\ \A i \in 1..Count : index[timers[i]] = i
  /\ \A u \in Users : pc[u] = "with" => u \in Live

(* When nobody is in a call, there is a thread exactly if there are        *)
(* timers, however the calls were mixed (eci_timer.c, 10-11).              *)
ThreadWhileTimers ==
  turn = Nobody => (tpc # "none" <=> timers # <<>>)

(* A timer that is set is counted, unless it is killed: the thread goes    *)
(* round once more and works out a sleep that is not too long for any,     *)
(* wherever on its way into a sleep or out of one the timer found it       *)
(* (eci_timer.c, 7-8: adding one signals the event so that the sleep is    *)
(* recomputed).  How long the thread then sleeps is another matter: the    *)
(* wait does nothing with the time.                                        *)
Counted(u) == tpc = "sleep" /\ soonest <= NextDue(u)
EveryTimerIsCounted == timers # <<>> ~> \A u \in Live : Counted(u)

(* The same as a fact about states: a thread asleep with no signal to come *)
(* has handed the wait a time that is not too long for any timer.          *)
SleepIsRecomputed ==
  tpc = "sleep" /\ ~wake => \A u \in Live : soonest <= NextDue(u)

(* Between two rounds every timer is charged with what the thread takes    *)
(* for elapsed, whenever it was set and whatever was slept before          *)
(* (tt_setTimer, tt_run).  A period that does not divide 2^32 is out of    *)
(* step when that wraps.                                                   *)
TimersKeepStep ==
  ~guarded =>
    \A u \in Live : Word % Period[u] = 0 => sofar[u] = elapsed % Period[u]

(* So two timers of one such period are always at the same point of it,    *)
(* and fall due in the same round, whenever each was set.  The comment on  *)
(* tt_setTimer (eci_timer.c, 212-214) has a timer start part way through   *)
(* its first round so that they do not; what it starts with brings it into *)
(* step with the others.                                                   *)
EqualPeriodsTogether ==
  ~guarded =>
    \A u, v \in Live :
      Period[u] = Period[v] /\ Word % Period[u] = 0 => sofar[u] = sofar[v]

(* Nothing is posted for a timer that has been killed: to whoever has it   *)
(* killed, the message is gone when the call comes back.                   *)
Given == {u \in Users : pc[u] \notin {"without", "last", "wake", "exit", "done",
                                      "finished", "unlock"}}
NoTickAfterKill == [][said' \ said \subseteq Given]_vars

(* A call that has its turn comes back, the one that ends the thread with  *)
(* it.                                                                     *)
CallsReturn == turn # Nobody ~> turn = Nobody

=============================================================================
