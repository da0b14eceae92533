----------------------------- MODULE TimerProofs -----------------------------
(***************************************************************************)
(* The timers for any users, periods and failures of memory: where they    *)
(* are in the array, whom the thread posts to, when there is a thread, and *)
(* what it charges them while it sleeps and wakes.                         *)
(***************************************************************************)
EXTENDS Timers, SequenceTheorems, TLAPS

(* Not in a call.                                                          *)
IdlePC == {"without", "with"}
(* The places in which a user has a timer, and those in which it may have: *)
(* tt_setTimer comes back to either, with memory or without.               *)
HavingPC == {"with", "kill"}
SettingPC == {"start", "gate"}

Shape ==
  /\ timers \in Seq(Users)
  /\ index \in [Users -> Nat]
  /\ pc \in [Users -> UserPC]
  /\ turn \in Users \cup {Nobody}
  /\ next \in Nat \ {0}

(* A user in a call has its turn.                                          *)
Turns ==
  /\ \A u \in Users : pc[u] \notin IdlePC => turn = u
  /\ turn # Nobody => pc[turn] \notin IdlePC

InPlace == \A i \in 1..Count : index[timers[i]] = i

Having ==
  \A u \in Users :
    /\ pc[u] \in HavingPC => u \in Live
    /\ u \in Live => pc[u] \in HavingPC \cup SettingPC

Inv == Shape /\ Turns /\ InPlace /\ Having

LEMMA Initially == Init => Inv
<1> SUFFICES ASSUME Init PROVE Inv
  OBVIOUS
<1>1. timers = <<>> /\ Count = 0 /\ Live = {}
  BY DEF Init, Count, Live, ToSet
<1> QED
  BY <1>1, UserAssumption DEF Init, Inv, Shape, Turns, InPlace, Having, IdlePC,
     HavingPC, SettingPC, UserPC, UserAssumption

(* Two users in a call are one.                                            *)
LEMMA OneAtATime ==
  ASSUME Turns, NEW u \in Users, NEW v \in Users,
         pc[u] \notin IdlePC, pc[v] \notin IdlePC
  PROVE  u = v
BY DEF Turns

LEMMA AppendPlaces ==
  ASSUME Shape, InPlace, NEW u \in Users, u \notin Live,
         timers' = Append(timers, u),
         index' = [index EXCEPT ![u] = Count + 1]
  PROVE  /\ timers' \in Seq(Users)
         /\ index' \in [Users -> Nat]
         /\ InPlace'
         /\ Live' = Live \cup {u}
         /\ Count' = Count + 1
<1>1. /\ timers' \in Seq(Users) /\ Count' = Count + 1 /\ Count \in Nat
      /\ \A i \in 1..Count : timers'[i] = timers[i]
      /\ timers'[Count + 1] = u
  BY DEF Shape, Count
<1>2. /\ DOMAIN timers = 1..Count /\ DOMAIN timers' = 1..Count + 1
      /\ \A i \in 1..Count : timers[i] \in Users
  BY <1>1 DEF Shape, Count
<1>3. index' \in [Users -> Nat]
  BY <1>1 DEF Shape
<1>4. Live' = Live \cup {u}
  BY <1>1, <1>2 DEF Live, ToSet
<1>5. \A i \in 1..Count : timers[i] # u
  BY <1>2 DEF Live, ToSet
<1>6. InPlace'
  BY <1>1, <1>2, <1>5 DEF InPlace, Shape
<1> QED
  BY <1>1, <1>3, <1>4, <1>6

(* What a kill leaves: the array without the timer, packed, every one of   *)
(* the rest at its index.                                                  *)
LEMMA FilledPlaces ==
  ASSUME Shape, InPlace, NEW u \in Live,
         timers' = Filled(u), index' = Told(u)
  PROVE  /\ timers' \in Seq(Users)
         /\ index' \in [Users -> Nat]
         /\ InPlace'
         /\ Live' = Live \ {u}
         /\ Count' = Count - 1
         /\ Count # 0
<1> DEFINE n == Count
           l == timers[n]
<1>1. PICK j \in 1..n : timers[j] = u
  BY DEF Live, ToSet, Count, Shape
<1>2. /\ n \in Nat /\ n # 0 /\ index[u] = j /\ l \in Users /\ Last(timers) = l
      /\ index[l] = n /\ DOMAIN timers = 1..n
      /\ \A i \in 1..n : timers[i] \in Users /\ index[timers[i]] = i
  BY <1>1 DEF InPlace, Count, Shape, Last
<1> DEFINE moved == [timers EXCEPT ![j] = l]
<1>3. /\ moved \in Seq(Users) /\ Len(moved) = n
      /\ \A i \in 1..n : moved[i] = IF i = j THEN l ELSE timers[i]
  BY <1>1, <1>2 DEF Shape, Count
<1>4. timers' = SubSeq(moved, 1, n - 1)
  BY <1>2, <1>3 DEF Filled, Front
<1>5. /\ timers' \in Seq(Users) /\ Len(timers') = n - 1
      /\ \A i \in 1..n - 1 : timers'[i] = moved[i]
  <2> HIDE DEF moved, n
  <2> QED
    BY <1>2, <1>3, <1>4, SubSeqProperties
<1>6. DOMAIN timers' = 1..n - 1 /\ Count' = n - 1
  BY <1>5 DEF Count
<1>7. index' = [index EXCEPT ![l] = j]
  BY <1>2 DEF Told
<1>8. \A i \in 1..n - 1 : timers'[i] = IF i = j THEN l ELSE timers[i]
  BY <1>2, <1>3, <1>5
<1>9. InPlace'
  <2> SUFFICES ASSUME NEW i \in 1..n - 1 PROVE index'[timers'[i]] = i
    BY <1>6 DEF InPlace
  <2>1. CASE i = j
    BY <2>1, <1>2, <1>7, <1>8 DEF Shape
  <2>2. CASE i # j
    BY <2>2, <1>2, <1>7, <1>8 DEF Shape
  <2> QED
    BY <2>1, <2>2
<1>10. Live' = Live \ {u}
  <2>1. ASSUME NEW v \in Live' PROVE v \in Live \ {u}
    <3>1. PICK i \in 1..n - 1 : timers'[i] = v
      BY <1>6 DEF Live, ToSet
    <3>2. i # n /\ (i = j => v = l /\ n # j) /\ (i # j => v = timers[i])
      BY <3>1, <1>2, <1>8
    <3>3. v # u
      BY <3>2, <1>1, <1>2
    <3> QED
      BY <3>2, <3>3, <1>2 DEF Live, ToSet
  <2>2. ASSUME NEW v \in Live, v # u PROVE v \in Live'
    <3>1. PICK k \in 1..n : timers[k] = v
      BY <1>2 DEF Live, ToSet
    <3>2. k # j
      BY <3>1, <2>2, <1>1
    <3>3. CASE k = n
      <4>1. j \in 1..n - 1 /\ timers'[j] = v
        BY <3>1, <3>2, <3>3, <1>1, <1>2, <1>8
      <4> QED
        BY <4>1, <1>6 DEF Live, ToSet
    <3>4. CASE k # n
      <4>1. k \in 1..n - 1 /\ timers'[k] = v
        BY <3>1, <3>2, <3>4, <1>1, <1>2, <1>8
      <4> QED
        BY <4>1, <1>6 DEF Live, ToSet
    <3> QED
      BY <3>3, <3>4
  <2> QED
    BY <2>1, <2>2
<1> QED
  BY <1>2, <1>5, <1>6, <1>7, <1>9, <1>10, <1>1 DEF Shape

(* A step of a call that leaves the array alone, within the call and at    *)
(* its return.                                                             *)
LEMMA WithinCall ==
  ASSUME Inv, NEW u \in Users, NEW p \in UserPC \ IdlePC,
         pc[u] \notin IdlePC,
         Goto(u, p), UNCHANGED <<timers, index, turn, next>>,
         u \in Live => p \in HavingPC \cup SettingPC,
         p \in HavingPC => u \in Live
  PROVE  Inv'
<1>1. Live' = Live /\ Count' = Count
  BY DEF Live, Count
<1>2. Shape' /\ Turns'
  BY DEF Inv, Shape, Turns, Goto
<1>3. InPlace' /\ Having'
  BY <1>1 DEF Inv, Shape, InPlace, Having, Goto
<1> QED
  BY <1>2, <1>3 DEF Inv

LEMMA AtReturn ==
  ASSUME Inv, NEW u \in Users, pc[u] \notin IdlePC,
         Return(u), UNCHANGED <<timers, index, next>>
  PROVE  Inv'
<1>1. Live' = Live /\ Count' = Count
  BY DEF Live, Count
<1>2. Shape' /\ Turns'
  BY UserAssumption DEF Inv, Shape, Turns, Return, Goto, IdlePC, UserPC,
     UserAssumption
<1>3. InPlace' /\ Having'
  BY <1>1 DEF Inv, Shape, InPlace, Having, Return, Goto, IdlePC, HavingPC,
     SettingPC
<1> QED
  BY <1>2, <1>3 DEF Inv

LEMMA UserKeeps ==
  ASSUME Inv, NEW u \in Users, Call(u) \/ Within(u)
  PROVE  Inv'
<1> USE DEF Inv
<1>0. pc \in [Users -> UserPC]
  BY DEF Shape
<1>1. CASE Call(u)
  <2>1. Live' = Live /\ Count' = Count
    BY <1>1 DEF Call, Live, Count, arrayVars
  <2>2. Shape' /\ Turns'
    BY <1>1, UserAssumption DEF Call, Shape, Turns, Goto, arrayVars, roundVars,
       IdlePC, UserPC, UserAssumption
  <2>3. InPlace' /\ Having'
    BY <1>1, <2>1 DEF Call, Shape, InPlace, Having, Goto, arrayVars, IdlePC,
       HavingPC, SettingPC
  <2> QED
    BY <2>2, <2>3
<1>2. CASE SetTimer(u)
  <2>1. u \notin Live /\ pc[u] = "set"
    BY <1>2 DEF SetTimer, Having, HavingPC, SettingPC
  <2>2. /\ timers' \in Seq(Users) /\ index' \in [Users -> Nat] /\ InPlace'
        /\ Live' = Live \cup {u}
    BY <1>2, <2>1, AppendPlaces DEF SetTimer
  <2>3. pc' = [pc EXCEPT ![u] = "start"] /\ UNCHANGED <<turn, next>>
    BY <1>2 DEF SetTimer, Goto, roundVars
  <2>4. Shape' /\ Turns'
    BY <1>0, <2>1, <2>2, <2>3 DEF Shape, Turns, IdlePC, UserPC
  <2>5. Having'
    BY <1>0, <2>1, <2>2, <2>3 DEF Having, HavingPC, SettingPC
  <2> QED
    BY <2>2, <2>4, <2>5
<1>3. CASE KillTimer(u)
  <2>1. u \in Live /\ pc[u] = "kill"
    BY <1>3 DEF KillTimer, Having, HavingPC
  <2>2. /\ timers' \in Seq(Users) /\ index' \in [Users -> Nat] /\ InPlace'
        /\ Live' = Live \ {u}
    BY <1>3, <2>1, FilledPlaces DEF KillTimer
  <2>3. pc' = [pc EXCEPT ![u] = "last"] /\ UNCHANGED <<turn, next>>
    BY <1>3 DEF KillTimer, Goto, roundVars
  <2>4. Shape' /\ Turns'
    BY <1>0, <2>1, <2>2, <2>3 DEF Shape, Turns, IdlePC, UserPC
  <2>5. Having'
    BY <1>0, <2>1, <2>2, <2>3 DEF Having, HavingPC, SettingPC
  <2> QED
    BY <2>2, <2>4, <2>5
<1>4. CASE SetFails(u)
  BY <1>4, WithinCall DEF SetFails, arrayVars, roundVars, IdlePC, UserPC,
     HavingPC, SettingPC
<1>5. CASE LookAtCount(u)
  <2>1. pc[u] = "start" /\ UNCHANGED <<timers, index, next>>
    BY <1>5 DEF LookAtCount, arrayVars, roundVars
  <2>2. CASE Goto(u, "gate") /\ UNCHANGED turn
    BY <2>1, <2>2, WithinCall DEF IdlePC, UserPC, HavingPC, SettingPC
  <2>3. CASE Return(u)
    BY <2>1, <2>3, AtReturn DEF IdlePC
  <2> QED
    BY <1>5, <2>2, <2>3 DEF LookAtCount
<1>6. CASE Start(u)
  BY <1>6, AtReturn DEF Start, arrayVars, roundVars, IdlePC
<1>7. CASE Terminate(u)
  <2>1. /\ pc[u] = "last" /\ u \notin Live
        /\ UNCHANGED <<timers, index, next>>
    BY <1>7 DEF Terminate, arrayVars, roundVars, Having, HavingPC, SettingPC
  <2>2. CASE Goto(u, "wake") /\ UNCHANGED turn
    BY <2>1, <2>2, WithinCall DEF IdlePC, UserPC, HavingPC
  <2>3. CASE Return(u)
    BY <2>1, <2>3, AtReturn DEF IdlePC
  <2> QED
    BY <1>7, <2>2, <2>3 DEF Terminate
<1>8. CASE Wake(u) \/ WaitForExit(u) \/ WaitDone(u) \/ WaitFinished(u)
  <2>1. PICK p \in {"exit", "done", "finished", "unlock"} : Goto(u, p)
    BY <1>8 DEF Wake, WaitForExit, WaitDone, WaitFinished
  <2>2. /\ pc[u] \in {"wake", "exit", "done", "finished"}
        /\ UNCHANGED <<timers, index, turn, next>>
    BY <1>8 DEF Wake, WaitForExit, WaitDone, WaitFinished, arrayVars, roundVars
  <2>3. u \notin Live
    BY <2>2 DEF Having, HavingPC, SettingPC
  <2> QED
    BY <2>1, <2>2, <2>3, WithinCall DEF IdlePC, UserPC, HavingPC
<1>9. CASE Unlock(u)
  BY <1>9, AtReturn DEF Unlock, arrayVars, roundVars, IdlePC
<1> QED
  BY <1>1, <1>2, <1>3, <1>4, <1>5, <1>6, <1>7, <1>8, <1>9 DEF Within

(* The thread goes round the array and changes nothing of it.              *)
LEMMA RunKeeps ==
  ASSUME Inv, Run \/ UNCHANGED vars
  PROVE  Inv'
<1>1. /\ UNCHANGED <<timers, index, pc, turn>>
      /\ next' \in {next, 1, next + 1}
  BY DEF Run, vars, arrayVars, roundVars, Enter, Stop, Round, Charge, EndRound,
     Sleep, Unsignal, Take, Left, Leave
<1>2. Live' = Live /\ Count' = Count
  BY <1>1 DEF Live, Count
<1> QED
  BY <1>1, <1>2 DEF Inv, Shape, Turns, InPlace, Having

LEMMA InvKept == Inv /\ [Next]_vars => Inv'
BY UserKeeps, RunKeeps DEF Next

LEMMA InvCorrect == Spec => []Inv
BY Initially, InvKept, PTL DEF Spec

(* The types of what Shape leaves out.                                     *)
Flags ==
  /\ guarded \in BOOLEAN /\ wake \in BOOLEAN /\ asked \in BOOLEAN
  /\ gate \in BOOLEAN /\ done \in BOOLEAN
  /\ mayFinish \in BOOLEAN /\ finished \in BOOLEAN
  /\ tpc \in ThreadPC
  /\ status \in {"new", "running", "finished"}

Times ==
  /\ DOMAIN sofar = Users
  /\ \A u \in Users : sofar[u] \in 0..Period[u] - 1
  /\ elapsed \in 0..Word - 1
  /\ slept \in 0..Word - 1
  /\ soonest \in 0..Word - 1

LEMMA FlagsKept ==
  ASSUME Flags, [Next]_vars
  PROVE  Flags'
<1>1. ASSUME NEW u \in Users, Call(u) \/ Within(u) PROVE Flags'
  <2>1. CASE Call(u) \/ SetFails(u) \/ KillTimer(u) \/ WaitForExit(u) \/ Unlock(u)
    BY <2>1 DEF Flags, threadVars, Call, SetFails, KillTimer, WaitForExit,
       Unlock
  <2>2. CASE SetTimer(u) \/ Wake(u)
    BY <2>2 DEF Flags, threadVars, Signal, SetTimer, Wake
  <2>3. CASE LookAtCount(u)
    BY <2>3 DEF Flags, LookAtCount
  <2>4. CASE Terminate(u)
    BY <2>4 DEF Flags, Terminate
  <2>5. CASE Start(u)
    BY <2>5 DEF Flags, ThreadPC, Start
  <2>6. CASE WaitDone(u) \/ WaitFinished(u)
    BY <2>6 DEF Flags, WaitDone, WaitFinished
  <2> QED
    BY <1>1, <2>1, <2>2, <2>3, <2>4, <2>5, <2>6 DEF Within
<1>2. CASE Run
  BY <1>2 DEF Run, Flags, ThreadPC, threadVars, TakeDown, Enter, Stop, Round,
     Charge, EndRound, Sleep, Unsignal, Take, Left, Leave
<1>3. CASE UNCHANGED vars
  BY <1>3 DEF vars, threadVars, Flags
<1> QED
  BY <1>1, <1>2, <1>3 DEF Next

(* What is charged stays below the period, and every sleep and every sum   *)
(* below the width of a word.                                              *)
LEMMA TimesKept ==
  ASSUME Inv, Times, [Next]_vars
  PROVE  Times'
<1>1. /\ Word \in Nat \ {0}
      /\ \A u \in Users : Period[u] \in 1..Word - 1
  BY UserAssumption DEF UserAssumption
<1>2. ASSUME NEW u \in Users, Call(u) \/ Within(u) PROVE Times'
  <2>1. UNCHANGED <<elapsed, slept, soonest>>
    BY <1>2 DEF Within, arrayVars, roundVars, Call, SetTimer, SetFails,
       LookAtCount, Start, KillTimer, Terminate, Wake, WaitForExit, WaitDone,
       WaitFinished, Unlock
  <2>2. \/ sofar' = sofar
        \/ sofar' = [sofar EXCEPT ![u] = elapsed % Period[u]]
    BY <1>2 DEF Within, arrayVars, StartsAt, Call, SetTimer, SetFails,
       LookAtCount, Start, KillTimer, Terminate, Wake, WaitForExit, WaitDone,
       WaitFinished, Unlock
  <2>3. elapsed % Period[u] \in 0..Period[u] - 1
    BY <1>1 DEF Times
  <2> QED
    BY <2>1, <2>2, <2>3 DEF Times
<1>3. CASE Charge
  <2> DEFINE u == timers[next]
  <2>1. u \in Users
    BY <1>3 DEF Charge, Inv, Shape, Count
  <2>2. Charged(u) \in Nat
    BY <1>1, <2>1 DEF Times, Charged
  <2>3. Remainder(u) \in 0..Period[u] - 1
    BY <1>1, <2>1, <2>2 DEF Remainder
  <2>4. sofar' = [sofar EXCEPT ![u] = Remainder(u)] /\ UNCHANGED <<elapsed, slept>>
    BY <1>3 DEF Charge
  <2>5. soonest' \in {soonest, Period[u] - Remainder(u)}
    BY <1>3 DEF Charge
  <2>6. Period[u] - Remainder(u) \in 0..Word - 1
    BY <1>1, <2>1, <2>3
  <2> HIDE DEF u
  <2> QED
    BY <2>1, <2>3, <2>4, <2>5, <2>6 DEF Times
<1>4. CASE Round
  BY <1>1, <1>4 DEF Round, Times, arrayVars
<1>5. CASE Enter
  BY <1>1, <1>5 DEF Enter, Times, arrayVars
<1>6. CASE Take
  BY <1>1, <1>6 DEF Take, Times
<1>7. CASE Stop \/ EndRound \/ Sleep \/ Unsignal \/ Left \/ Leave \/ UNCHANGED vars
  BY <1>7 DEF Stop, EndRound, Sleep, Unsignal, Left, Leave, vars, arrayVars,
     roundVars, Times
<1> QED
  BY <1>2, <1>3, <1>4, <1>5, <1>6, <1>7 DEF Next, Run

LEMMA SaidKept ==
  ASSUME Inv, said \subseteq Users, [Next]_vars
  PROVE  said' \subseteq Users
<1>1. CASE Charge
  <2>1. timers[next] \in Users
    BY <1>1 DEF Charge, Inv, Shape, Count
  <2> QED
    BY <1>1, <2>1 DEF Charge
<1>2. CASE ~Charge
  BY <1>2 DEF Next, Run, vars, roundVars, Within, Call, SetTimer, SetFails,
     LookAtCount, Start, KillTimer, Terminate, Wake, WaitForExit, WaitDone,
     WaitFinished, Unlock, Enter, Stop, Round, EndRound, Sleep, Unsignal, Take,
     Left, Leave
<1> QED
  BY <1>1, <1>2

(* Every reachable state of the timers is of the declared shape: among     *)
(* other things what is charged against a timer is below its period, and   *)
(* no sum leaves the word (tt_timerIsDue, tt_run).                         *)
THEOREM TimersTypeCorrect == Spec => []TypeOK
<1>1. Init => Flags /\ Times /\ said \subseteq Users
  <2> SUFFICES ASSUME Init PROVE Flags /\ Times /\ said \subseteq Users
    OBVIOUS
  <2>1. Flags
    BY DEF Init, Flags, ThreadPC
  <2>2. Times
    BY UserAssumption DEF Init, Times, UserAssumption
  <2> QED
    BY <2>1, <2>2 DEF Init
<1>2. Inv /\ Flags /\ Times /\ said \subseteq Users => TypeOK
  BY DEF Inv, Shape, Flags, Times, TypeOK
<1>3. Inv /\ Flags /\ Times /\ said \subseteq Users /\ [Next]_vars
        => Flags' /\ Times' /\ (said \subseteq Users)'
  BY FlagsKept, TimesKept, SaidKept
<1> QED
  BY <1>1, <1>2, <1>3, InvCorrect, PTL DEF Spec

(* Every timer is where it says it is, and one that was given is among     *)
(* them (tt_setTimer, tt_killTimer).                                       *)
THEOREM TimersStayInPlace == Spec => []TimersAreInPlace
<1>1. Inv => TimersAreInPlace
  BY DEF Inv, InPlace, Having, TimersAreInPlace, HavingPC
<1> QED
  BY <1>1, InvCorrect, PTL

(* Nothing is posted for a timer that a kill has taken out of the array    *)
(* (tt_run against tt_killTimer): whom a round posts to has a timer in it, *)
(* and such a user is not past the kill.                                   *)
THEOREM NoTickFollowsKill == Spec => NoTickAfterKill
<1>1. ASSUME Inv, [Next]_vars PROVE [said' \ said \subseteq Given]_vars
  <2>1. Live \subseteq Given
    BY <1>1 DEF Inv, Having, HavingPC, SettingPC, Given, Live, ToSet, Shape
  <2>2. CASE Charge
    <3>1. next \in 1..Count /\ timers[next] \in Live
      BY <1>1, <2>2 DEF Charge, Inv, Shape, Count, Live, ToSet
    <3>2. said' \ said \subseteq {timers[next]}
      BY <2>2 DEF Charge
    <3> QED
      BY <2>1, <3>1, <3>2
  <2>3. CASE ~Charge
    <3>1. said' \subseteq said
      BY <1>1, <2>3 DEF Next, Run, vars, roundVars, Within, Call, SetTimer,
         SetFails, LookAtCount, Start, KillTimer, Terminate, Wake, WaitForExit,
         WaitDone, WaitFinished, Unlock, Enter, Stop, Round, EndRound, Sleep,
         Unsignal, Take, Left, Leave
    <3> QED
      BY <3>1
  <2> QED
    BY <2>2, <2>3
<1> QED
  BY <1>1, InvCorrect, PTL DEF Spec, NoTickAfterKill

-----------------------------------------------------------------------------
(* The thread comes and goes with the timers, if memory does not fail      *)
(* beside a single one.                                                    *)

Alive == tpc # "none"

(* The semaphores of the thread: what each says of it while it is up.      *)
Signs ==
  /\ status = "running" <=> Alive
  /\ gate <=> ~Alive
  /\ mayFinish => Alive
  /\ mayFinish \/ finished => \E u \in Users : pc[u] = "finished"

(* What a user in a call can rely on, place by place.                      *)
Stages ==
  /\ turn = Nobody => (Alive <=> Count > 0)
  /\ \A u \in Users :
       /\ pc[u] \in {"set", "kill"} => (Alive <=> Count > 0)
       /\ pc[u] = "start" => (Alive <=> Count > 1)
       /\ pc[u] = "gate" => ~Alive /\ Count = 1
       /\ pc[u] = "last" => Alive
       /\ pc[u] \in {"wake", "exit", "done"} => Alive /\ Count = 0
       /\ pc[u] = "finished" => Count = 0 /\ (finished => ~Alive)
       /\ pc[u] = "unlock" => ~Alive /\ Count = 0

ThreadInv == Signs /\ Stages

LEMMA CountIsNat == ASSUME Shape PROVE Count \in Nat
BY DEF Shape, Count

LEMMA ThreadInitially == Init => ThreadInv
<1> SUFFICES ASSUME Init PROVE ThreadInv
  OBVIOUS
<1>1. Count = 0
  BY DEF Init, Count
<1> QED
  BY <1>1 DEF Init, ThreadInv, Signs, Stages, Alive

(* One user's step: it alone is in a call, so that it is enough to look at *)
(* where it goes.                                                          *)
LEMMA CallKeepsThread ==
  ASSUME Inv, ThreadInv, 1 \notin FailsAt, NEW u \in Users,
         Call(u) \/ Within(u)
  PROVE  ThreadInv'
<1> USE DEF ThreadInv
<1>0. /\ pc \in [Users -> UserPC] /\ Count \in Nat
      /\ \A v \in Users : pc[v] \notin IdlePC => turn = v
      /\ u # Nobody
  BY CountIsNat, UserAssumption DEF Inv, Shape, Turns, UserAssumption
<1>1. CASE Call(u)
  <2>1. /\ turn = Nobody /\ turn' = u
        /\ pc' \in {[pc EXCEPT ![u] = "set"], [pc EXCEPT ![u] = "kill"]}
        /\ UNCHANGED <<timers, tpc, status, gate, mayFinish, finished>>
        /\ pc[u] \in IdlePC
    BY <1>1 DEF Call, Goto, arrayVars, threadVars, IdlePC
  <2>2. \A v \in Users : pc[v] \in IdlePC
    BY <2>1, <1>0, UserAssumption DEF UserAssumption
  <2>3. Count' = Count
    BY <2>1 DEF Count
  <2>4. Signs'
    BY <1>0, <2>1, <2>2 DEF Signs, Alive, IdlePC
  <2>5. Stages'
    BY <1>0, <2>1, <2>2, <2>3 DEF Stages, Alive, IdlePC
  <2> QED
    BY <2>4, <2>5
<1>2. CASE Within(u)
  <2>1. pc[u] \notin IdlePC /\ turn = u
    BY <1>0, <1>2 DEF Within, SetTimer, SetFails, LookAtCount, Start, KillTimer,
       Terminate, Wake, WaitForExit, WaitDone, WaitFinished, Unlock, IdlePC
  <2>2. \A v \in Users : v # u => pc[v] \in IdlePC
    BY <2>1, <1>0
  <2>3. \A v \in Users : v # u => pc'[v] = pc[v]
    BY <1>0, <1>2 DEF Within, SetTimer, SetFails, LookAtCount, Start, KillTimer,
       Terminate, Wake, WaitForExit, WaitDone, WaitFinished, Unlock, Return,
       Goto
  <2>4. CASE SetTimer(u)
    <3>1. u \notin Live
      BY <2>4 DEF SetTimer, Inv, Having, HavingPC, SettingPC
    <3>2. Count' = Count + 1
      BY <2>4, <3>1, AppendPlaces DEF SetTimer, Inv
    <3> QED
      BY <1>0, <2>1, <2>2, <2>3, <2>4, <3>2 DEF SetTimer, Goto, Signs, Stages,
         Alive, threadVars, IdlePC
  <2>5. CASE SetFails(u)
    <3>1. Count' = Count /\ Count # 1
      BY <2>5 DEF SetFails, Count, arrayVars
    <3> QED
      BY <1>0, <2>1, <2>2, <2>3, <2>5, <3>1 DEF SetFails, Goto, Signs, Stages,
         Alive, threadVars, IdlePC
  <2>6. CASE KillTimer(u)
    <3>1. u \in Live
      BY <2>6 DEF KillTimer, Inv, Having, HavingPC
    <3>2. Count # 0
      BY <2>6, <3>1, FilledPlaces DEF KillTimer, Inv
    <3> QED
      BY <1>0, <2>1, <2>2, <2>3, <2>6, <3>2 DEF KillTimer, Goto, Signs, Stages,
         Alive, threadVars, IdlePC
  <2>7. CASE LookAtCount(u) \/ Start(u) \/ Terminate(u) \/ Unlock(u)
    <3>1. Count' = Count
      BY <2>7 DEF LookAtCount, Start, Terminate, Unlock, Count, arrayVars
    <3>2. CASE LookAtCount(u)
      BY <1>0, <2>1, <2>2, <2>3, <3>1, <3>2 DEF LookAtCount, Return, Goto,
         Signs, Stages, Alive, IdlePC
    <3>3. CASE Start(u)
      BY <1>0, <2>1, <2>2, <2>3, <3>1, <3>3 DEF Start, Return, Goto,
         Signs, Stages, Alive, IdlePC
    <3>4. CASE Terminate(u)
      BY <1>0, <2>1, <2>2, <2>3, <3>1, <3>4 DEF Terminate, LastGone, Return,
         Goto, Signs, Stages, Alive, IdlePC
    <3>5. CASE Unlock(u)
      BY <1>0, <2>1, <2>2, <2>3, <3>1, <3>5 DEF Unlock, Return, Goto,
         Signs, Stages, Alive, threadVars, IdlePC
    <3> QED
      BY <2>7, <3>2, <3>3, <3>4, <3>5
  <2>8. CASE Wake(u) \/ WaitForExit(u) \/ WaitDone(u) \/ WaitFinished(u)
    <3>1. Count' = Count
      BY <2>8 DEF Wake, WaitForExit, WaitDone, WaitFinished, Count, arrayVars
    <3>2. CASE Wake(u) \/ WaitForExit(u)
      BY <1>0, <2>1, <2>2, <2>3, <3>1, <3>2 DEF Wake, WaitForExit, Goto,
         Signs, Stages, Alive, threadVars, IdlePC
    <3>3. CASE WaitDone(u)
      BY <1>0, <2>1, <2>2, <2>3, <3>1, <3>3 DEF WaitDone, Goto, Signs, Stages,
         Alive, IdlePC
    <3>4. CASE WaitFinished(u)
      BY <1>0, <2>1, <2>2, <2>3, <3>1, <3>4 DEF WaitFinished, Goto, Signs,
         Stages, Alive, IdlePC
    <3> QED
      BY <2>8, <3>2, <3>3, <3>4
  <2> QED
    BY <1>2, <2>4, <2>5, <2>6, <2>7, <2>8 DEF Within
<1> QED
  BY <1>1, <1>2

(* The thread leaves only for a user that waits for it.                    *)
LEMMA RunKeepsThread ==
  ASSUME Inv, ThreadInv, Run \/ UNCHANGED vars
  PROVE  ThreadInv'
<1>1. UNCHANGED <<timers, pc, turn>>
  BY DEF Run, vars, arrayVars, Enter, Stop, Round, Charge, EndRound, Sleep,
     Unsignal, Take, Left, Leave
<1>2. Count' = Count
  BY <1>1 DEF Count
<1>3. CASE Leave
  <2>1. PICK u \in Users : pc[u] = "finished"
    BY <1>3 DEF Leave, ThreadInv, Signs
  <2>2. \A v \in Users : v # u => pc[v] \in IdlePC
    BY <2>1 DEF Inv, Turns, IdlePC
  <2>3. turn # Nobody
    BY <2>1, UserAssumption DEF Inv, Turns, IdlePC, UserAssumption
  <2> QED
    BY <1>1, <1>2, <1>3, <2>1, <2>2, <2>3 DEF Leave, ThreadInv, Signs, Stages,
       Alive, IdlePC
<1>4. CASE ~Leave
  <2>1. /\ UNCHANGED <<status, gate, mayFinish, finished>>
        /\ Alive' <=> Alive
    BY <1>4 DEF Run, vars, threadVars, Alive, Enter, Stop, Round, Charge,
       EndRound, Sleep, Unsignal, Take, Left
  <2> QED
    BY <1>1, <1>2, <2>1 DEF ThreadInv, Signs, Stages
<1> QED
  BY <1>3, <1>4

(* When nobody is in a call there is a thread exactly if there are timers  *)
(* (tt_setTimer, tt_killTimer), unless a set that failed beside a single   *)
(* timer has started it twice.                                             *)
THEOREM ThreadLivesWithTimers ==
  ASSUME 1 \notin FailsAt
  PROVE  Spec => []ThreadWhileTimers
<1>1. Inv /\ ThreadInv /\ [Next]_vars => ThreadInv'
  BY CallKeepsThread, RunKeepsThread DEF Next
<1>2. Inv /\ ThreadInv => ThreadWhileTimers
  <2> SUFFICES ASSUME Inv, ThreadInv PROVE ThreadWhileTimers
    OBVIOUS
  <2>1. Count > 0 <=> timers # <<>>
    BY DEF Inv, Shape, Count
  <2> QED
    BY <2>1 DEF ThreadInv, Stages, Alive, ThreadWhileTimers
<1> QED
  BY <1>1, <1>2, ThreadInitially, InvCorrect, PTL DEF Spec

-----------------------------------------------------------------------------
(* The timers keep step with what has elapsed, and the sleeps are short    *)
(* enough.  First, remainders.                                             *)

LEMMA Divided ==
  ASSUME NEW n \in Nat \ {0}, NEW x \in Int
  PROVE  \E q \in Int, r \in 0..n - 1 : x % n = r /\ x = n * q + r
<1>1. /\ x \div n \in Int /\ x % n \in 0..n - 1
      /\ x = n * (x \div n) + (x % n)
  OBVIOUS
<1> QED
  BY <1>1

LEMMA SameRemainder ==
  ASSUME NEW n \in Nat \ {0}, NEW q \in Int, NEW d \in Int,
         NEW r \in 0..n - 1, NEW s \in 0..n - 1, n * q + r = n * d + s
  PROVE  r = s
<1>1. n * (q - d) = s - r
  OBVIOUS
<1>2. CASE q - d >= 1
  <2>1. n * (q - d) >= n
    BY <1>2
  <2> QED
    BY <1>1, <2>1
<1>3. CASE q - d <= -1
  <2>1. n * (q - d) <= -n
    BY <1>3
  <2> QED
    BY <1>1, <2>1
<1>4. CASE q = d
  BY <1>1, <1>4
<1> QED
  BY <1>2, <1>3, <1>4

LEMMA RemainderOfSum ==
  ASSUME NEW n \in Nat \ {0}, NEW x \in Int, NEW y \in Int
  PROVE  ((x % n) + y) % n = (x + y) % n
<1>1. PICK a \in Int, r \in 0..n - 1 : x % n = r /\ x = n * a + r
  BY Divided
<1>0. PICK v \in Int, z \in Int : v = r + y /\ z = x + y
  OBVIOUS
<1>2. PICK b \in Int, s \in 0..n - 1 : v % n = s /\ v = n * b + s
  BY Divided
<1>3. PICK c \in Int, u \in 0..n - 1 : z % n = u /\ z = n * c + u
  BY Divided
<1>4. n * (a + b) = n * a + n * b
  OBVIOUS
<1>5. n * (a + b) + s = n * c + u
  <2>1. n * a \in Int /\ n * b \in Int /\ n * c \in Int
    OBVIOUS
  <2>2. x = n * a + r /\ r + y = n * b + s /\ x + y = n * c + u
    BY <1>0, <1>1, <1>2, <1>3
  <2> QED
    BY <1>4, <2>1, <2>2
<1>6. a + b \in Int
  OBVIOUS
<1>7. s = u
  BY <1>5, <1>6, SameRemainder
<1> QED
  BY <1>0, <1>1, <1>2, <1>3, <1>7

LEMMA RemainderOfRemainder ==
  ASSUME NEW n \in Nat \ {0}, NEW w \in Nat \ {0}, w % n = 0, NEW x \in Int
  PROVE  (x % w) % n = x % n
<1>1. PICK k \in Int, z \in 0..n - 1 : w % n = z /\ w = n * k + z
  BY Divided
<1>2. PICK a \in Int, r \in 0..w - 1 : x % w = r /\ x = w * a + r
  BY Divided
<1>3. PICK b \in Int, s \in 0..n - 1 : r % n = s /\ r = n * b + s
  BY Divided
<1>4. PICK c \in Int, u \in 0..n - 1 : x % n = u /\ x = n * c + u
  BY Divided
<1>5. w * a = n * (k * a)
  BY <1>1
<1>6. k * a \in Int /\ k * a + b \in Int
  OBVIOUS
<1>7. n * (k * a + b) = n * (k * a) + n * b
  BY <1>6
<1>8. n * (k * a + b) + s = n * c + u
  <2>1. n * (k * a) \in Int /\ n * b \in Int /\ n * c \in Int
    BY <1>6
  <2>2. x = n * (k * a) + r /\ r = n * b + s /\ x = n * c + u
    BY <1>2, <1>3, <1>4, <1>5
  <2> QED
    BY <1>7, <2>1, <2>2
<1>9. s = u
  BY <1>6, <1>8, SameRemainder
<1> QED
  BY <1>2, <1>3, <1>4, <1>9

LEMMA SmallRemainder ==
  ASSUME NEW n \in Nat \ {0}, NEW x \in 0..n - 1
  PROVE  x % n = x
OBVIOUS

(* The thread is only asked to end when there are no timers, and by        *)
(* somebody who stays until it has: whatever memory does, it never stops   *)
(* in the middle of a round that has timers in it.                         *)
Asking == {"wake", "exit", "done", "finished"}
Ending ==
  /\ guarded <=> tpc \in {"top", "charge"}
  /\ Signs
  /\ finished => ~Alive
  /\ asked /\ Alive => Count = 0 /\ \E u \in Users : pc[u] \in Asking
  /\ \A u \in Users : /\ pc[u] = "done" => Alive
                      /\ pc[u] = "gate" => ~asked

LEMMA EndingInitially == Init => Ending
  BY DEF Init, Ending, Signs, Alive, Asking

LEMMA CallKeepsEnding ==
  ASSUME Inv, Ending, NEW u \in Users, Call(u) \/ Within(u)
  PROVE  Ending'
<1> USE DEF Ending
<1>0. /\ pc \in [Users -> UserPC] /\ u # Nobody
      /\ \A v \in Users : pc[v] \notin IdlePC => turn = v
  BY UserAssumption DEF Inv, Shape, Turns, UserAssumption
<1>1. CASE Call(u)
  <2>1. /\ turn = Nobody
        /\ pc' \in {[pc EXCEPT ![u] = "set"], [pc EXCEPT ![u] = "kill"]}
        /\ UNCHANGED <<timers, tpc, guarded, status, asked, gate, mayFinish, finished>>
    BY <1>1 DEF Call, Goto, arrayVars, threadVars
  <2>2. \A v \in Users : pc[v] \in IdlePC
    BY <2>1, <1>0, UserAssumption DEF UserAssumption
  <2>3. Count' = Count
    BY <2>1 DEF Count
  <2> QED
    BY <1>0, <2>1, <2>2, <2>3 DEF Signs, Alive, IdlePC, Asking
<1>2. CASE Within(u)
  <2>1. pc[u] \notin IdlePC
    BY <1>2 DEF Within, SetTimer, SetFails, LookAtCount, Start, KillTimer,
       Terminate, Wake, WaitForExit, WaitDone, WaitFinished, Unlock, IdlePC
  <2>2. \A v \in Users : v # u => pc[v] \in IdlePC
    BY <2>1, <1>0
  <2>3. \A v \in Users : v # u => pc'[v] = pc[v]
    BY <1>0, <1>2 DEF Within, SetTimer, SetFails, LookAtCount, Start, KillTimer,
       Terminate, Wake, WaitForExit, WaitDone, WaitFinished, Unlock, Return,
       Goto
  <2>4. CASE SetTimer(u) \/ KillTimer(u)
    <3>1. /\ pc[u] \in {"set", "kill"} /\ pc'[u] \in {"start", "last"}
          /\ UNCHANGED <<tpc, guarded, status, asked, gate, mayFinish, finished>>
      BY <1>0, <2>4 DEF SetTimer, KillTimer, Goto, threadVars
    <3>2. ~(asked /\ Alive)
      BY <2>2, <3>1 DEF Asking, IdlePC
    <3> QED
      BY <2>2, <2>3, <3>1, <3>2 DEF Signs, Alive, IdlePC
  <2>5. CASE SetFails(u) \/ Wake(u)
    <3>1. /\ \/ pc[u] = "set" /\ pc'[u] = "start"
             \/ pc[u] = "wake" /\ pc'[u] = "exit"
          /\ Count' = Count
          /\ UNCHANGED <<tpc, guarded, status, asked, gate, mayFinish, finished>>
      BY <1>0, <2>5 DEF SetFails, Wake, Goto, threadVars, arrayVars, Count
    <3> QED
      BY <2>2, <2>3, <3>1 DEF Signs, Alive, IdlePC, Asking
  <2>6. CASE LookAtCount(u)
    <3>1. /\ pc[u] = "start" /\ Count' = Count
          /\ \/ pc'[u] = "gate" /\ ~asked'
             \/ pc'[u] \in IdlePC /\ asked' = asked
          /\ UNCHANGED <<tpc, guarded, status, gate, mayFinish, finished>>
      BY <1>0, <2>6 DEF LookAtCount, Return, Goto, arrayVars, Count, IdlePC
    <3> QED
      BY <2>2, <2>3, <3>1 DEF Signs, Alive, IdlePC, Asking
  <2>7. CASE Start(u)
    <3>1. /\ pc[u] = "gate" /\ gate /\ ~gate' /\ status' = "running" /\ tpc' = "enter"
          /\ pc'[u] \in IdlePC /\ Count' = Count
          /\ UNCHANGED <<guarded, asked, mayFinish, finished>>
      BY <1>0, <2>7 DEF Start, Return, Goto, arrayVars, Count, IdlePC
    <3> QED
      BY <2>2, <2>3, <3>1 DEF Signs, Alive, IdlePC, Asking
  <2>8. CASE Terminate(u)
    <3>1. /\ pc[u] = "last" /\ Count' = Count
          /\ \/ pc'[u] = "wake" /\ Count = 0
             \/ pc'[u] \in IdlePC /\ asked' = asked
          /\ UNCHANGED <<tpc, guarded, status, gate, mayFinish, finished>>
      BY <1>0, <2>8 DEF Terminate, LastGone, Return, Goto, arrayVars, Count, IdlePC
    <3> QED
      BY <2>2, <2>3, <3>1 DEF Signs, Alive, IdlePC, Asking
  <2>9. CASE WaitForExit(u)
    <3>1. /\ pc[u] = "exit" /\ Count' = Count
          /\ pc'[u] = IF status = "running" THEN "done" ELSE "unlock"
          /\ UNCHANGED <<tpc, guarded, status, asked, gate, mayFinish, finished>>
      BY <1>0, <2>9 DEF WaitForExit, Goto, threadVars, arrayVars, Count
    <3> QED
      BY <2>2, <2>3, <3>1 DEF Signs, Alive, IdlePC, Asking
  <2>10. CASE WaitDone(u)
    <3>1. /\ pc[u] = "done" /\ pc'[u] = "finished" /\ Count' = Count /\ mayFinish'
          /\ UNCHANGED <<tpc, guarded, status, asked, gate, finished>>
      BY <1>0, <2>10 DEF WaitDone, Goto, arrayVars, Count
    <3> QED
      BY <2>2, <2>3, <3>1 DEF Signs, Alive, IdlePC, Asking
  <2>11. CASE WaitFinished(u)
    <3>1. /\ pc[u] = "finished" /\ pc'[u] = "unlock" /\ Count' = Count
          /\ finished /\ ~finished'
          /\ UNCHANGED <<tpc, guarded, status, asked, gate, mayFinish>>
      BY <1>0, <2>11 DEF WaitFinished, Goto, arrayVars, Count
    <3> QED
      BY <2>2, <2>3, <3>1 DEF Signs, Alive, IdlePC, Asking
  <2>12. CASE Unlock(u)
    <3>1. /\ pc[u] = "unlock" /\ pc'[u] \in IdlePC /\ Count' = Count
          /\ UNCHANGED <<tpc, guarded, status, asked, gate, mayFinish, finished>>
      BY <1>0, <2>12 DEF Unlock, Return, Goto, threadVars, arrayVars, Count, IdlePC
    <3> QED
      BY <2>2, <2>3, <3>1 DEF Signs, Alive, IdlePC, Asking
  <2> QED
    BY <1>2, <2>4, <2>5, <2>6, <2>7, <2>8, <2>9, <2>10, <2>11, <2>12 DEF Within
<1> QED
  BY <1>1, <1>2

LEMMA RunKeepsEnding ==
  ASSUME Inv, Ending, Run \/ UNCHANGED vars
  PROVE  Ending'
<1> USE DEF Ending
<1>1. UNCHANGED <<timers, pc, asked>>
  BY DEF Run, vars, arrayVars, threadVars, Enter, Stop, Round, Charge, EndRound,
     Sleep, Unsignal, Take, Left, Leave
<1>2. Count' = Count
  BY <1>1 DEF Count
<1>3. CASE Leave
  <2>1. PICK u \in Users : pc[u] = "finished"
    BY <1>3 DEF Leave, Signs
  <2>2. \A v \in Users : v # u => pc[v] \in IdlePC
    BY <2>1 DEF Inv, Turns, IdlePC
  <2> QED
    BY <1>1, <1>2, <1>3, <2>1, <2>2 DEF Leave, Signs, Alive, IdlePC
<1>4. CASE ~Leave
  <2>1. /\ UNCHANGED <<status, gate, mayFinish, finished>>
        /\ Alive' <=> Alive
    BY <1>4 DEF Run, vars, threadVars, Alive, Enter, Stop, Round, Charge,
       EndRound, Sleep, Unsignal, Take, Left
  <2>2. guarded' <=> tpc' \in {"top", "charge"}
    BY <1>4 DEF Run, vars, Enter, Stop, Round, Charge, EndRound, Sleep,
       Unsignal, Take, Left
  <2> QED
    BY <1>1, <1>2, <2>1, <2>2 DEF Signs
<1> QED
  BY <1>3, <1>4

(* What is charged against a timer, and what will be by the end of the     *)
(* round: the timers before `next` have been charged in this one.          *)
Divides(u) == Word % Period[u] = 0
InStep(u) == sofar[u] = elapsed % Period[u]
Uncharged(u) == (sofar[u] + slept) % Period[u] = elapsed % Period[u]

StepInv ==
  /\ ~guarded => \A u \in Live : Divides(u) => InStep(u)
  /\ tpc = "top" => \A u \in Live : Divides(u) => Uncharged(u)
  /\ tpc = "charge" => \A u \in Live : Divides(u) =>
       IF index[u] < next THEN InStep(u) ELSE Uncharged(u)

(* The sleep is no longer than any timer charged so far has to go; one     *)
(* that is set later has brought the event up.                             *)
SleepInv ==
  /\ tpc = "charge" => \A u \in Live : index[u] < next => soonest <= NextDue(u)
  /\ tpc = "sleep" /\ ~wake => \A u \in Live : soonest <= NextDue(u)

LEMMA StepInitially == Init => StepInv /\ SleepInv
<1> SUFFICES ASSUME Init PROVE StepInv /\ SleepInv
  OBVIOUS
<1>1. Live = {}
  BY DEF Init, Live, ToSet
<1> QED
  BY <1>1 DEF StepInv, SleepInv

LEMMA CallKeepsStep ==
  ASSUME Inv, Ending, StepInv, SleepInv, Times, NEW u \in Users,
         Call(u) \/ Within(u)
  PROVE  StepInv' /\ SleepInv'
<1>0. DOMAIN sofar = Users
  BY DEF Times
<1>1. CASE SetTimer(u)
  <2>1. u \notin Live /\ ~guarded /\ tpc \notin {"top", "charge"}
    BY <1>1 DEF SetTimer, Inv, Having, HavingPC, SettingPC, Ending
  <2>2. Live' = Live \cup {u}
    BY <1>1, <2>1, AppendPlaces DEF SetTimer, Inv
  <2>3. /\ sofar' = [sofar EXCEPT ![u] = elapsed % Period[u]]
        /\ wake' /\ UNCHANGED <<elapsed, tpc, guarded>>
    BY <1>1 DEF SetTimer, StartsAt, Signal
  <2>4. \A v \in Live' : Divides(v) => sofar'[v] = elapsed % Period[v]
    BY <1>0, <2>1, <2>2, <2>3 DEF StepInv, InStep
  <2> QED
    BY <2>1, <2>3, <2>4 DEF StepInv, SleepInv, InStep, Divides
<1>2. CASE KillTimer(u)
  <2>1. u \in Live /\ ~guarded /\ tpc \notin {"top", "charge"}
    BY <1>2 DEF KillTimer, Inv, Having, HavingPC, Ending
  <2>2. Live' = Live \ {u}
    BY <1>2, <2>1, FilledPlaces DEF KillTimer, Inv
  <2>3. UNCHANGED <<sofar, elapsed, tpc, guarded, wake, soonest>>
    BY <1>2 DEF KillTimer, roundVars
  <2> QED
    BY <2>1, <2>2, <2>3 DEF StepInv, SleepInv, InStep, Divides, NextDue
<1>3. CASE Start(u)
  <2>1. /\ tpc = "none" /\ tpc' = "enter"
        /\ UNCHANGED <<timers, index, sofar, elapsed, guarded>>
    BY <1>3 DEF Start, Ending, Signs, Alive, arrayVars
  <2>2. Live' = Live
    BY <2>1 DEF Live
  <2> QED
    BY <2>1, <2>2 DEF StepInv, SleepInv, InStep, Divides
<1>4. CASE ~(SetTimer(u) \/ KillTimer(u) \/ Start(u))
  <2>1. /\ UNCHANGED <<timers, index, sofar, elapsed, guarded, tpc, slept, soonest, next>>
        /\ wake' = wake \/ wake'
    BY <1>4 DEF Call, Within, SetFails, LookAtCount, Terminate, Wake, WaitForExit,
       WaitDone, WaitFinished, Unlock, arrayVars, roundVars, Signal
  <2>2. Live' = Live
    BY <2>1 DEF Live
  <2> QED
    BY <2>1, <2>2 DEF StepInv, SleepInv, InStep, Uncharged, Divides, NextDue
<1> QED
  BY <1>1, <1>2, <1>3, <1>4

(* Where a timer is: the index it has is its place, and no other's.        *)
LEMMA PlaceOf ==
  ASSUME Inv, NEW u \in Live
  PROVE  u \in Users /\ index[u] \in 1..Count /\ timers[index[u]] = u
BY DEF Inv, Shape, InPlace, Live, ToSet, Count

LEMMA RunKeepsStep ==
  ASSUME Inv, Ending, StepInv, SleepInv, Times, Run \/ UNCHANGED vars
  PROVE  StepInv' /\ SleepInv'
<1>0. /\ Word \in Nat \ {0}
      /\ \A u \in Users : /\ Period[u] \in Nat \ {0} /\ sofar[u] \in 0..Period[u] - 1
                          /\ sofar[u] \in Int
      /\ elapsed \in Nat /\ slept \in Nat /\ soonest \in Nat /\ next \in Nat \ {0}
      /\ DOMAIN sofar = Users /\ Count \in Nat
  BY UserAssumption, CountIsNat DEF UserAssumption, Times, Inv, Shape
<1>1. timers' = timers /\ index' = index /\ Live' = Live /\ Live \subseteq Users
  <2>1. timers' = timers /\ index' = index
    BY DEF Run, vars, arrayVars, Enter, Stop, Round, Charge, EndRound,
       Sleep, Unsignal, Take, Left, Leave
  <2> QED
    BY <2>1, PlaceOf DEF Live
<1>2. CASE Enter
  <2>1. /\ ~guarded /\ slept' = 0 /\ tpc' = "top" /\ guarded'
        /\ UNCHANGED <<sofar, elapsed>>
    BY <1>2 DEF Enter, arrayVars
  <2>2. ASSUME NEW u \in Live, Divides(u) PROVE (sofar[u] + 0) % Period[u] = elapsed % Period[u]
    <3>1. sofar[u] = elapsed % Period[u]
      BY <2>1, <2>2 DEF StepInv, InStep
    <3>2. sofar[u] % Period[u] = sofar[u] /\ sofar[u] + 0 = sofar[u]
      BY <1>0, <1>1, SmallRemainder
    <3> QED
      BY <3>1, <3>2
  <2> QED
    BY <1>1, <2>1, <2>2 DEF StepInv, SleepInv, Uncharged, Divides
<1>3. CASE Stop
  <2>1. Count = 0 /\ tpc' = "left"
    BY <1>3 DEF Stop, Ending, Alive
  <2>2. Live = {}
    BY <2>1, PlaceOf
  <2> QED
    BY <1>1, <2>1, <2>2 DEF StepInv, SleepInv
<1>4. CASE Round
  <2>1. /\ tpc = "top" /\ tpc' = "charge" /\ next' = 1 /\ guarded /\ guarded'
        /\ UNCHANGED <<sofar, elapsed, slept>>
    BY <1>4 DEF Round, arrayVars, Ending
  <2>2. \A u \in Live : ~(index[u] < 1)
    BY PlaceOf
  <2> QED
    BY <1>1, <2>1, <2>2 DEF StepInv, SleepInv, Uncharged, Divides
<1>5. CASE Charge
  <2>0. PICK v : v = timers[next]
    OBVIOUS
  <2>1. /\ tpc = "charge" /\ next <= Count
        /\ sofar' = [sofar EXCEPT ![v] = Remainder(v)] /\ next' = next + 1
        /\ soonest' = LET left == Period[v] - Remainder(v)
                      IN  IF soonest >= left THEN left ELSE soonest
        /\ UNCHANGED <<elapsed, slept, tpc, guarded>>
    BY <1>5, <2>0 DEF Charge
  <2>2. next \in 1..Count
    BY <1>0, <2>1
  <2>3. v \in Live /\ v \in Users /\ index[v] = next
    BY <2>0, <2>2 DEF Inv, Shape, InPlace, Live, ToSet, Count
  <2>4. \A u \in Live : u # v => u \in Users /\ index[u] \in Nat /\ index[u] # next
    BY <2>0, PlaceOf, <1>0
  <2>5. \A u \in Users : sofar'[u] = IF u = v THEN Remainder(v) ELSE sofar[u]
    BY <1>0, <2>1, <2>3
  <2>6. guarded
    BY <2>1 DEF Ending
  <2>7. Charged(v) \in Nat /\ Remainder(v) \in 0..Period[v] - 1
    <3>1. sofar[v] + slept \in Nat
      BY <1>0, <2>3
    <3>2. (sofar[v] + slept) % Word \in Nat
      BY <1>0, <3>1
    <3> QED
      BY <1>0, <2>3, <3>2 DEF Charged, Remainder
  <2>8. Divides(v) => Remainder(v) = elapsed % Period[v]
    <3>1. sofar[v] + slept \in Int
      BY <1>0, <2>3
    <3>2. Divides(v) => Remainder(v) = (sofar[v] + slept) % Period[v]
      BY <1>0, <2>3, <3>1, RemainderOfRemainder DEF Divides, Remainder, Charged
    <3>3. Divides(v) => Uncharged(v)
      BY <1>0, <2>1, <2>3 DEF StepInv
    <3> QED
      BY <3>2, <3>3 DEF Uncharged
  <2>9. StepInv'
    <3>1. ASSUME NEW u \in Live, Divides(u)
          PROVE  IF index[u] < next + 1 THEN sofar'[u] = elapsed % Period[u]
                 ELSE (sofar'[u] + slept) % Period[u] = elapsed % Period[u]
      <4>1. CASE u = v
        BY <1>0, <2>3, <2>5, <2>8, <3>1, <4>1
      <4>2. CASE u # v
        <5>1. index[u] < next + 1 <=> index[u] < next
          BY <1>0, <2>4, <4>2
        <5>2. IF index[u] < next THEN InStep(u) ELSE Uncharged(u)
          BY <2>1, <3>1 DEF StepInv
        <5>3. sofar'[u] = sofar[u]
          BY <2>4, <2>5, <4>2
        <5> QED
          BY <5>1, <5>2, <5>3 DEF InStep, Uncharged
      <4> QED
        BY <4>1, <4>2
    <3> QED
      BY <1>1, <2>1, <2>6, <3>1 DEF StepInv, InStep, Uncharged, Divides
  <2>10. SleepInv'
    <3>1. ASSUME NEW u \in Live, index[u] < next + 1
          PROVE  soonest' <= Period[u] - sofar'[u]
      <4>1. Period[v] - Remainder(v) \in Int /\ soonest \in Int
        BY <1>0, <2>3, <2>7
      <4>2. soonest' <= soonest /\ soonest' <= Period[v] - Remainder(v) /\ soonest' \in Int
        BY <2>1, <4>1
      <4>3. CASE u = v
        BY <2>3, <2>5, <4>2, <4>3
      <4>4. CASE u # v
        <5>1. index[u] < next
          BY <1>0, <2>4, <3>1, <4>4
        <5>2. soonest <= Period[u] - sofar[u] /\ sofar'[u] = sofar[u]
          BY <2>1, <2>4, <2>5, <4>4, <5>1 DEF SleepInv, NextDue
        <5>3. Period[u] - sofar[u] \in Int
          BY <1>0, <2>4, <4>4
        <5> QED
          BY <4>1, <4>2, <5>2, <5>3
      <4> QED
        BY <4>3, <4>4
    <3> QED
      BY <1>1, <2>1, <3>1 DEF SleepInv, NextDue
  <2> QED
    BY <2>9, <2>10
<1>6. CASE EndRound
  <2>1. /\ tpc = "charge" /\ tpc' = "sleep" /\ next > Count
        /\ UNCHANGED <<sofar, elapsed, soonest>>
    BY <1>6 DEF EndRound, arrayVars
  <2>2. \A u \in Live : index[u] < next
    BY <1>0, <2>1, PlaceOf
  <2> QED
    BY <1>1, <2>1, <2>2 DEF StepInv, SleepInv, InStep, Divides, NextDue
<1>7. CASE Take
  <2>1. /\ ~guarded /\ guarded' /\ elapsed' = (elapsed + soonest) % Word
        /\ slept' = soonest /\ tpc' = "top" /\ sofar' = sofar
    BY <1>7 DEF Take
  <2>2. ASSUME NEW u \in Live, Divides(u)
        PROVE  (sofar[u] + soonest) % Period[u] = ((elapsed + soonest) % Word) % Period[u]
    <3>1. u \in Users /\ elapsed + soonest \in Int /\ elapsed \in Int /\ soonest \in Int
      BY <1>0, <1>1
    <3>2. sofar[u] = elapsed % Period[u]
      BY <2>1, <2>2 DEF StepInv, InStep
    <3>3. ((elapsed % Period[u]) + soonest) % Period[u] = (elapsed + soonest) % Period[u]
      BY <1>0, <3>1, RemainderOfSum
    <3>4. ((elapsed + soonest) % Word) % Period[u] = (elapsed + soonest) % Period[u]
      BY <1>0, <2>2, <3>1, RemainderOfRemainder DEF Divides
    <3> QED
      BY <3>2, <3>3, <3>4
  <2> QED
    BY <1>1, <2>1, <2>2 DEF StepInv, SleepInv, Uncharged, Divides
<1>8. CASE Sleep \/ Unsignal \/ Left \/ Leave \/ UNCHANGED vars
  <2>1. /\ UNCHANGED <<sofar, elapsed, guarded, slept, soonest, next>>
        /\ \/ tpc' = tpc /\ wake' = wake
           \/ tpc' \notin {"top", "charge", "sleep"}
    BY <1>8 DEF Sleep, Unsignal, Left, Leave, vars, arrayVars, roundVars
  <2> QED
    BY <1>1, <2>1 DEF StepInv, SleepInv, InStep, Uncharged, Divides, NextDue
<1> QED
  BY <1>2, <1>3, <1>4, <1>5, <1>6, <1>7, <1>8 DEF Run

LEMMA StepsCorrect == Spec => [](Ending /\ StepInv /\ SleepInv)
<1>1. Init => Times
  BY UserAssumption DEF Init, Times, UserAssumption
<1>2. Inv /\ Times /\ Ending /\ StepInv /\ SleepInv /\ [Next]_vars
        => Times' /\ Ending' /\ StepInv' /\ SleepInv'
  BY TimesKept, CallKeepsEnding, RunKeepsEnding, CallKeepsStep, RunKeepsStep DEF Next
<1> QED
  BY <1>1, <1>2, EndingInitially, StepInitially, InvCorrect, PTL DEF Spec

(* Whenever the guard is free, every timer whose period divides the word   *)
(* is charged with what the thread takes for elapsed, whenever it was set, *)
(* however long the thread meant to sleep and however often `elapsed` has  *)
(* wrapped (tt_setTimer, tt_run): a thread that is told to end leaves no   *)
(* timer uncharged.                                                        *)
THEOREM TimersAreInStep == Spec => []TimersKeepStep
<1>1. StepInv => TimersKeepStep
  BY DEF StepInv, TimersKeepStep, Divides, InStep
<1> QED
  BY <1>1, StepsCorrect, PTL

(* Two timers of one period that divides the word are always at the same   *)
(* point of it and fall due in the same round, whenever each was set: the  *)
(* opposite of what the comment on tt_setTimer says the start is for.      *)
THEOREM EqualPeriodsFallDueTogether == Spec => []EqualPeriodsTogether
<1>1. TimersKeepStep => EqualPeriodsTogether
  BY DEF TimersKeepStep, EqualPeriodsTogether
<1> QED
  BY <1>1, TimersAreInStep, PTL

(* No timer is missed, one set on the thread's way into its sleep among    *)
(* them: asleep with no signal to come, the thread has handed the wait a   *)
(* time that is not too long for any (tt_run, tt_setTimer).  It says       *)
(* nothing of when the thread comes out: sy_eventWait does not use it.     *)
THEOREM NoTimerIsMissed == Spec => []SleepIsRecomputed
<1>1. SleepInv => SleepIsRecomputed
  BY DEF SleepInv, SleepIsRecomputed
<1> QED
  BY <1>1, StepsCorrect, PTL
=============================================================================
