---------------------------- MODULE DriverProofs ----------------------------
(***************************************************************************)
(* What holds of the driver for every script, every size of player and any *)
(* number of calls: a silence is always undone and no setting is lost;     *)
(* what a cancel has silenced stays silent; and the end of an utterance is *)
(* told once, behind all of its sound.                                     *)
(***************************************************************************)
EXTENDS Driver, SequenceTheorems, TLAPS

(* Whatever is put behind a queue, what was on it still is.                *)
LEMMA AppendKeeps ==
  ASSUME NEW S, NEW q \in Seq(S), NEW a \in S, NEW b
  PROVE  /\ Append(q, a) \in Seq(S)
         /\ Contains(Append(q, a), a)
         /\ Contains(q, b) => Contains(Append(q, a), b)
<1>1. /\ Append(q, a) \in Seq(S)
      /\ Len(Append(q, a)) = Len(q) + 1
      /\ \A i \in 1..Len(q) : Append(q, a)[i] = q[i]
      /\ Append(q, a)[Len(q) + 1] = a
  OBVIOUS
<1>2. Len(q) \in Nat
  OBVIOUS
<1> QED
  BY <1>1, <1>2 DEF Contains

(* What is on a queue is its head or is behind it.                         *)
LEMMA HeadOrTail ==
  ASSUME NEW S, NEW q \in Seq(S), q # <<>>, NEW b
  PROVE  /\ Head(q) \in S
         /\ Tail(q) \in Seq(S)
         /\ Contains(q, b) => b = Head(q) \/ Contains(Tail(q), b)
<1>1. /\ Head(q) \in S
      /\ Tail(q) \in Seq(S)
      /\ Head(q) = q[1]
      /\ Len(Tail(q)) = Len(q) - 1
      /\ \A i \in 1..Len(q) - 1 : Tail(q)[i] = q[i + 1]
  OBVIOUS
<1>2. ASSUME NEW i \in 1..Len(q), q[i] = b, i # 1
      PROVE  Contains(Tail(q), b)
  <2>1. Len(q) \in Nat /\ i - 1 \in 1..Len(q) - 1
    BY <1>2
  <2> QED
    BY <1>1, <1>2, <2>1 DEF Contains
<1> QED
  BY <1>1, <1>2 DEF Contains

(* The two promises, and the types they need of the fields they are about. *)
Fields ==
  /\ work \in Seq(ItemType)
  /\ keep \in [Cancellers -> Seq(ItemType)]
  /\ hand \in ItemType
  /\ pc \in [Threads -> Places]
  /\ spoken \in Nat /\ piece \in Nat /\ sets \in Nat
  /\ discarding \in BOOLEAN

Kind == Fields /\ MuteIsUndone /\ NoSettingIsLost

LEMMA Items ==
  /\ \A u, p \in Nat : Speech(u, p) \in ItemType
  /\ \A n \in Nat : Setting(n) \in ItemType
  /\ Resume \in ItemType /\ Closing \in ItemType
  /\ \A n \in Nat : Setting(n) # Resume /\ Setting(n) # Closing
  /\ Resume # Closing
BY DEF Speech, Setting, Resume, Closing, ItemType

(* Where the threads are after one of them has gone somewhere.             *)
LEMMA Goes ==
  ASSUME NEW T, NEW P, NEW f \in [T -> P], NEW t \in T, NEW p \in P
  PROVE  /\ [f EXCEPT ![t] = p] \in [T -> P]
         /\ [f EXCEPT ![t] = p][t] = p
         /\ \A u \in T : u # t => [f EXCEPT ![t] = p][u] = f[u]
OBVIOUS

(* A step that leaves the queue, what is kept off it and what is in hand   *)
(* as they are, and takes nobody away from where the promises need them.   *)
LEMMA StandsStill ==
  ASSUME Kind,
         work' = work, keep' = keep, hand' = hand, applied' = applied,
         sets' = sets, spoken' \in Nat, piece' \in Nat,
         discarding' = discarding,
         pc' \in [Threads -> Places],
         pc["engine"] \in {"resume", "setting"} => pc'["engine"] = pc["engine"],
         \A c \in Cancellers :
           pc[c] \in {"stop", "drain", "putback"}
             => pc'[c] \in {"stop", "drain", "putback"}
  PROVE  Kind'
BY DEF Kind, Fields, MuteIsUndone, NoSettingIsLost, ResumeIsComing, Canceling, At

(* A step that puts an item on the end of the queue besides.               *)
LEMMA PutsOn ==
  ASSUME Kind, NEW item \in ItemType,
         work' = Append(work, item),
         keep' = keep, hand' = hand, applied' = applied,
         spoken' \in Nat, piece' \in Nat,
         sets' = sets \/ (sets' = sets + 1 /\ item = Setting(sets + 1)),
         discarding' = discarding,
         pc' \in [Threads -> Places],
         pc'["engine"] = pc["engine"],
         item = Resume \/ \A c \in Cancellers :
           pc[c] \in {"stop", "drain", "putback"}
             => pc'[c] \in {"stop", "drain", "putback"}
  PROVE  Kind'
<1>1. /\ work' \in Seq(ItemType)
      /\ Contains(work', item)
      /\ \A x : Contains(work, x) => Contains(work', x)
  BY AppendKeeps DEF Kind, Fields
<1>2. Fields'
  BY <1>1 DEF Kind, Fields
<1>3. MuteIsUndone'
  BY <1>1 DEF Kind, MuteIsUndone, ResumeIsComing, Canceling, At
<1>4. NoSettingIsLost'
  <2> SUFFICES ASSUME NEW n \in 1..sets'
               PROVE  \/ n \in applied'
                      \/ pc'["engine"] = "setting" /\ hand' = Setting(n)
                      \/ Contains(work', Setting(n))
                      \/ \E c \in Cancellers : Contains(keep'[c], Setting(n))
    BY DEF NoSettingIsLost, At
  <2>1. CASE n \in 1..sets
    BY <1>1, <2>1 DEF Kind, NoSettingIsLost, At
  <2>2. CASE n \notin 1..sets
    <3>1. n = sets + 1 /\ item = Setting(n)
      BY <2>2 DEF Kind, Fields
    <3> QED
      BY <1>1, <3>1
  <2> QED
    BY <2>1, <2>2
<1> QED
  BY <1>2, <1>3, <1>4 DEF Kind

(* The first step of a cancel, whoever takes it.                           *)
LEMMA Discards ==
  ASSUME Kind, NEW c \in Cancellers, Discard(c),
         work' = work, keep' = keep, hand' = hand, applied' = applied,
         sets' = sets, spoken' \in Nat, piece' \in Nat
  PROVE  Kind'
<1>1. /\ pc' = [pc EXCEPT ![c] = "stop"]
      /\ discarding' = TRUE
      /\ c \in Threads /\ "engine" \in Threads /\ c # "engine"
      /\ pc \in [Threads -> Places]
  BY DEF Discard, Go, Kind, Fields, Cancellers, Threads
<1>2. pc' \in [Threads -> Places] /\ pc'[c] = "stop" /\ pc'["engine"] = pc["engine"]
  <2>1. "stop" \in Places
    BY DEF Places
  <2> QED
    BY <1>1, <2>1, Goes
<1>3. Fields'
  BY <1>1, <1>2 DEF Kind, Fields
<1>4. MuteIsUndone'
  BY <1>2 DEF MuteIsUndone, Canceling
<1>5. NoSettingIsLost'
  BY <1>2 DEF Kind, NoSettingIsLost, At
<1> QED
  BY <1>3, <1>4, <1>5 DEF Kind

(* Taking the head of the queue to run it: a resume or a setting is then   *)
(* in hand, and nothing else that was on the queue has gone.               *)
LEMMA GetKeeps ==
  ASSUME Kind, Get
  PROVE  Kind'
<1>1. /\ work # <<>> /\ pc["engine"] = "get"
      /\ hand' = Head(work) /\ work' = Tail(work)
      /\ pc' = [pc EXCEPT !["engine"] =
                  IF Head(work) = Closing THEN "ended" ELSE Head(work).kind]
      /\ UNCHANGED <<discarding, keep, sets, spoken, piece, applied>>
  BY DEF Get, Go, At, posted, history, readerOwn
<1>2. /\ Head(work) \in ItemType
      /\ work' \in Seq(ItemType)
      /\ \A x : Contains(work, x) => x = Head(work) \/ Contains(work', x)
  BY <1>1, HeadOrTail DEF Kind, Fields
<1>3. /\ pc' \in [Threads -> Places]
      /\ \A c \in Cancellers : pc'[c] = pc[c]
      /\ Head(work) # Closing => pc'["engine"] = Head(work).kind
  <2> DEFINE there == IF Head(work) = Closing THEN "ended" ELSE Head(work).kind
  <2>1. Head(work).kind \in {"speech", "setting", "resume", "close"}
    BY <1>2 DEF ItemType
  <2>2. there \in Places
    BY <2>1 DEF Places
  <2>3. "engine" \in Threads /\ \A c \in Cancellers : c \in Threads /\ c # "engine"
    BY DEF Threads, Cancellers
  <2>4. pc \in [Threads -> Places] /\ pc' = [pc EXCEPT !["engine"] = there]
    BY <1>1 DEF Kind, Fields
  <2>5. /\ pc' \in [Threads -> Places] /\ pc'["engine"] = there
        /\ \A u \in Threads : u # "engine" => pc'[u] = pc[u]
    <3> HIDE DEF there
    <3> QED
      BY <2>2, <2>3, <2>4, Goes
  <2> QED
    BY <2>3, <2>5
<1>4. Fields'
  BY <1>1, <1>2, <1>3 DEF Kind, Fields
<1>5. MuteIsUndone'
  <2>1. Head(work) = Resume => pc'["engine"] = "resume"
    BY <1>3, Items DEF Resume
  <2> QED
    BY <1>1, <1>2, <1>3, <2>1 DEF Kind, MuteIsUndone, ResumeIsComing, Canceling, At
<1>6. NoSettingIsLost'
  <2> SUFFICES ASSUME NEW n \in 1..sets
               PROVE  \/ n \in applied
                      \/ pc'["engine"] = "setting" /\ hand' = Setting(n)
                      \/ Contains(work', Setting(n))
                      \/ \E c \in Cancellers : Contains(keep[c], Setting(n))
    BY <1>1 DEF NoSettingIsLost, At
  <2>1. n \in Nat /\ Setting(n) # Closing /\ Setting(n).kind = "setting"
    BY Items DEF Kind, Fields, Setting
  <2>2. Head(work) = Setting(n) => pc'["engine"] = "setting"
    BY <1>3, <2>1
  <2> QED
    BY <1>1, <1>2, <2>2 DEF Kind, NoSettingIsLost, At
<1> QED
  BY <1>4, <1>5, <1>6 DEF Kind

(* Draining takes from the queue only what it keeps, or speech.            *)
LEMMA DrainKeeps ==
  ASSUME Kind, NEW c \in Cancellers, DrainOne(c)
  PROVE  Kind'
<1>1. /\ pc[c] = "drain"
      /\ c \in Threads /\ c # "engine" /\ "engine" \in Threads
      /\ UNCHANGED <<discarding, hand, sets, spoken, piece, applied>>
  BY DEF DrainOne, At, posted, history, readerOwn, engineOwn, Cancellers, Threads
<1>2. CASE work = <<>>
  <2>1. /\ pc' = [pc EXCEPT ![c] = "putback"]
        /\ work' = work /\ keep' = keep
    BY <1>2 DEF DrainOne, Go
  <2>2. /\ pc' \in [Threads -> Places] /\ pc'[c] = "putback"
        /\ \A t \in Threads : t # c => pc'[t] = pc[t]
    <3>1. "putback" \in Places /\ pc \in [Threads -> Places]
      BY DEF Kind, Fields, Places
    <3> QED
      BY <2>1, <1>1, <3>1, Goes
  <2>3. \A d \in Cancellers : d \in Threads
    BY DEF Cancellers, Threads
  <2> QED
    BY <1>1, <2>1, <2>2, <2>3, StandsStill DEF Kind, Fields
<1>3. CASE work # <<>>
  <2>1. /\ work' = Tail(work) /\ pc' = pc
        /\ keep' = IF Kept(Head(work))
                     THEN [keep EXCEPT ![c] = Append(keep[c], Head(work))]
                     ELSE keep
    BY <1>3 DEF DrainOne
  <2>2. /\ Head(work) \in ItemType
        /\ work' \in Seq(ItemType)
        /\ \A x : Contains(work, x) => x = Head(work) \/ Contains(work', x)
    BY <1>3, <2>1, HeadOrTail DEF Kind, Fields
  <2>3. /\ keep[c] \in Seq(ItemType)
        /\ Append(keep[c], Head(work)) \in Seq(ItemType)
        /\ Contains(Append(keep[c], Head(work)), Head(work))
        /\ \A x : Contains(keep[c], x) => Contains(Append(keep[c], Head(work)), x)
    <3>1. keep[c] \in Seq(ItemType)
      BY DEF Kind, Fields
    <3> QED
      BY <2>2, <3>1, AppendKeeps
  <2>4. /\ keep' \in [Cancellers -> Seq(ItemType)]
        /\ \A x : \A d \in Cancellers : Contains(keep[d], x) => Contains(keep'[d], x)
        /\ Kept(Head(work)) => Contains(keep'[c], Head(work))
    BY <2>1, <2>3 DEF Kind, Fields
  <2>5. Fields'
    BY <1>1, <2>1, <2>2, <2>4 DEF Kind, Fields
  <2>6. MuteIsUndone'
    BY <1>1, <2>1 DEF MuteIsUndone, Canceling
  <2>7. NoSettingIsLost'
    <3> SUFFICES ASSUME NEW n \in 1..sets
                 PROVE  \/ n \in applied
                        \/ pc["engine"] = "setting" /\ hand = Setting(n)
                        \/ Contains(work', Setting(n))
                        \/ \E d \in Cancellers : Contains(keep'[d], Setting(n))
      BY <1>1, <2>1 DEF NoSettingIsLost, At
    <3>1. Kept(Setting(n))
      BY DEF Kept, Setting
    <3> QED
      BY <2>2, <2>4, <3>1 DEF Kind, NoSettingIsLost, At
  <2> QED
    BY <2>5, <2>6, <2>7 DEF Kind
<1> QED
  BY <1>2, <1>3

(* What was kept goes back on the queue.                                   *)
LEMMA PutBackKeeps ==
  ASSUME Kind, NEW c \in Cancellers, PutBack(c)
  PROVE  Kind'
<1>1. /\ pc[c] = "putback" /\ pc' = pc /\ keep[c] # <<>>
      /\ work' = Append(work, Head(keep[c]))
      /\ keep' = [keep EXCEPT ![c] = Tail(keep[c])]
      /\ UNCHANGED <<discarding, hand, sets, spoken, piece, applied>>
  BY DEF PutBack, At, posted, history, readerOwn, engineOwn
<1>2. /\ keep[c] \in Seq(ItemType)
      /\ work \in Seq(ItemType)
  BY DEF Kind, Fields
<1>3. /\ Head(keep[c]) \in ItemType
      /\ Tail(keep[c]) \in Seq(ItemType)
      /\ \A x : Contains(keep[c], x) => x = Head(keep[c]) \/ Contains(Tail(keep[c]), x)
  BY <1>1, <1>2, HeadOrTail
<1>4. /\ work' \in Seq(ItemType)
      /\ Contains(work', Head(keep[c]))
      /\ \A x : Contains(work, x) => Contains(work', x)
  BY <1>1, <1>2, <1>3, AppendKeeps
<1>5. /\ keep' \in [Cancellers -> Seq(ItemType)]
      /\ keep'[c] = Tail(keep[c])
      /\ \A d \in Cancellers : d # c => keep'[d] = keep[d]
  BY <1>1, <1>3 DEF Kind, Fields
<1>6. Fields'
  BY <1>1, <1>4, <1>5 DEF Kind, Fields
<1>7. MuteIsUndone'
  BY <1>1 DEF MuteIsUndone, Canceling
<1>8. NoSettingIsLost'
  <2> SUFFICES ASSUME NEW n \in 1..sets
               PROVE  \/ n \in applied
                      \/ pc["engine"] = "setting" /\ hand = Setting(n)
                      \/ Contains(work', Setting(n))
                      \/ \E d \in Cancellers : Contains(keep'[d], Setting(n))
    BY <1>1 DEF NoSettingIsLost, At
  <2> QED
    BY <1>3, <1>4, <1>5 DEF Kind, NoSettingIsLost, At
<1> QED
  BY <1>6, <1>7, <1>8 DEF Kind

(* A setting in hand is made, and a resume in hand ends the silence.       *)
LEMMA RunKeeps ==
  ASSUME Kind, RunSetting \/ RunResume
  PROVE  Kind'
<1>1. /\ UNCHANGED <<work, keep, hand, sets, spoken, piece>>
      /\ pc' = [pc EXCEPT !["engine"] = "get"]
  BY DEF RunSetting, RunResume, Go, posted, readerOwn
<1>2. /\ pc' \in [Threads -> Places] /\ pc'["engine"] = "get"
      /\ \A c \in Cancellers : pc'[c] = pc[c]
  <2>1. /\ "get" \in Places /\ "engine" \in Threads
        /\ \A c \in Cancellers : c \in Threads /\ c # "engine"
    BY DEF Places, Threads, Cancellers
  <2> QED
    BY <1>1, <2>1, Goes DEF Kind, Fields
<1>3. CASE RunSetting
  <2>1. /\ pc["engine"] = "setting" /\ applied' = applied \cup {hand.n}
        /\ discarding' = discarding
    BY <1>3 DEF RunSetting, At
  <2>2. Fields'
    BY <1>1, <1>2, <2>1 DEF Kind, Fields
  <2>3. MuteIsUndone'
    BY <1>1, <1>2, <2>1 DEF Kind, MuteIsUndone, ResumeIsComing, Canceling, At
  <2>4. \A n : hand = Setting(n) => n \in applied'
    BY <2>1 DEF Setting
  <2>5. NoSettingIsLost'
    BY <1>1, <2>1, <2>4 DEF Kind, NoSettingIsLost, At
  <2> QED
    BY <2>2, <2>3, <2>5 DEF Kind
<1>4. CASE RunResume
  <2>1. /\ pc["engine"] = "resume" /\ discarding' = FALSE
        /\ applied' = applied
    BY <1>4 DEF RunResume, At, history
  <2>2. Fields'
    BY <1>1, <1>2, <2>1 DEF Kind, Fields
  <2>3. NoSettingIsLost'
    BY <1>1, <2>1 DEF Kind, NoSettingIsLost, At
  <2> QED
    BY <2>1, <2>2, <2>3 DEF Kind, MuteIsUndone
<1> QED
  BY <1>3, <1>4

(* One thread going from a place to another, and nothing it takes along.   *)
LEMMA Moves ==
  ASSUME Kind, NEW t \in Threads, NEW p \in Places,
         pc' = [pc EXCEPT ![t] = p],
         pc[t] \notin {"resume", "setting", "stop", "drain", "putback"}
           \/ (pc[t] = "stop" /\ p = "drain"),
         work' = work, keep' = keep, hand' = hand, applied' = applied,
         sets' = sets, spoken' \in Nat, piece' \in Nat,
         discarding' = discarding
  PROVE  Kind'
<1>1. /\ pc' \in [Threads -> Places] /\ pc'[t] = p
      /\ \A u \in Threads : u # t => pc'[u] = pc[u]
  BY Goes DEF Kind, Fields
<1>2. "engine" \in Threads /\ \A c \in Cancellers : c \in Threads
  BY DEF Threads, Cancellers
<1> QED
  BY <1>1, <1>2, StandsStill

(* The steps of a cancel after the first.                                  *)
LEMMA CancelerKeeps ==
  ASSUME Kind, NEW c \in Cancellers, Canceler(c)
  PROVE  Kind'
<1>1. /\ c \in Threads /\ c # "engine" /\ "engine" \in Threads
      /\ \A d \in Cancellers : d \in Threads
      /\ {"drain", "check", "free", "closing"} \subseteq Places
      /\ pc \in [Threads -> Places]
      /\ spoken \in Nat /\ piece \in Nat /\ sets \in Nat
  BY DEF Threads, Cancellers, Places, Kind, Fields
<1>2. CASE Stop(c)
  <2>1. /\ pc[c] = "stop" /\ pc' = [pc EXCEPT ![c] = "drain"]
        /\ UNCHANGED <<work, keep, hand, applied, discarding, spoken, piece, sets>>
    BY <1>2 DEF Stop, At, Go, readerOwn, posted, engineOwn
  <2> QED
    BY <1>1, <2>1, Moves
<1>3. CASE PutResume(c)
  <2>1. /\ work' = Append(work, Resume) /\ pc' = [pc EXCEPT ![c] = Onward(c)]
        /\ UNCHANGED <<keep, hand, applied, discarding, spoken, piece, sets>>
    BY <1>3 DEF PutResume, Go, readerOwn, posted, engineOwn, history, callback
  <2>2. Onward(c) \in Places
    BY <1>1 DEF Onward
  <2>3. /\ pc' \in [Threads -> Places]
        /\ \A u \in Threads : u # c => pc'[u] = pc[u]
    BY <1>1, <2>1, <2>2, Goes
  <2> QED
    BY <1>1, <2>1, <2>3, Items, PutsOn
<1> QED
  BY <1>2, <1>3, DrainKeeps, PutBackKeeps DEF Canceler

(* The steps of _finish.                                                   *)
LEMMA TellerKeeps ==
  ASSUME Kind, NEW t \in Threads, Teller(t)
  PROVE  Kind'
<1>1. /\ {"set", "tell", "get", "look"} \subseteq Places
      /\ Back(t) \in Places
      /\ spoken \in Nat /\ piece \in Nat
  BY DEF Places, Back, Kind, Fields
<1>2. /\ pc[t] \in {"check", "set", "tell"}
      /\ \E p \in Places : pc' = [pc EXCEPT ![t] = p]
      /\ UNCHANGED <<work, keep, hand, applied, discarding, spoken, piece, sets>>
  <2>1. CASE Check(t)
    BY <1>1, <2>1 DEF Check, At, Go, readerOwn, posted, engineOwn
  <2>2. CASE SetFinished(t)
    BY <1>1, <2>2 DEF SetFinished, At, Go, readerOwn, posted, engineOwn, history
  <2>3. CASE Tell(t)
    BY <1>1, <2>3 DEF Tell, At, Go, readerOwn, posted, engineOwn
  <2> QED
    BY <2>1, <2>2, <2>3 DEF Teller
<1> QED
  BY <1>1, <1>2, Moves

(* The reader's own steps.                                                 *)
LEMMA ReaderKeeps ==
  ASSUME Kind, Reader
  PROVE  Kind'
<1> USE DEF At, Go
<1>0. /\ "reader" \in Threads /\ "reader" \in Cancellers
      /\ spoken \in Nat /\ piece \in Nat /\ sets \in Nat
      /\ {"free", "posting", "closing", "join", "closed", "drain"} \subseteq Places
      /\ pc \in [Threads -> Places]
  BY DEF Threads, Cancellers, Kind, Fields, Places
<1>1. CASE Speak
  <2>1. spoken' \in Nat /\ piece' \in Nat
    BY <1>0, <1>1 DEF Speak
  <2> QED
    BY <1>0, <1>1, <2>1, Moves
    DEF Speak, posted, callback, playing, silence, told, history, clock, readerOwn, engineOwn
<1>2. CASE Post
  <2>1. /\ pc["reader"] = "posting"
        /\ work' = Append(work, Speech(spoken, piece + 1))
        /\ piece' = piece + 1 /\ spoken' = spoken /\ sets' = sets
        /\ UNCHANGED <<keep, hand, applied, discarding>>
    BY <1>2 DEF Post, history, callback
  <2>2. /\ Speech(spoken, piece + 1) \in ItemType
        /\ piece' \in Nat
    BY <1>0, <2>1, Items
  <2>3. \E p \in Places : pc' = [pc EXCEPT !["reader"] = p]
    BY <1>0, <1>2 DEF Post
  <2>4. /\ pc' \in [Threads -> Places]
        /\ \A u \in Threads : u # "reader" => pc'[u] = pc[u]
    BY <1>0, <2>3, Goes
  <2>5. "engine" \in Threads /\ \A c \in Cancellers : c \in Threads
    BY DEF Threads, Cancellers
  <2> QED
    BY <1>0, <2>1, <2>2, <2>4, <2>5, PutsOn
<1>3. CASE Control
  <2>1. /\ work' = Append(work, Setting(sets + 1)) /\ sets' = sets + 1
        /\ UNCHANGED <<pc, keep, hand, applied, discarding, spoken, piece>>
    BY <1>3 DEF Control, history, callback
  <2>2. Setting(sets + 1) \in ItemType
    BY <1>0, Items
  <2> QED
    BY <1>0, <2>1, <2>2, PutsOn
<1>4. CASE Pause
  <2>1. UNCHANGED <<work, pc, keep, hand, applied, discarding, spoken, piece, sets>>
    BY <1>4 DEF Pause, history, callback
  <2> QED
    BY <1>0, <2>1, StandsStill
<1>5. CASE Cancel
  <2>1. /\ Discard("reader")
        /\ UNCHANGED <<work, keep, hand, applied, spoken, piece, sets>>
    BY <1>5 DEF Cancel, engineOwn
  <2> QED
    BY <1>0, <2>1, Discards
<1>6. CASE Close
  <2>1. /\ Discard("reader")
        /\ UNCHANGED <<work, keep, hand, applied, spoken, piece, sets>>
    BY <1>6 DEF Close, engineOwn
  <2> QED
    BY <1>0, <2>1, Discards
<1>7. CASE PutSentinel
  <2>1. /\ pc["reader"] = "closing" /\ pc' = [pc EXCEPT !["reader"] = "join"]
        /\ work' = Append(work, Closing)
        /\ UNCHANGED <<keep, hand, applied, discarding, spoken, piece, sets>>
    BY <1>7 DEF PutSentinel, history, posted, readerOwn, engineOwn, callback
  <2>2. /\ pc' \in [Threads -> Places]
        /\ \A u \in Threads : u # "reader" => pc'[u] = pc[u]
    BY <1>0, <2>1, Goes
  <2>3. "engine" \in Threads /\ \A c \in Cancellers : c \in Threads
    BY DEF Threads, Cancellers
  <2> QED
    BY <1>0, <2>1, <2>2, <2>3, Items, PutsOn
<1>8. CASE Join \/ GiveUp
  <2>1. /\ pc["reader"] = "join" /\ pc' = [pc EXCEPT !["reader"] = "closed"]
        /\ UNCHANGED <<work, keep, hand, applied, discarding, spoken, piece, sets>>
    BY <1>8 DEF Join, GiveUp, history, posted, readerOwn, engineOwn, callback
  <2> QED
    BY <1>0, <2>1, Moves
<1> QED
  <2>1. CASE Canceler("reader")
    BY <1>0, <2>1, CancelerKeeps
  <2> QED
    BY <1>1, <1>2, <1>3, <1>4, <1>5, <1>6, <1>7, <1>8, <2>1 DEF Reader

(* The engine's thread.                                                    *)
LEMMA EngineKeeps ==
  ASSUME Kind, Engine
  PROVE  Kind'
<1>1. /\ "engine" \in Threads
      /\ {"get", "check", "message", "feed", "lastfeed", "idle"} \subseteq Places
      /\ spoken \in Nat /\ piece \in Nat
  BY DEF Threads, Places, Kind, Fields
<1>2. CASE SkipSpeech \/ StartSpeaking
  <2>1. /\ pc["engine"] = "speech"
        /\ \E p \in Places : pc' = [pc EXCEPT !["engine"] = p]
        /\ UNCHANGED <<work, keep, hand, applied, discarding, spoken, piece, sets>>
    <3>1. CASE SkipSpeech
      BY <1>1, <3>1 DEF SkipSpeech, At, Go, readerOwn, posted, engineOwn, history, callback
    <3>2. CASE StartSpeaking
      BY <1>1, <3>2 DEF StartSpeaking, At, Go, readerOwn, posted
    <3> QED
      BY <1>2, <3>1, <3>2
  <2> QED
    BY <1>1, <2>1, Moves
<1>3. ASSUME NEW final \in BOOLEAN, AfterFlush(final)
      PROVE  \E p \in Places : pc' = [pc EXCEPT !["engine"] = p]
  BY <1>1, <1>3 DEF AfterFlush, GoIdle, Go
<1>4. ASSUME NEW audio, NEW marks, NEW final \in BOOLEAN, Flush(audio, marks, final)
      PROVE  \E p \in Places : pc' = [pc EXCEPT !["engine"] = p]
  <2>1. CASE EnterFeed(marks, final)
    BY <1>1, <2>1 DEF EnterFeed, Go
  <2>2. CASE NothingToFeed(marks, final)
    BY <1>3, <2>2 DEF NothingToFeed
  <2> QED
    BY <1>4, <2>1, <2>2 DEF Flush
<1>5. CASE Message \/ Synchronized
  <2>1. /\ pc["engine"] = "message"
        /\ UNCHANGED <<work, keep, hand, applied, discarding, spoken, piece, sets>>
    BY <1>5 DEF Message, Synchronized, At, readerOwn, posted
  <2>2. CASE Message
    <3>1. (\E audio, marks : Flush(audio, marks, FALSE)) \/ pc' = pc
      BY <2>2 DEF Message
    <3>2. CASE pc' = pc
      BY <1>1, <2>1, <3>2, StandsStill DEF Kind, Fields
    <3>3. CASE \E audio, marks : Flush(audio, marks, FALSE)
      BY <1>1, <1>4, <2>1, <3>3, Moves
    <3> QED
      BY <3>1, <3>2, <3>3
  <2>3. CASE Synchronized
    <3>1. \/ \E audio, marks : Flush(audio, marks, TRUE)
          \/ pc' = [pc EXCEPT !["engine"] = "get"]
      BY <2>3 DEF Synchronized, Go
    <3> QED
      BY <1>1, <1>4, <2>1, <3>1, Moves
  <2> QED
    BY <1>5, <2>2, <2>3
<1>6. CASE Feed \/ FeedRaises
  <2>1. /\ pc["engine"] \in {"feed", "lastfeed"}
        /\ AfterFlush(pc["engine"] = "lastfeed")
        /\ UNCHANGED <<work, keep, hand, applied, discarding, spoken, piece, sets>>
    BY <1>6 DEF Feed, FeedRaises, InFeed, At, readerOwn, posted
  <2> QED
    BY <1>1, <1>3, <2>1, Moves
<1>7. CASE Idle
  <2>1. /\ pc["engine"] = "idle" /\ pc' = [pc EXCEPT !["engine"] = "check"]
        /\ UNCHANGED <<work, keep, hand, applied, discarding, spoken, piece, sets>>
    BY <1>7 DEF Idle, At, Go, readerOwn, posted, history, engineOwn
  <2> QED
    BY <1>1, <2>1, Moves
<1> QED
  BY <1>1, <1>2, <1>5, <1>6, <1>7, GetKeeps, RunKeeps, TellerKeeps DEF Engine

(* The watchdog, the player and the clock.                                 *)
LEMMA OthersKeep ==
  ASSUME Kind, Watchdog \/ Play \/ Stall \/ TimePasses \/ Rest
  PROVE  Kind'
<1>1. /\ "watchdog" \in Threads /\ "watchdog" \in Cancellers
      /\ {"look", "judge", "ended"} \subseteq Places
      /\ spoken \in Nat /\ piece \in Nat
  BY DEF Threads, Cancellers, Places, Kind, Fields
<1>2. CASE Look \/ StopWatching
  <2>1. /\ pc["watchdog"] = "look"
        /\ \E p \in Places : pc' = [pc EXCEPT !["watchdog"] = p]
        /\ UNCHANGED <<work, keep, hand, applied, discarding, spoken, piece, sets>>
    BY <1>1, <1>2 DEF Look, StopWatching, At, Go, readerOwn, posted, history, engineOwn
  <2> QED
    BY <1>1, <2>1, Moves
<1>3. CASE Judge
  <2>1. /\ pc["watchdog"] = "judge"
        /\ UNCHANGED <<work, keep, hand, applied, spoken, piece, sets>>
        /\ \/ pc' = [pc EXCEPT !["watchdog"] = "look"] /\ discarding' = discarding
           \/ Discard("watchdog")
    BY <1>3 DEF Judge, At, Go, readerOwn, posted, engineOwn
  <2> QED
    BY <1>1, <2>1, Moves, Discards
<1>4. CASE Play \/ Stall \/ TimePasses \/ Rest
  <2>1. UNCHANGED <<pc, work, keep, hand, applied, discarding, spoken, piece, sets>>
    BY <1>4 DEF Play, Stall, TimePasses, Rest, vars, readerOwn, posted, history, engineOwn
  <2> QED
    BY <1>1, <2>1, StandsStill DEF Kind, Fields
<1> QED
  BY <1>1, <1>2, <1>3, <1>4, CancelerKeeps, TellerKeeps DEF Watchdog

LEMMA KindInitially == Init => Kind
<1> SUFFICES ASSUME Init PROVE Kind
  OBVIOUS
<1>1. Fields
  <2>1. pc \in [Threads -> Places]
    <3>1. \A t \in Threads : t = "reader" \/ t = "engine" \/ t = "watchdog"
      BY DEF Threads
    <3>2. {"free", "get", "look"} \subseteq Places
      BY DEF Places
    <3> QED
      BY <3>1, <3>2 DEF Init
  <2>2. work \in Seq(ItemType) /\ keep \in [Cancellers -> Seq(ItemType)]
    BY DEF Init
  <2>3. hand \in ItemType
    BY Items DEF Init
  <2> QED
    BY <2>1, <2>2, <2>3 DEF Init, Fields
<1>2. MuteIsUndone /\ NoSettingIsLost
  BY DEF Init, MuteIsUndone, NoSettingIsLost
<1> QED
  BY <1>1, <1>2 DEF Kind

LEMMA KindKept == Kind /\ [Next]_vars => Kind'
<1> SUFFICES ASSUME Kind, [Next]_vars PROVE Kind'
  OBVIOUS
<1>1. CASE UNCHANGED vars
  BY <1>1, StandsStill
  DEF vars, readerOwn, posted, history, Kind, Fields
<1>2. CASE Next
  BY <1>2, ReaderKeeps, EngineKeeps, OthersKeep DEF Next
<1> QED
  BY <1>1, <1>2

(* The rest of the types.                                                  *)
Flags ==
  /\ finished \in BOOLEAN /\ paused \in BOOLEAN /\ watching \in BOOLEAN
  /\ stalled \in BOOLEAN /\ kicked \in BOOLEAN
  /\ since \in {"none", "now", "long"}
  /\ fault \in {"none", "feed", "idle", "stall"}
  /\ calls \in Nat /\ event \in Nat /\ tells \in Nat

LEMMA FlagsKept ==
  ASSUME Flags, [Next]_vars
  PROVE  Flags'
<1> USE DEF readerOwn, posted, engineOwn, callback, playing, clock, history, told
<1>1. ASSUME NEW c \in Cancellers, Canceler(c) PROVE Flags'
  BY <1>1 DEF Flags, Canceler, Stop, DrainOne, PutBack, PutResume
<1>2. CASE Reader
  <2>1. CASE Speak \/ Post \/ Control \/ Cancel
    BY <2>1 DEF Flags, Speak, Post, Control, Cancel
  <2>2. CASE Pause
    BY <2>2 DEF Flags, Pause
  <2>3. CASE Close
    <3>1. calls' = calls + 1 /\ watching' = FALSE
      BY <2>3 DEF Close
    <3>2. UNCHANGED <<finished, paused, stalled, kicked, since, fault, event, tells>>
      BY <2>3 DEF Close
    <3>3. calls' \in Nat
      BY <3>1 DEF Flags
    <3> QED
      BY <3>1, <3>2, <3>3, Zenon DEF Flags
  <2>4. CASE PutSentinel \/ Join \/ GiveUp
    BY <2>4 DEF Flags, PutSentinel, Join, GiveUp
  <2> QED
    BY <1>2, <1>1, <2>1, <2>2, <2>3, <2>4 DEF Reader, Cancellers
<1>3. ASSUME NEW t \in Threads, Teller(t) PROVE Flags'
  <2>1. CASE Check(t)
    BY <2>1 DEF Flags, Check
  <2>2. CASE SetFinished(t)
    BY <2>2, Zenon DEF Flags, SetFinished
  <2>3. CASE Tell(t)
    <3>1. /\ tells' = tells + 1
          /\ UNCHANGED <<finished, paused, watching, stalled, kicked, since, fault,
                         calls, event>>
      BY <2>3 DEF Tell
    <3>2. tells' \in Nat
      BY <3>1 DEF Flags
    <3> QED
      BY <3>1, <3>2, Zenon DEF Flags
  <2> QED
    BY <1>3, <2>1, <2>2, <2>3 DEF Teller
<1>4. CASE Engine
  <2>1. CASE Get \/ RunSetting \/ RunResume \/ SkipSpeech
    BY <2>1 DEF Flags, Get, RunSetting, RunResume, SkipSpeech
  <2>2. CASE StartSpeaking
    BY <2>2 DEF Flags, StartSpeaking
  <2>3. CASE Message \/ Synchronized
    <3>1. UNCHANGED <<finished, paused, watching, stalled, fault, calls, tells>>
      BY <2>3 DEF Message, Synchronized
    <3>2. event' = event + 1 \/ event' = event
      BY <2>3 DEF Message, Synchronized
    <3>3. event' \in Nat
      BY <3>2 DEF Flags
    <3>4. since' \in {since, "now", "none"}
      BY <2>3, Zenon DEF Message, Synchronized, Flush, EnterFeed, NothingToFeed,
         AfterFlush, GoIdle
    <3>5. kicked' \in {kicked, FALSE}
      BY <2>3, Zenon DEF Message, Synchronized, Flush, EnterFeed, NothingToFeed,
         AfterFlush, GoIdle
    <3> QED
      BY <3>1, <3>3, <3>4, <3>5 DEF Flags
  <2>4. CASE Feed \/ FeedRaises
    BY <2>4 DEF Flags, Feed, FeedRaises, AfterFlush, GoIdle
  <2>5. CASE Idle
    BY <2>5 DEF Flags, Idle
  <2> QED
    BY <1>3, <1>4, <2>1, <2>2, <2>3, <2>4, <2>5 DEF Engine, Threads
<1>5. CASE Look \/ Judge \/ StopWatching
  BY <1>5 DEF Flags, Look, Judge, StopWatching
<1>6. CASE Play \/ Stall \/ TimePasses \/ Rest \/ UNCHANGED vars
  BY <1>6 DEF Flags, Play, Stall, TimePasses, Rest, vars
<1> QED
  BY <1>1, <1>2, <1>3, <1>4, <1>5, <1>6 DEF Next, Watchdog, Threads, Cancellers

LEMMA WholeKept ==
  ASSUME hand \in ItemType, whole \in Nat, [Next]_vars
  PROVE  whole' \in Nat
<1>1. hand.piece \in Nat
  BY DEF ItemType
<1>2. whole' \in {whole, 0, hand.piece}
  <2>1. CASE Reader
    BY <2>1 DEF Reader, Canceler, Speak, Post, Control, Pause, Cancel, Close,
       PutSentinel, Join, GiveUp, Discard, Stop, DrainOne, PutBack, PutResume, history
  <2>2. CASE Engine
    BY <2>2 DEF Engine, Teller, Get, RunSetting, RunResume, SkipSpeech,
       StartSpeaking, Message, Synchronized, Feed, FeedRaises, Idle,
       Check, SetFinished, Tell, history
  <2>3. CASE Watchdog
    BY <2>3 DEF Watchdog, Canceler, Teller, Look, Judge, StopWatching, Discard, Stop,
       DrainOne, PutBack, PutResume, Check, SetFinished, Tell, history
  <2>4. CASE Play \/ Stall \/ TimePasses \/ Rest \/ UNCHANGED vars
    BY <2>4 DEF Play, Stall, TimePasses, Rest, vars, history
  <2> QED
    BY <2>1, <2>2, <2>3, <2>4 DEF Next
<1> QED
  BY <1>1, <1>2

(* Every reachable state of the driver is of the declared shape.           *)
THEOREM DriverTypeCorrect == Spec => []TypeOK
<1>1. Init => Flags
  <2> SUFFICES ASSUME Init PROVE Flags
    OBVIOUS
  <2>1. calls \in Nat /\ event \in Nat /\ tells \in Nat
    BY DEF Init
  <2>2. /\ finished = TRUE /\ paused = FALSE /\ watching = TRUE
        /\ stalled = FALSE /\ kicked = FALSE
        /\ since = "none" /\ fault = "none"
    BY Zenon DEF Init
  <2> QED
    BY <2>1, <2>2, Zenon DEF Flags
<1>2. Kind /\ Flags /\ whole \in Nat => TypeOK
  BY DEF Kind, Fields, Flags, TypeOK
<1>3. Flags /\ [Next]_vars => Flags'
  BY FlagsKept
<1>4. Init => whole \in Nat
  BY DEF Init
<1>5. Kind /\ whole \in Nat /\ [Next]_vars => (whole \in Nat)'
  BY WholeKept DEF Kind, Fields
<1> QED
  BY <1>1, <1>2, <1>3, <1>4, <1>5, KindInitially, KindKept, PTL DEF Spec

(* Samples are never being thrown away with nobody left to stop it, however *)
(* the cancels of the reader and of the watchdog drain the queue of each   *)
(* other's resumes.                                                        *)
THEOREM SilenceIsAlwaysUndone == Spec => []MuteIsUndone
<1>1. Kind => MuteIsUndone
  BY DEF Kind
<1> QED
  BY <1>1, KindInitially, KindKept, PTL DEF Spec

(* A setting that was asked for is made or still on its way to be, through *)
(* any number of cancels and stalls.                                       *)
THEOREM SettingsArrive == Spec => []NoSettingIsLost
<1>1. Kind => NoSettingIsLost
  BY DEF Kind
<1> QED
  BY <1>1, KindInitially, KindKept, PTL DEF Spec

-----------------------------------------------------------------------------
(* Silence.                                                                *)

(* The engine's thread has a piece of speech in hand that may yet be heard. *)
Busy == pc["engine"] \in {"speech", "message", "feed", "lastfeed"}

(* Items whose speech is of utterances that were posted, or were since the *)
(* player was stopped, and items that are no speech.                       *)
Item == {x \in ItemType : x.kind = "resume" => x = Resume}
Asked == {x \in Item : x.kind = "speech" => x.n \in 1..spoken}
Fresh == {x \in Item : x.kind = "speech" => x.n \in (cut + 1)..spoken}
Unspoken == {x \in Item : x.kind # "speech"}

(* What was asked for before the player was stopped is off the queue once  *)
(* the drain is over, and is in nobody's keeping.                          *)
Numbers ==
  /\ cut \in Nat /\ leaked \in Nat /\ cut <= spoken
  /\ work \in Seq(Asked)
  /\ keep \in [Cancellers -> Seq(Unspoken)]
  /\ Busy => hand.n \in 1..spoken
  /\ InFeed => out.of = hand.n
  /\ At("reader", "posting") => cut < spoken
  /\ At("reader", "stop") => cut = 0 /\ leaked = 0
  /\ ~At("reader", "drain") => work \in Seq(Fresh)

(* Nothing undoes the reader's cancel while it runs, and what it finds in  *)
(* hand is thrown away, but for the buffer that is on its way already.     *)
Quiet ==
  /\ Canceling("reader") =>
       discarding /\ ~ResumeIsComing /\ ~Canceling("watchdog")
  /\ leaked <= 1
  /\ Busy /\ hand.n <= cut => discarding
  /\ InFeed /\ hand.n <= cut => leaked = 0

Hush == Kind /\ Numbers /\ (overlapped \/ Quiet)

LEMMA Wider ==
  ASSUME NEW S, NEW T, S \subseteq T, NEW q \in Seq(S)
  PROVE  q \in Seq(T)
OBVIOUS

LEMMA EmptyIsAny == ASSUME NEW S PROVE <<>> \in Seq(S)
OBVIOUS

(* A step that adds nothing to what is posted, in hand or on its way, and  *)
(* takes the reader into no part of cancel.                                *)
LEMMA HushStands ==
  ASSUME Hush, Kind',
         UNCHANGED <<cut, leaked, overlapped, discarding, work, keep, hand, spoken>>,
         Busy' => Busy,
         InFeed' => InFeed /\ out' = out,
         pc'["engine"] = "resume" => pc["engine"] = "resume",
         pc'["reader"] \in {"posting", "stop", "drain", "putback"}
           => pc'["reader"] = pc["reader"],
         pc["reader"] = "drain" => pc'["reader"] = "drain",
         pc'["watchdog"] \in {"stop", "drain", "putback"}
           => pc["watchdog"] \in {"stop", "drain", "putback"}
  PROVE  Hush'
<1>1. Asked' = Asked /\ Fresh' = Fresh
  BY DEF Asked, Fresh
<1>2. Numbers'
  BY <1>1 DEF Hush, Numbers, Busy, At
<1>3. (overlapped \/ Quiet)'
  <2>1. CASE overlapped
    BY <2>1
  <2>2. CASE Quiet
    <3>1. Quiet'
      BY <2>2 DEF Quiet, ResumeIsComing, Canceling, At, Busy
    <3> QED
      BY <3>1
  <2> QED
    BY <2>1, <2>2 DEF Hush
<1> QED
  BY <1>2, <1>3 DEF Hush

(* One thread going somewhere that is no part of the silence.              *)
LEMMA HushMoves ==
  ASSUME Hush, Kind', NEW t \in Threads, NEW p \in Places,
         pc' = [pc EXCEPT ![t] = p],
         UNCHANGED <<cut, leaked, overlapped, discarding, work, keep, hand, spoken>>,
         t = "reader" => pc[t] # "drain" /\ p \notin {"posting", "stop", "drain", "putback"},
         t = "engine" => /\ p # "resume"
                         /\ p \in {"speech", "message"} => Busy
                         /\ p \notin {"feed", "lastfeed"},
         t = "watchdog" /\ p \in {"stop", "drain", "putback"}
           => pc[t] \in {"stop", "drain", "putback"},
         t # "engine" => out' = out
  PROVE  Hush'
<1>1. /\ pc'[t] = p
      /\ \A u \in Threads : u # t => pc'[u] = pc[u]
  BY Goes DEF Hush, Kind, Fields
<1>2. \A u : u \in Threads <=> u = "reader" \/ u = "engine" \/ u = "watchdog"
  BY DEF Threads
<1>3. CASE t = "reader"
  <2>1. pc'["engine"] = pc["engine"] /\ pc'["watchdog"] = pc["watchdog"] /\ out' = out
    BY <1>1, <1>2, <1>3
  <2>2. (Busy' => Busy) /\ (InFeed' => InFeed)
    BY <2>1 DEF Busy, InFeed
  <2> QED
    BY <1>1, <1>3, <2>1, <2>2, HushStands
<1>4. CASE t = "engine"
  <2>1. pc'["reader"] = pc["reader"] /\ pc'["watchdog"] = pc["watchdog"]
    BY <1>1, <1>2, <1>4
  <2>2. (Busy' => Busy) /\ (InFeed' => FALSE)
    BY <1>1, <1>4 DEF Busy, InFeed
  <2> QED
    BY <1>1, <1>4, <2>1, <2>2, HushStands
<1>5. CASE t = "watchdog"
  <2>1. pc'["engine"] = pc["engine"] /\ pc'["reader"] = pc["reader"] /\ out' = out
    BY <1>1, <1>2, <1>5
  <2>2. (Busy' => Busy) /\ (InFeed' => InFeed)
    BY <2>1 DEF Busy, InFeed
  <2> QED
    BY <1>1, <1>5, <2>1, <2>2, HushStands
<1> QED
  BY <1>2, <1>3, <1>4, <1>5

(* Putting an item on the queue that is not speech, or is speech of an     *)
(* utterance of now.                                                       *)
LEMMA HushPuts ==
  ASSUME Hush, Kind', NEW item \in Item,
         work' = Append(work, item),
         item.kind = "speech" => item.n \in (cut + 1)..spoken,
         item = Resume => ~Canceling("reader"),
         UNCHANGED <<cut, leaked, overlapped, discarding, hand, spoken, out>>,
         keep' \in [Cancellers -> Seq(Unspoken)],
         \A c \in Cancellers : Contains(keep'[c], Resume) => Contains(keep[c], Resume),
         pc'["engine"] = pc["engine"],
         pc'["reader"] \in {"posting", "stop", "drain", "putback"}
           => pc'["reader"] = pc["reader"],
         pc["reader"] = "drain" => pc'["reader"] = "drain",
         pc'["watchdog"] \in {"stop", "drain", "putback"}
           => pc["watchdog"] \in {"stop", "drain", "putback"}
  PROVE  Hush'
<1>1. Asked' = Asked /\ Fresh' = Fresh /\ Unspoken' = Unspoken
  BY DEF Asked, Fresh, Unspoken
<1>2. (Busy' <=> Busy) /\ (InFeed' <=> InFeed)
  BY DEF Busy, InFeed
<1>3. cut \in Nat /\ spoken \in Nat
  BY DEF Hush, Numbers, Kind, Fields
<1>4. item \in Asked /\ item \in Fresh
  BY <1>3 DEF Asked, Fresh
<1>5. work' \in Seq(Asked) /\ (~At("reader", "drain") => work' \in Seq(Fresh))
  BY <1>4 DEF Hush, Numbers
<1>6. Numbers'
  BY <1>1, <1>2, <1>5 DEF Hush, Numbers, At
<1>7. \A x : Contains(work', x) => Contains(work, x) \/ x = item
  <2>1. work \in Seq(ItemType)
    BY DEF Hush, Kind, Fields
  <2> QED
    BY <2>1 DEF Contains
<1>8. CASE overlapped
  BY <1>6, <1>8 DEF Hush
<1>9. CASE Quiet
  <2>1. Canceling("reader")' => Canceling("reader")
    BY DEF Canceling
  <2>2. Canceling("watchdog")' => Canceling("watchdog")
    BY DEF Canceling
  <2>3. ResumeIsComing' => ResumeIsComing \/ item = Resume
    BY <1>7 DEF ResumeIsComing, At
  <2>4. Quiet'
    BY <1>2, <1>9, <2>1, <2>2, <2>3 DEF Quiet
  <2> QED
    BY <1>6, <2>4 DEF Hush
<1> QED
  BY <1>8, <1>9 DEF Hush

(* A cancel begins.                                                        *)
LEMMA HushDiscards ==
  ASSUME Hush, Kind', NEW c \in Cancellers, Discard(c),
         UNCHANGED <<work, keep, hand, out, spoken>>
  PROVE  Hush'
<1>1. /\ discarding' = TRUE
      /\ pc'[c] = "stop" /\ \A t \in Threads : t # c => pc'[t] = pc[t]
  <2>1. pc' = [pc EXCEPT ![c] = "stop"] /\ discarding' = TRUE
    BY DEF Discard, Go
  <2>2. c \in Threads /\ "stop" \in Places /\ pc \in [Threads -> Places]
    BY DEF Cancellers, Threads, Places, Hush, Kind, Fields
  <2> QED
    BY <2>1, <2>2, Goes
<1>2. /\ "reader" \in Threads /\ "engine" \in Threads /\ "watchdog" \in Threads
      /\ c \in {"reader", "watchdog"}
      /\ Unspoken' = Unspoken /\ Asked' = Asked
  BY DEF Threads, Cancellers, Unspoken, Asked
<1>3. pc'["engine"] = pc["engine"]
  BY <1>1, <1>2
<1>4. (Busy' <=> Busy) /\ (InFeed' <=> InFeed) /\ (ResumeIsComing' <=> ResumeIsComing)
  BY <1>3 DEF Busy, InFeed, ResumeIsComing, At
<1>5. CASE c = "reader"
  <2>1. /\ overlapped' = (ResumeIsComing \/ Canceling("watchdog"))
        /\ cut' = 0 /\ leaked' = 0
        /\ pc'["reader"] = "stop" /\ pc'["watchdog"] = pc["watchdog"]
    BY <1>1, <1>2, <1>5 DEF Discard
  <2>2. work \in Seq(Fresh')
    <3>1. Asked \subseteq Fresh'
      BY <2>1 DEF Asked, Fresh, Hush, Kind, Fields
    <3> QED
      BY <3>1, Wider DEF Hush, Numbers
  <2>3. spoken \in Nat
    BY DEF Hush, Kind, Fields
  <2>4. Numbers'
    BY <1>2, <1>4, <2>1, <2>2, <2>3 DEF Hush, Numbers, At
  <2>5. Busy => hand.n \in 1..spoken
    BY DEF Hush, Numbers
  <2>6. Canceling("watchdog")' <=> Canceling("watchdog")
    BY <2>1 DEF Canceling
  <2>7. overlapped' \/ Quiet'
    <3>1. discarding' /\ leaked' <= 1 /\ (InFeed' => leaked' = 0)
      BY <1>1, <2>1
    <3>2. ~(Busy' /\ hand'.n <= cut')
      BY <1>4, <2>1, <2>3, <2>5
    <3>3. ~ResumeIsComing /\ ~Canceling("watchdog") => Quiet'
      BY <1>4, <2>6, <3>1, <3>2, Zenon DEF Quiet
    <3> QED
      BY <2>1, <3>3, Zenon
  <2> QED
    BY <2>4, <2>7 DEF Hush
<1>6. CASE c = "watchdog"
  <2>1. /\ overlapped' = (overlapped \/ Canceling("reader"))
        /\ cut' = cut /\ leaked' = leaked
        /\ pc'["reader"] = pc["reader"]
    BY <1>1, <1>2, <1>6 DEF Discard
  <2>2. Fresh' = Fresh
    BY <2>1 DEF Fresh
  <2>3. Numbers'
    BY <1>2, <1>4, <2>1, <2>2 DEF Hush, Numbers, At
  <2>4. Canceling("reader")' <=> Canceling("reader")
    BY <2>1 DEF Canceling
  <2>5. Quiet /\ ~Canceling("reader") => Quiet'
    BY <1>1, <1>4, <2>1, <2>4 DEF Quiet
  <2>6. overlapped' \/ Quiet'
    BY <2>1, <2>5 DEF Hush
  <2> QED
    BY <2>3, <2>6 DEF Hush
<1> QED
  BY <1>2, <1>5, <1>6

(* The player is stopped: from here on it counts what goes in.             *)
LEMMA HushStops ==
  ASSUME Hush, Kind', NEW c \in Cancellers, Stop(c)
  PROVE  Hush'
<1>1. /\ pc[c] = "stop" /\ pc' = [pc EXCEPT ![c] = "drain"]
      /\ cut' = IF c = "reader" THEN spoken ELSE cut
      /\ UNCHANGED <<leaked, overlapped, discarding, work, keep, hand, spoken, out>>
  BY DEF Stop, At, Go, readerOwn, posted, engineOwn, callback
<1>2. /\ c \in {"reader", "watchdog"} /\ c \in Threads /\ "drain" \in Places
      /\ "reader" \in Threads /\ "engine" \in Threads /\ "watchdog" \in Threads
      /\ pc \in [Threads -> Places] /\ spoken \in Nat
  BY DEF Cancellers, Threads, Places, Hush, Kind, Fields
<1>3. CASE c = "watchdog"
  BY <1>1, <1>2, <1>3, HushMoves
<1>4. CASE c = "reader"
  <2>1. /\ pc["reader"] = "stop" /\ pc'["reader"] = "drain"
        /\ pc'["engine"] = pc["engine"] /\ pc'["watchdog"] = pc["watchdog"]
        /\ cut' = spoken
    BY <1>1, <1>2, <1>4, Goes
  <2>2. /\ Unspoken' = Unspoken /\ Asked' = Asked
    BY <1>1 DEF Unspoken, Asked
  <2>3. /\ (Busy' <=> Busy) /\ (InFeed' <=> InFeed) /\ (ResumeIsComing' <=> ResumeIsComing)
        /\ (Canceling("watchdog")' <=> Canceling("watchdog"))
        /\ Canceling("reader")
    BY <1>1, <2>1 DEF Busy, InFeed, ResumeIsComing, Canceling, At
  <2>4. leaked = 0
    BY <2>1 DEF Hush, Numbers, At
  <2>5. Numbers'
    BY <1>1, <1>2, <2>1, <2>2, <2>3 DEF Hush, Numbers, At
  <2>6. Quiet => Quiet'
    BY <1>1, <2>3, <2>4 DEF Quiet
  <2> QED
    BY <1>1, <2>5, <2>6 DEF Hush
<1> QED
  BY <1>2, <1>3, <1>4

(* An item is drained; once there is none, the queue is clear.             *)
LEMMA HushDrains ==
  ASSUME Hush, Kind', NEW c \in Cancellers, DrainOne(c)
  PROVE  Hush'
<1>1. /\ pc[c] = "drain"
      /\ UNCHANGED <<cut, leaked, overlapped, discarding, hand, spoken, out>>
      /\ \/ work = <<>> /\ pc' = [pc EXCEPT ![c] = "putback"] /\ UNCHANGED <<work, keep>>
         \/ /\ work # <<>> /\ work' = Tail(work) /\ pc' = pc
            /\ keep' = IF Kept(Head(work))
                         THEN [keep EXCEPT ![c] = Append(@, Head(work))] ELSE keep
  BY DEF DrainOne, At, Go, readerOwn, posted, history, silence, callback
<1>2. /\ c \in {"reader", "watchdog"} /\ c \in Threads /\ "putback" \in Places
      /\ "reader" \in Threads /\ "engine" \in Threads /\ "watchdog" \in Threads
      /\ pc \in [Threads -> Places] /\ spoken \in Nat
  BY DEF Cancellers, Threads, Places, Hush, Kind, Fields
<1>3. /\ Unspoken' = Unspoken /\ Asked' = Asked /\ Fresh' = Fresh
  BY <1>1 DEF Unspoken, Asked, Fresh
<1>4. CASE work = <<>> /\ pc' = [pc EXCEPT ![c] = "putback"] /\ UNCHANGED <<work, keep>>
  <2>1. pc'[c] = "putback" /\ \A t \in Threads : t # c => pc'[t] = pc[t]
    BY <1>2, <1>4, Goes
  <2>2. pc'["engine"] = pc["engine"]
    BY <1>2, <2>1
  <2>3. (Busy' <=> Busy) /\ (InFeed' <=> InFeed) /\ (ResumeIsComing' <=> ResumeIsComing)
    BY <1>4, <2>2 DEF Busy, InFeed, ResumeIsComing, At
  <2>4. \A d \in Cancellers : Canceling(d)' <=> Canceling(d)
    BY <1>1, <1>2, <2>1 DEF Canceling, Cancellers
  <2>5. work' \in Seq(Fresh)
    BY <1>4
  <2>6. pc'["reader"] \in {"posting", "stop"} => pc'["reader"] = pc["reader"]
    BY <1>2, <2>1
  <2>7. Numbers'
    BY <1>1, <1>3, <1>4, <2>3, <2>5, <2>6 DEF Hush, Numbers, At
  <2>8. Quiet => Quiet'
    BY <1>1, <2>3, <2>4 DEF Quiet, Cancellers
  <2> QED
    BY <1>1, <2>7, <2>8 DEF Hush
<1>5. CASE /\ work # <<>> /\ work' = Tail(work) /\ pc' = pc
           /\ keep' = IF Kept(Head(work))
                        THEN [keep EXCEPT ![c] = Append(@, Head(work))] ELSE keep
  <2>1. (Busy' <=> Busy) /\ (InFeed' <=> InFeed)
    BY <1>5 DEF Busy, InFeed
  <2>2. \A S : work \in Seq(S) => work' \in Seq(S) /\ Head(work) \in S
    BY <1>5
  <2>3. \A x : Contains(work', x) => Contains(work, x)
    <3>1. work \in Seq(ItemType)
      BY DEF Hush, Kind, Fields
    <3> QED
      BY <1>5, <3>1 DEF Contains
  <2>4. Contains(work, Head(work))
    <3>1. work \in Seq(ItemType)
      BY DEF Hush, Kind, Fields
    <3>2. Len(work) \in Nat /\ Len(work) # 0
      BY <1>5, <3>1
    <3> QED
      BY <3>1, <3>2, <1>5 DEF Contains
  <2>5. keep' \in [Cancellers -> Seq(Unspoken)]
    <3>1. work \in Seq(ItemType) /\ keep \in [Cancellers -> Seq(Unspoken)]
      BY DEF Hush, Kind, Fields, Numbers
    <3>2. Kept(Head(work)) => Head(work) \in Unspoken
      BY <2>2 DEF Kept, Unspoken, Asked, Hush, Numbers
    <3> QED
      BY <1>5, <3>1, <3>2
  <2>6. \A d \in Cancellers : \A x : Contains(keep'[d], x) => Contains(keep[d], x) \/ x = Head(work)
    <3>1. keep[c] \in Seq(ItemType) /\ keep \in [Cancellers -> Seq(ItemType)]
      BY DEF Hush, Kind, Fields
    <3>2. \A x : Contains(Append(keep[c], Head(work)), x) => Contains(keep[c], x) \/ x = Head(work)
      BY <3>1 DEF Contains
    <3> QED
      BY <1>5, <3>1, <3>2
  <2>7. Numbers'
    BY <1>1, <1>3, <1>5, <2>1, <2>2, <2>5 DEF Hush, Numbers, At
  <2>8. ResumeIsComing' => ResumeIsComing
    BY <1>5, <2>3, <2>4, <2>6 DEF ResumeIsComing, At
  <2>9. Quiet => Quiet'
    BY <1>1, <1>5, <2>1, <2>8 DEF Quiet, Canceling
  <2> QED
    BY <1>1, <2>7, <2>9 DEF Hush
<1> QED
  BY <1>1, <1>4, <1>5

(* What was kept and the resume are put back.                              *)
LEMMA HushPutsBack ==
  ASSUME Hush, Kind', NEW c \in Cancellers, PutBack(c) \/ PutResume(c)
  PROVE  Hush'
<1>1. /\ c \in {"reader", "watchdog"} /\ c \in Threads
      /\ "reader" \in Threads /\ "engine" \in Threads /\ "watchdog" \in Threads
      /\ pc \in [Threads -> Places] /\ spoken \in Nat
      /\ {"check", "free", "closing"} \subseteq Places
  BY DEF Cancellers, Threads, Places, Hush, Kind, Fields
<1>2. keep[c] \in Seq(Unspoken) /\ keep \in [Cancellers -> Seq(Unspoken)]
  BY DEF Hush, Numbers
<1>3. CASE PutBack(c)
  <2>1. /\ pc[c] = "putback" /\ pc' = pc /\ keep[c] # <<>>
        /\ work' = Append(work, Head(keep[c]))
        /\ keep' = [keep EXCEPT ![c] = Tail(keep[c])]
        /\ UNCHANGED <<cut, leaked, overlapped, discarding, hand, spoken, out>>
    BY <1>3 DEF PutBack, At, readerOwn, posted, history, silence, callback
  <2>2. Head(keep[c]) \in Unspoken /\ Tail(keep[c]) \in Seq(Unspoken)
    BY <1>2, <2>1
  <2>3. /\ Contains(keep[c], Head(keep[c]))
        /\ \A x : Contains(Tail(keep[c]), x) => Contains(keep[c], x)
    <3>1. Len(keep[c]) \in Nat /\ Len(keep[c]) # 0
      BY <1>2, <2>1
    <3> QED
      BY <1>2, <2>1, <3>1 DEF Contains
  <2>4. /\ keep' \in [Cancellers -> Seq(Unspoken)]
        /\ \A d \in Cancellers : \A x : Contains(keep'[d], x) => Contains(keep[d], x)
    BY <1>2, <2>1, <2>2, <2>3
  <2>5. Head(keep[c]) \in Item /\ Head(keep[c]).kind # "speech"
    BY <2>2 DEF Unspoken
  <2>6. CASE Head(keep[c]) = Resume /\ Canceling("reader") /\ ~overlapped
    BY <2>3, <2>6 DEF Hush, Quiet, ResumeIsComing
  <2>7. CASE Head(keep[c]) = Resume => ~Canceling("reader")
    <3>1. Canceling("watchdog")' <=> Canceling("watchdog")
      BY <2>1 DEF Canceling
    <3> QED
      BY <2>1, <2>4, <2>5, <2>7, HushPuts
  <2>8. CASE overlapped
    <3>1. /\ Asked' = Asked /\ Fresh' = Fresh /\ Unspoken' = Unspoken
          /\ (Busy' <=> Busy) /\ (InFeed' <=> InFeed)
      BY <2>1 DEF Asked, Fresh, Unspoken, Busy, InFeed
    <3>2. Head(keep[c]) \in Asked /\ Head(keep[c]) \in Fresh
      BY <2>5 DEF Asked, Fresh
    <3>3. work' \in Seq(Asked) /\ (~At("reader", "drain") => work' \in Seq(Fresh))
      BY <2>1, <3>2 DEF Hush, Numbers
    <3>4. Numbers'
      BY <2>1, <2>4, <3>1, <3>3 DEF Hush, Numbers, At
    <3> QED
      BY <2>1, <2>8, <3>4 DEF Hush
  <2> QED
    BY <2>6, <2>7, <2>8
<1>4. CASE PutResume(c)
  <2>1. /\ pc[c] = "putback" /\ pc' = [pc EXCEPT ![c] = Onward(c)]
        /\ work' = Append(work, Resume) /\ keep' = keep
        /\ UNCHANGED <<cut, leaked, overlapped, discarding, hand, spoken, out>>
    BY <1>4 DEF PutResume, At, Go, readerOwn, posted, history, silence, callback
  <2>2. /\ Onward(c) \in {"check", "free", "closing"}
        /\ Onward(c) \in Places
    BY <1>1 DEF Onward
  <2>3. pc'[c] = Onward(c) /\ \A t \in Threads : t # c => pc'[t] = pc[t]
    BY <1>1, <2>1, <2>2, Goes
  <2>4. /\ pc'["engine"] = pc["engine"]
        /\ pc'["reader"] \notin {"posting", "stop", "drain", "putback"} \/ pc'["reader"] = pc["reader"]
        /\ pc'["watchdog"] \notin {"stop", "drain", "putback"} \/ pc'["watchdog"] = pc["watchdog"]
        /\ c = "watchdog" => pc'["reader"] = pc["reader"]
    BY <1>1, <2>2, <2>3
  <2>5. Resume.kind # "speech" /\ Resume \in Item
    BY Items DEF Resume, Item
  <2>6. Canceling(c)
    BY <2>1 DEF Canceling
  <2>7. CASE overlapped \/ ~Canceling("reader")
    <3>1. CASE ~Canceling("reader")
      <4>1. pc["reader"] = "drain" => pc'["reader"] = "drain"
        BY <3>1 DEF Canceling
      <4> QED
        BY <1>2, <2>1, <2>4, <2>5, <3>1, <4>1, HushPuts
    <3>2. CASE overlapped
      <4>1. /\ Asked' = Asked /\ Fresh' = Fresh /\ Unspoken' = Unspoken
            /\ (Busy' <=> Busy) /\ (InFeed' <=> InFeed)
        BY <2>1, <2>4 DEF Asked, Fresh, Unspoken, Busy, InFeed
      <4>2. Resume \in Asked /\ Resume \in Fresh
        BY <2>5 DEF Asked, Fresh
      <4>3. work' \in Seq(Asked) /\ (~At("reader", "drain") => work' \in Seq(Fresh))
        BY <2>1, <4>2 DEF Hush, Numbers
      <4>4. pc["reader"] = "drain" => pc'["reader"] = "drain"
        BY <1>1, <2>1, <2>3
      <4>5. Numbers'
        BY <2>1, <2>4, <1>2, <4>1, <4>3, <4>4 DEF Hush, Numbers, At
      <4> QED
        BY <2>1, <3>2, <4>5 DEF Hush
    <3> QED
      BY <2>7, <3>1, <3>2
  <2>8. CASE ~overlapped /\ Canceling("reader")
    <3>1. Quiet /\ ~Canceling("watchdog") /\ c = "reader"
      BY <1>1, <2>6, <2>8 DEF Hush, Quiet
    <3>2. pc'["reader"] \in {"check", "free", "closing"} /\ pc["reader"] = "putback"
      BY <2>1, <2>2, <2>3, <3>1
    <3>3. /\ Asked' = Asked /\ Fresh' = Fresh /\ Unspoken' = Unspoken
          /\ (Busy' <=> Busy) /\ (InFeed' <=> InFeed)
      BY <2>1, <2>4 DEF Asked, Fresh, Unspoken, Busy, InFeed
    <3>4. Resume \in Asked /\ Resume \in Fresh
      BY <2>5 DEF Asked, Fresh
    <3>5. work' \in Seq(Asked) /\ (~At("reader", "drain") => work' \in Seq(Fresh))
      BY <2>1, <3>4 DEF Hush, Numbers
    <3>6. Numbers'
      BY <2>1, <1>2, <3>2, <3>3, <3>5 DEF Hush, Numbers, At
    <3>7. Quiet'
      BY <2>1, <3>1, <3>2, <3>3 DEF Quiet, Canceling
    <3> QED
      BY <3>6, <3>7 DEF Hush
  <2> QED
    BY <2>7, <2>8
<1> QED
  BY <1>3, <1>4

(* The engine's thread takes the next item, or runs a resume.              *)
LEMMA HushGets ==
  ASSUME Hush, Kind', Get
  PROVE  Hush'
<1>1. /\ pc["engine"] = "get" /\ work # <<>>
      /\ hand' = Head(work) /\ work' = Tail(work)
      /\ pc' = [pc EXCEPT !["engine"] =
                  IF Head(work) = Closing THEN "ended" ELSE Head(work).kind]
      /\ UNCHANGED <<cut, leaked, overlapped, discarding, spoken, out, keep>>
  BY DEF Get, At, Go, readerOwn, posted, history, silence, callback
<1>2. Head(work) \in ItemType
  BY <1>1 DEF Hush, Kind, Fields
<1>3. /\ pc'["engine"] \in {"ended", "speech", "setting", "resume", "close"}
      /\ pc'["engine"] = "ended" \/ pc'["engine"] = Head(work).kind
      /\ pc'["reader"] = pc["reader"] /\ pc'["watchdog"] = pc["watchdog"]
  BY <1>1, <1>2 DEF ItemType, Hush, Kind, Fields, Threads
<1>4. /\ Asked' = Asked /\ Fresh' = Fresh /\ Unspoken' = Unspoken
      /\ Busy' <=> pc'["engine"] = "speech"
      /\ ~InFeed'
  BY <1>1, <1>3 DEF Asked, Fresh, Unspoken, Busy, InFeed
<1>5. \A S : work \in Seq(S) => work' \in Seq(S) /\ Head(work) \in S
  BY <1>1
<1>6. \A c \in Cancellers : Canceling(c)' <=> Canceling(c)
  BY <1>3 DEF Canceling, Cancellers
<1>7. Contains(work, Head(work)) /\ \A x : Contains(work', x) => Contains(work, x)
  <2>1. work \in Seq(ItemType) /\ Len(work) \in Nat /\ Len(work) # 0
    BY <1>1 DEF Hush, Kind, Fields
  <2> QED
    BY <1>1, <2>1 DEF Contains
<1>8. Busy' => hand' \in Asked
  BY <1>1, <1>5 DEF Hush, Numbers
<1>9. Numbers'
  <2>1. Busy' => hand'.n \in 1..spoken
    BY <1>1, <1>3, <1>4, <1>8 DEF Asked
  <2> QED
    BY <1>1, <1>3, <1>4, <1>5, <2>1 DEF Hush, Numbers, At
<1>10. Quiet => Quiet'
  <2>1. pc'["engine"] = "resume" => Head(work) = Resume
    <3>1. Head(work) \in Item
      BY <1>5 DEF Hush, Numbers, Asked
    <3> QED
      BY <1>3, <3>1 DEF Item
  <2>2. ResumeIsComing' => ResumeIsComing
    BY <1>1, <1>7, <2>1 DEF ResumeIsComing, At
  <2>3. Busy' /\ hand'.n <= cut => At("reader", "drain")
    <3>1. work \in Seq(Fresh) => Head(work) \in Fresh
      BY <1>5
    <3>2. Head(work) \in Fresh /\ Head(work).kind = "speech" => ~(Head(work).n <= cut)
      BY DEF Fresh, Hush, Numbers, Kind, Fields
    <3> QED
      BY <1>1, <1>3, <1>4, <3>1, <3>2 DEF Hush, Numbers
  <2>4. At("reader", "drain") => Canceling("reader")
    BY DEF At, Canceling
  <2>5. Cancellers = {"reader", "watchdog"}
    BY DEF Cancellers
  <2> QED
    BY <1>1, <1>4, <1>6, <2>2, <2>3, <2>4, <2>5 DEF Quiet
<1> QED
  BY <1>1, <1>9, <1>10 DEF Hush

(* Samples are let through again: the thread that does it has nothing in   *)
(* hand that they could be of.                                             *)
LEMMA HushResumes ==
  ASSUME Hush, Kind', RunResume
  PROVE  Hush'
<1>1. /\ pc["engine"] = "resume" /\ pc' = [pc EXCEPT !["engine"] = "get"]
      /\ UNCHANGED <<cut, leaked, overlapped, hand, spoken, out, keep, work>>
  BY DEF RunResume, At, Go, readerOwn, posted, history, silence
<1>2. /\ pc'["engine"] = "get" /\ pc'["reader"] = pc["reader"]
      /\ pc'["watchdog"] = pc["watchdog"]
  BY <1>1 DEF Threads, Hush, Kind, Fields
<1>3. /\ Asked' = Asked /\ Fresh' = Fresh /\ Unspoken' = Unspoken
      /\ ~Busy' /\ ~InFeed'
  BY <1>1, <1>2 DEF Asked, Fresh, Unspoken, Busy, InFeed
<1>4. Numbers'
  BY <1>1, <1>2, <1>3 DEF Hush, Numbers, At
<1>5. Quiet => ~Canceling("reader")
  BY <1>1 DEF Quiet, ResumeIsComing, At
<1>6. Quiet => Quiet'
  BY <1>1, <1>2, <1>3, <1>5 DEF Quiet, Canceling
<1> QED
  BY <1>1, <1>4, <1>6 DEF Hush

(* The player is called with a buffer of the utterance in hand, which is   *)
(* none of those that are to be silent.                                    *)
LEMMA HushFeeds ==
  ASSUME Hush, Kind', NEW p \in {"feed", "lastfeed"},
         pc["engine"] = "message", ~discarding,
         pc' = [pc EXCEPT !["engine"] = p], out'.of = hand.n,
         UNCHANGED <<cut, leaked, overlapped, discarding, work, keep, hand, spoken>>
  PROVE  Hush'
<1>1. /\ pc'["engine"] = p /\ pc'["reader"] = pc["reader"]
      /\ pc'["watchdog"] = pc["watchdog"]
  BY DEF Threads, Hush, Kind, Fields, Places
<1>2. /\ Asked' = Asked /\ Fresh' = Fresh /\ Unspoken' = Unspoken
      /\ Busy /\ Busy'
  BY <1>1 DEF Asked, Fresh, Unspoken, Busy
<1>3. Numbers'
  BY <1>1, <1>2 DEF Hush, Numbers, At
<1>4. ResumeIsComing' => ResumeIsComing
  BY <1>1 DEF ResumeIsComing, At
<1>5. \A c \in Cancellers : Canceling(c)' <=> Canceling(c)
  BY <1>1 DEF Canceling, Cancellers
<1>6. Quiet => Quiet'
  BY <1>2, <1>4, <1>5 DEF Quiet, Cancellers
<1> QED
  BY <1>3, <1>6 DEF Hush

(* What the library hands over is gathered, dropped, or fed.               *)
LEMMA HushHears ==
  ASSUME Hush, Kind', Message \/ Synchronized
  PROVE  Hush'
<1>1. /\ pc["engine"] = "message" /\ Busy
      /\ UNCHANGED <<cut, leaked, overlapped, discarding, work, keep, hand, spoken>>
  BY DEF Message, Synchronized, At, Busy, readerOwn, posted, silence
<1>2. "engine" \in Threads /\ {"get", "check", "idle", "message"} \subseteq Places
  BY DEF Threads, Places
<1>3. ASSUME NEW audio, NEW marks, NEW final \in BOOLEAN, Flush(audio, marks, final),
             ~discarding
      PROVE  Hush'
  <2>1. CASE EnterFeed(marks, final)
    <3>1. /\ out'.of = hand.n
          /\ \E p \in {"feed", "lastfeed"} : pc' = [pc EXCEPT !["engine"] = p]
      BY <2>1 DEF EnterFeed, Go
    <3> QED
      BY <1>1, <1>3, <3>1, HushFeeds
  <2>2. CASE NothingToFeed(marks, final)
    <3>1. \E p \in {"get", "idle", "message"} : pc' = [pc EXCEPT !["engine"] = p]
      BY <2>2 DEF NothingToFeed, AfterFlush, GoIdle, Go
    <3> QED
      BY <1>1, <1>2, <3>1, HushMoves
  <2> QED
    BY <1>3, <2>1, <2>2 DEF Flush
<1>4. CASE Message
  <2>1. \/ /\ ~discarding
           /\ \E audio, marks : Flush(audio, marks, FALSE)
        \/ pc' = pc /\ out' = out
    BY <1>4 DEF Message, Silenced
  <2>2. CASE pc' = pc /\ out' = out
    <3>1. (Busy' => Busy) /\ (InFeed' => InFeed)
      BY <2>2 DEF Busy, InFeed
    <3> QED
      BY <1>1, <2>2, <3>1, HushStands
  <2> QED
    BY <1>3, <2>1, <2>2
<1>5. CASE Synchronized
  <2>1. \/ /\ ~discarding
           /\ \E audio, marks : Flush(audio, marks, TRUE)
        \/ pc' = [pc EXCEPT !["engine"] = "get"]
    BY <1>5 DEF Synchronized, Silenced, Go
  <2>2. CASE pc' = [pc EXCEPT !["engine"] = "get"]
    BY <1>1, <1>2, <2>2, HushMoves
  <2> QED
    BY <1>3, <2>1, <2>2
<1> QED
  BY <1>4, <1>5

(* A feed comes back; at most one of them took what should be silent.      *)
LEMMA HushFed ==
  ASSUME Hush, Kind', Feed \/ FeedRaises
  PROVE  Hush'
<1>1. /\ InFeed /\ Busy
      /\ UNCHANGED <<cut, overlapped, discarding, work, keep, hand, spoken>>
      /\ leaked' = leaked \/ (out.of <= cut /\ leaked' = leaked + 1)
      /\ \E p \in {"get", "idle", "message"} : pc' = [pc EXCEPT !["engine"] = p]
  <2>1. InFeed => Busy
    BY DEF InFeed, Busy
  <2>2. \A final : AfterFlush(final) =>
          \E p \in {"get", "idle", "message"} : pc' = [pc EXCEPT !["engine"] = p]
    BY DEF AfterFlush, GoIdle, Go
  <2> QED
    BY <2>1, <2>2 DEF Feed, FeedRaises, readerOwn, posted, silence
<1>2. "engine" \in Threads /\ {"get", "idle", "message"} \subseteq Places
  BY DEF Threads, Places
<1>3. CASE leaked' = leaked
  BY <1>1, <1>2, <1>3, HushMoves
<1>4. CASE out.of <= cut /\ leaked' = leaked + 1
  <2>1. /\ pc'["engine"] \in {"get", "idle", "message"}
        /\ pc'["reader"] = pc["reader"] /\ pc'["watchdog"] = pc["watchdog"]
    BY <1>1 DEF Threads, Hush, Kind, Fields
  <2>2. /\ Asked' = Asked /\ Fresh' = Fresh /\ Unspoken' = Unspoken
        /\ ~InFeed'
    BY <1>1, <2>1 DEF Asked, Fresh, Unspoken, InFeed
  <2>3. out.of = hand.n /\ hand.n \in 1..spoken /\ cut \in Nat /\ leaked \in Nat
    BY <1>1 DEF Hush, Numbers
  <2>4. pc["reader"] # "stop"
    BY <1>4, <2>3 DEF Hush, Numbers, At
  <2>5. Numbers'
    BY <1>1, <1>4, <2>1, <2>2, <2>3, <2>4 DEF Hush, Numbers, At
  <2>6. Quiet => leaked = 0 /\ leaked' <= 1
    BY <1>1, <1>4, <2>3 DEF Quiet
  <2>7. ResumeIsComing' => ResumeIsComing
    BY <1>1, <2>1 DEF ResumeIsComing, At
  <2>8. \A c \in Cancellers : Canceling(c)' <=> Canceling(c)
    BY <2>1 DEF Canceling, Cancellers
  <2>9. Quiet => Quiet'
    BY <1>1, <2>2, <2>6, <2>7, <2>8 DEF Quiet, Cancellers
  <2> QED
    BY <1>1, <2>5, <2>9 DEF Hush
<1> QED
  BY <1>1, <1>3, <1>4

LEMMA HushInitially == Init => Hush
<1> SUFFICES ASSUME Init PROVE Hush
  OBVIOUS
<1>1. /\ pc["reader"] = "free" /\ pc["engine"] = "get" /\ pc["watchdog"] = "look"
  BY DEF Init, Threads
<1>2. ~Busy /\ ~InFeed /\ ~Canceling("reader")
  BY <1>1 DEF Busy, InFeed, Canceling
<1>3. cut = 0 /\ leaked = 0 /\ spoken = 0 /\ work = <<>>
  BY DEF Init
<1>4. keep \in [Cancellers -> Seq(Unspoken)]
  BY DEF Init
<1>5. Numbers
  BY <1>1, <1>2, <1>3, <1>4 DEF Numbers, At
<1>6. Quiet
  BY <1>2, <1>3 DEF Quiet
<1> QED
  BY <1>5, <1>6, KindInitially DEF Hush

(* The reader's own steps.                                                 *)
LEMMA HushReads ==
  ASSUME Hush, Kind', Reader
  PROVE  Hush'
<1>0. /\ "reader" \in Threads /\ "reader" \in Cancellers
      /\ spoken \in Nat /\ piece \in Nat /\ sets \in Nat
      /\ cut \in Nat /\ cut <= spoken
      /\ {"free", "posting", "closing", "join", "closed"} \subseteq Places
      /\ pc \in [Threads -> Places] /\ "engine" \in Threads /\ "watchdog" \in Threads
      /\ keep \in [Cancellers -> Seq(Unspoken)]
  BY DEF Threads, Cancellers, Hush, Numbers, Kind, Fields, Places
<1>1. CASE Speak
  <2>1. /\ pc["reader"] = "free" /\ spoken' = spoken + 1
        /\ UNCHANGED <<cut, leaked, overlapped, discarding, work, keep, hand, out>>
        /\ pc' = [pc EXCEPT !["reader"] = "posting"]
    BY <1>1 DEF Speak, At, Go, engineOwn, callback, silence
  <2>2. /\ pc'["reader"] = "posting" /\ pc'["engine"] = pc["engine"]
        /\ pc'["watchdog"] = pc["watchdog"]
    BY <1>0, <2>1, Goes
  <2>3. /\ Asked \subseteq Asked' /\ Fresh \subseteq Fresh' /\ Unspoken' = Unspoken
    BY <1>0, <2>1 DEF Asked, Fresh, Unspoken
  <2>4. (Busy' <=> Busy) /\ (InFeed' <=> InFeed)
    BY <2>2 DEF Busy, InFeed
  <2>5. work \in Seq(Asked') /\ work \in Seq(Fresh')
    <3>1. work \in Seq(Asked) /\ work \in Seq(Fresh)
      BY <2>1 DEF Hush, Numbers, At
    <3> QED
      BY <2>3, <3>1, Wider
  <2>6. Numbers'
    BY <1>0, <2>1, <2>2, <2>3, <2>4, <2>5 DEF Hush, Numbers, At
  <2>7. Quiet => Quiet'
    BY <2>1, <2>2, <2>4 DEF Quiet, Canceling, ResumeIsComing, At
  <2> QED
    BY <2>1, <2>6, <2>7 DEF Hush
<1>2. CASE Post
  <2>1. /\ pc["reader"] = "posting"
        /\ work' = Append(work, Speech(spoken, piece + 1))
        /\ UNCHANGED <<cut, leaked, overlapped, discarding, keep, hand, spoken, out>>
        /\ \E p \in {"free", "posting"} : pc' = [pc EXCEPT !["reader"] = p]
    BY <1>2 DEF Post, At, Go, history, silence, callback
  <2>2. /\ pc'["reader"] \in {"free", "posting"} /\ pc'["engine"] = pc["engine"]
        /\ pc'["watchdog"] = pc["watchdog"]
    BY <1>0, <2>1, Goes
  <2>3. /\ Speech(spoken, piece + 1) \in Item
        /\ Speech(spoken, piece + 1) # Resume
        /\ Speech(spoken, piece + 1).n = spoken
    BY <1>0, Items DEF Speech, Item, Resume
  <2>4. cut < spoken
    BY <2>1 DEF Hush, Numbers, At
  <2> QED
    BY <1>0, <2>1, <2>2, <2>3, <2>4, HushPuts
<1>3. CASE Control
  <2>1. /\ work' = Append(work, Setting(sets + 1)) /\ pc["reader"] = "free"
        /\ UNCHANGED <<cut, leaked, overlapped, discarding, keep, hand, spoken, out, pc>>
    BY <1>3 DEF Control, At, history, silence, callback
  <2>2. /\ Setting(sets + 1) \in Item /\ Setting(sets + 1) # Resume
        /\ Setting(sets + 1).kind = "setting"
    BY <1>0, Items DEF Setting, Item, Resume
  <2> QED
    BY <1>0, <2>1, <2>2, HushPuts
<1>4. CASE Pause
  <2>1. UNCHANGED <<cut, leaked, overlapped, discarding, work, keep, hand, spoken, out, pc>>
    BY <1>4 DEF Pause, history, silence, callback
  <2>2. (Busy' <=> Busy) /\ (InFeed' <=> InFeed)
    BY <2>1 DEF Busy, InFeed
  <2> QED
    BY <2>1, <2>2, HushStands
<1>5. CASE Cancel \/ Close
  <2>1. /\ Discard("reader")
        /\ UNCHANGED <<work, keep, hand, out, spoken>>
    BY <1>5 DEF Cancel, Close, engineOwn, callback
  <2> QED
    BY <1>0, <2>1, HushDiscards
<1>6. CASE PutSentinel
  <2>1. /\ work' = Append(work, Closing) /\ pc["reader"] = "closing"
        /\ pc' = [pc EXCEPT !["reader"] = "join"]
        /\ UNCHANGED <<cut, leaked, overlapped, discarding, keep, hand, spoken, out>>
    BY <1>6 DEF PutSentinel, At, Go, readerOwn, posted, history, silence, callback
  <2>2. /\ pc'["reader"] = "join" /\ pc'["engine"] = pc["engine"]
        /\ pc'["watchdog"] = pc["watchdog"]
    BY <1>0, <2>1, Goes
  <2>3. Closing \in Item /\ Closing # Resume /\ Closing.kind = "close"
    BY Items DEF Closing, Item, Resume
  <2> QED
    BY <1>0, <2>1, <2>2, <2>3, HushPuts
<1>7. CASE Join \/ GiveUp
  <2>1. /\ pc["reader"] = "join" /\ pc' = [pc EXCEPT !["reader"] = "closed"]
        /\ UNCHANGED <<cut, leaked, overlapped, discarding, work, keep, hand, spoken, out>>
    BY <1>7 DEF Join, GiveUp, At, Go, readerOwn, posted, history, silence, callback
  <2> QED
    BY <1>0, <2>1, HushMoves
<1>8. CASE Canceler("reader")
  BY <1>0, <1>8, HushStops, HushDrains, HushPutsBack DEF Canceler
<1> QED
  BY <1>1, <1>2, <1>3, <1>4, <1>5, <1>6, <1>7, <1>8 DEF Reader

(* Everybody's steps.                                                      *)
LEMMA HushKept ==
  ASSUME Hush, Kind', [Next]_vars
  PROVE  Hush'
<1>0. /\ "engine" \in Threads /\ "watchdog" \in Threads /\ "watchdog" \in Cancellers
      /\ {"get", "look", "judge", "ended", "check", "set", "tell", "message"} \subseteq Places
  BY DEF Threads, Cancellers, Places
<1>1. ASSUME NEW t \in {"engine", "watchdog"}, Teller(t) PROVE Hush'
  <2>1. /\ UNCHANGED <<cut, leaked, overlapped, discarding, work, keep, hand, spoken, out>>
        /\ \E p \in {"get", "look", "set", "tell"} : pc' = [pc EXCEPT ![t] = p]
    BY <1>1 DEF Teller, Check, SetFinished, Tell, Go, Back, readerOwn, posted,
       engineOwn, callback, history, silence
  <2> QED
    BY <1>0, <1>1, <2>1, HushMoves
<1>2. CASE Engine
  <2>1. CASE RunSetting \/ SkipSpeech \/ StartSpeaking \/ Idle
    <3>1. /\ UNCHANGED <<cut, leaked, overlapped, discarding, work, keep, hand, spoken>>
          /\ \/ \E p \in {"get", "check"} : pc' = [pc EXCEPT !["engine"] = p]
             \/ pc["engine"] = "speech" /\ pc' = [pc EXCEPT !["engine"] = "message"]
      BY <2>1 DEF RunSetting, SkipSpeech, StartSpeaking, Idle, At, Go, readerOwn, posted,
         engineOwn, callback, history, silence
    <3>2. pc["engine"] = "speech" => Busy
      BY DEF Busy
    <3> QED
      BY <1>0, <3>1, <3>2, HushMoves
  <2> QED
    BY <1>1, <1>2, <2>1, HushGets, HushResumes, HushHears, HushFed DEF Engine
<1>3. CASE Watchdog
  <2>1. CASE Look \/ StopWatching
    <3>1. /\ UNCHANGED <<cut, leaked, overlapped, discarding, work, keep, hand, spoken, out>>
          /\ \E p \in {"judge", "ended"} : pc' = [pc EXCEPT !["watchdog"] = p]
      BY <2>1 DEF Look, StopWatching, Go, readerOwn, posted, callback, history, silence
    <3> QED
      BY <1>0, <3>1, HushMoves
  <2>2. CASE Judge
    <3>1. UNCHANGED <<work, keep, hand, spoken, out>>
      BY <2>2 DEF Judge, readerOwn, posted, engineOwn, callback
    <3>2. \/ Discard("watchdog")
          \/ /\ UNCHANGED <<cut, leaked, overlapped, discarding>>
             /\ pc' = [pc EXCEPT !["watchdog"] = "look"]
      BY <2>2 DEF Judge, Go, silence
    <3> QED
      BY <1>0, <3>1, <3>2, HushMoves, HushDiscards
  <2>3. CASE Canceler("watchdog")
    BY <1>0, <2>3, HushStops, HushDrains, HushPutsBack DEF Canceler
  <2> QED
    BY <1>1, <1>3, <2>1, <2>2, <2>3 DEF Watchdog
<1>4. CASE Play \/ Stall \/ TimePasses \/ Rest \/ UNCHANGED vars
  <2>1. UNCHANGED <<cut, leaked, overlapped, discarding, work, keep, hand, spoken, out, pc>>
    BY <1>4 DEF Play, Stall, TimePasses, Rest, vars, readerOwn, posted, engineOwn,
       callback, history, silence
  <2>2. (Busy' <=> Busy) /\ (InFeed' <=> InFeed)
    BY <2>1 DEF Busy, InFeed
  <2> QED
    BY <2>1, <2>2, HushStands
<1> QED
  BY <1>2, <1>3, <1>4, HushReads DEF Next

LEMMA HushStep == Hush /\ [Next]_vars => Hush'
<1>1. Hush /\ [Next]_vars => Kind'
  BY KindKept DEF Hush
<1> QED
  BY <1>1, HushKept

(* What the reader's cancel asked to be silent stays so, but for the one   *)
(* buffer that is on its way into the player, however long the script, the *)
(* player and the reader's patience are, where the resume of no other      *)
(* cancel comes between that cancel's steps.                               *)
THEOREM WhatIsCancelledStaysSilent == Spec => []SilenceHolds
<1>1. Hush => SilenceHolds
  BY DEF Hush, Quiet, SilenceHolds
<1>2. Hush /\ [Next]_vars => Hush'
  BY HushStep
<1> QED
  BY <1>1, <1>2, HushInitially, PTL DEF Spec

-----------------------------------------------------------------------------
(* The order of what is said.                                              *)

(* One item is speech of an earlier utterance than the other, or of an     *)
(* earlier piece of the same.                                              *)
Before(a, b) ==
  a.kind = "speech" /\ b.kind = "speech" =>
    a.n < b.n \/ (a.n = b.n /\ a.piece < b.piece)
Sorted(q) == \A i, j \in 1..Len(q) : i < j => Before(q[i], q[j])

(* What has been posted so far is of the script.                           *)
Written ==
  {x \in ItemType : x.kind = "speech" =>
     /\ x.n \in 1..spoken
     /\ x.piece \in 1..Len(Script[x.n])
     /\ x.n = spoken /\ At("reader", "posting") => x.piece <= piece}

Begun == pc["engine"] \in {"message", "feed", "lastfeed", "idle", "check", "set", "tell"}
InHand == Begun \/ At("engine", "speech")
Ending == pc["engine"] \in {"idle", "check", "set", "tell"}

(* Speech is on the queue in the order of the script, behind what is in    *)
(* hand and before what is still to be posted.                             *)
Lined ==
  /\ spoken <= Len(Script)
  /\ At("reader", "posting") => spoken >= 1 /\ piece < Len(Script[spoken])
  /\ work \in Seq(Written)
  /\ Sorted(work)
  /\ InHand => /\ hand \in Written /\ hand.kind = "speech"
               /\ \A i \in 1..Len(work) : Before(hand, work[i])
  /\ Begun => flight = hand.n
  /\ Ending => LastPiece
  /\ flight \in 0..spoken

LEMMA SortedBehind ==
  ASSUME NEW q \in Seq(ItemType), NEW a, Sorted(q),
         \A i \in 1..Len(q) : Before(q[i], a)
  PROVE  Sorted(Append(q, a))
<1> SUFFICES ASSUME NEW i \in 1..Len(Append(q, a)), NEW j \in 1..Len(Append(q, a)), i < j
             PROVE  Before(Append(q, a)[i], Append(q, a)[j])
  BY DEF Sorted
<1>1. /\ Len(q) \in Nat /\ Len(Append(q, a)) = Len(q) + 1
      /\ \A k \in 1..Len(q) : Append(q, a)[k] = q[k]
      /\ Append(q, a)[Len(q) + 1] = a
  OBVIOUS
<1>2. i \in 1..Len(q) /\ (j \in 1..Len(q) \/ j = Len(q) + 1)
  BY <1>1
<1> QED
  BY <1>1, <1>2 DEF Sorted

LEMMA SortedTail ==
  ASSUME NEW q \in Seq(ItemType), q # <<>>, Sorted(q)
  PROVE  /\ Sorted(Tail(q))
         /\ \A i \in 1..Len(Tail(q)) : Before(Head(q), Tail(q)[i])
         /\ \A i \in 1..Len(Tail(q)) : \E j \in 1..Len(q) : Tail(q)[i] = q[j]
<1>1. /\ Len(q) \in Nat /\ Len(q) >= 1 /\ Len(Tail(q)) = Len(q) - 1
      /\ \A k \in 1..(Len(q) - 1) : Tail(q)[k] = q[k + 1]
      /\ Head(q) = q[1]
  OBVIOUS
<1>2. \A i \in 1..Len(Tail(q)) : i + 1 \in 1..Len(q) /\ Tail(q)[i] = q[i + 1] /\ 1 < i + 1
  BY <1>1
<1>3. \A i, j \in 1..Len(Tail(q)) : i < j => i + 1 < j + 1
  BY <1>1
<1>4. Sorted(Tail(q))
  BY <1>2, <1>3 DEF Sorted
<1>5. 1 \in 1..Len(q)
  BY <1>1
<1> QED
  BY <1>1, <1>2, <1>4, <1>5 DEF Sorted

(* What the script says of what is in it.                                  *)
LEMMA ScriptTypes ==
  /\ Len(Script) \in Nat
  /\ \A u \in 1..Len(Script) :
       /\ Script[u] \in Seq(Pieces)
       /\ Len(Script[u]) \in Nat /\ Len(Script[u]) >= 1
       /\ \A p \in 1..Len(Script[u]) :
            /\ Script[u][p] \in Pieces
            /\ Len(Script[u][p]) \in Nat
            /\ \A i \in 1..Len(Script[u][p]) :
                 Script[u][p][i] \in [size : 0..FEED_AT, mark : Nat]
<1>1. Script \in Seq(Seq(Pieces) \ {<<>>})
  BY ScriptAssumption
<1>2. Len(Script) \in Nat /\ \A u \in 1..Len(Script) : Script[u] \in Seq(Pieces) \ {<<>>}
  BY <1>1
<1>3. ASSUME NEW q \in Seq(Pieces), q # <<>>
      PROVE  Len(q) \in Nat /\ Len(q) >= 1 /\ \A p \in 1..Len(q) : q[p] \in Pieces
  BY <1>3
<1>4. ASSUME NEW q \in Pieces
      PROVE  Len(q) \in Nat /\ \A i \in 1..Len(q) : q[i] \in [size : 0..FEED_AT, mark : Nat]
  <2>1. \A S : q \in Seq(S) => Len(q) \in Nat /\ \A i \in 1..Len(q) : q[i] \in S
    OBVIOUS
  <2> QED
    BY <2>1, <1>4, Zenon DEF Pieces
<1> QED
  BY <1>2, <1>3, <1>4

(* A step that posts nothing, takes nothing and begins nothing.            *)
LEMMA LinedStands ==
  ASSUME Kind, Lined,
         UNCHANGED <<spoken, piece, work, hand, flight>>,
         At("reader", "posting")' => At("reader", "posting"),
         InHand' => InHand, Begun' => Begun, Ending' => Ending \/ LastPiece
  PROVE  Lined'
<1>1. Written \subseteq Written'
  BY DEF Written
<1>2. work' \in Seq(Written')
  BY <1>1, Wider DEF Lined
<1>3. LastPiece' <=> LastPiece
  BY DEF LastPiece
<1> QED
  BY <1>1, <1>2, <1>3 DEF Lined

LEMMA LinedMoves ==
  ASSUME Kind, Lined, NEW t \in Threads, NEW p \in Places,
         pc' = [pc EXCEPT ![t] = p],
         UNCHANGED <<spoken, piece, work, hand, flight>>,
         t = "reader" => p # "posting",
         t = "engine" => \/ p \notin {"speech", "message", "feed", "lastfeed",
                                      "idle", "check", "set", "tell"}
                         \/ Begun /\ (p \in {"message", "feed", "lastfeed"} \/ Ending \/ LastPiece)
  PROVE  Lined'
<1>1. /\ pc'[t] = p /\ \A u \in Threads : u # t => pc'[u] = pc[u]
      /\ \A u : u \in Threads <=> u = "reader" \/ u = "engine" \/ u = "watchdog"
  BY Goes DEF Kind, Fields, Threads
<1>2. At("reader", "posting")' => At("reader", "posting")
  BY <1>1 DEF At
<1>3. /\ InHand' => InHand
      /\ Begun' => Begun
      /\ Ending' => Ending \/ LastPiece
  <2>1. CASE t = "engine"
    BY <1>1, <2>1 DEF InHand, Begun, Ending, At
  <2>2. CASE t # "engine"
    BY <1>1, <2>2 DEF InHand, Begun, Ending, At
  <2> QED
    BY <2>1, <2>2
<1> QED
  BY <1>2, <1>3, LinedStands

(* A step that puts something on the queue which is no speech, or takes    *)
(* its head off it.                                                        *)
LEMMA LinedQueue ==
  ASSUME Kind, Lined,
         UNCHANGED <<spoken, piece, hand, flight>>,
         pc'["engine"] = pc["engine"],
         At("reader", "posting")' => At("reader", "posting"),
         \/ \E item \in ItemType : item.kind # "speech" /\ work' = Append(work, item)
         \/ work # <<>> /\ work' = Tail(work)
  PROVE  Lined'
<1>1. Written \subseteq Written'
  BY DEF Written
<1>2. (LastPiece' <=> LastPiece) /\ (InHand' <=> InHand) /\ (Begun' <=> Begun)
      /\ (Ending' <=> Ending)
  BY DEF LastPiece, InHand, Begun, Ending, At
<1>3. work \in Seq(ItemType) /\ Len(work) \in Nat
  BY DEF Kind, Fields
<1>4. /\ work' \in Seq(Written)
      /\ Sorted(work')
      /\ InHand => \A i \in 1..Len(work') : Before(hand, work'[i])
  <2>1. ASSUME NEW item \in ItemType, item.kind # "speech", work' = Append(work, item)
        PROVE  /\ work' \in Seq(Written)
               /\ Sorted(work')
               /\ InHand => \A i \in 1..Len(work') : Before(hand, work'[i])
    <3>1. \A x : Before(x, item)
      BY <2>1 DEF Before
    <3>2. Sorted(work')
      BY <1>3, <2>1, <3>1, SortedBehind DEF Lined
    <3>3. item \in Written
      BY <2>1 DEF Written
    <3>4. \A i \in 1..Len(work') : (i \in 1..Len(work) /\ work'[i] = work[i]) \/ work'[i] = item
      BY <1>3, <2>1
    <3>5. work' \in Seq(Written)
      BY <2>1, <3>3 DEF Lined
    <3> QED
      BY <3>1, <3>2, <3>4, <3>5 DEF Lined
  <2>2. CASE work # <<>> /\ work' = Tail(work)
    <3>1. Sorted(work') /\ \A i \in 1..Len(work') : \E j \in 1..Len(work) : work'[i] = work[j]
      BY <1>3, <2>2, SortedTail DEF Lined
    <3>2. work' \in Seq(Written)
      BY <2>2 DEF Lined
    <3> QED
      BY <3>1, <3>2 DEF Lined
  <2> QED
    BY <2>1, <2>2
<1>5. work' \in Seq(Written')
  BY <1>1, <1>4, Wider
<1>6. InHand => hand \in Written'
  BY <1>1 DEF Lined
<1> QED
  BY <1>2, <1>4, <1>5, <1>6 DEF Lined

(* A piece is posted behind all the others.                                *)
LEMMA LinedPosts ==
  ASSUME Kind, Lined, Post
  PROVE  Lined'
<1>1. /\ pc["reader"] = "posting" /\ piece' = piece + 1
      /\ work' = Append(work, Speech(spoken, piece + 1))
      /\ pc' = [pc EXCEPT !["reader"] =
                  IF piece + 1 = Len(Script[spoken]) THEN "free" ELSE "posting"]
      /\ UNCHANGED <<hand, spoken, flight>>
  BY DEF Post, At, Go, history, told, callback
<1>2. /\ pc'["engine"] = pc["engine"]
      /\ pc'["reader"] = "posting" => piece + 1 # Len(Script[spoken])
  BY <1>1 DEF Kind, Fields, Threads
<1>3. /\ work \in Seq(ItemType) /\ Len(work) \in Nat
      /\ spoken \in Nat /\ piece \in Nat /\ spoken \in 1..Len(Script)
      /\ Len(Script) \in Nat /\ Len(Script[spoken]) \in Nat
      /\ piece < Len(Script[spoken])
  <2>1. /\ spoken \in Nat /\ Len(Script) \in Nat /\ spoken >= 1 /\ spoken <= Len(Script)
        /\ piece < Len(Script[spoken])
    BY <1>1, ScriptTypes DEF Kind, Fields, Lined, At
  <2> QED
    BY <2>1, ScriptTypes DEF Kind, Fields
<1>4. (LastPiece' <=> LastPiece) /\ (InHand' <=> InHand) /\ (Begun' <=> Begun)
      /\ (Ending' <=> Ending)
  BY <1>1, <1>2 DEF LastPiece, InHand, Begun, Ending, At
<1> DEFINE new == Speech(spoken, piece + 1)
<1>5. new \in ItemType /\ new.kind = "speech" /\ new.n = spoken /\ new.piece = piece + 1
  BY <1>3, Items DEF Speech
<1>6. new \in Written'
  BY <1>1, <1>3, <1>5 DEF Written
<1>7. \A x \in Written : x \in Written' /\ Before(x, new)
  BY <1>1, <1>3, <1>5 DEF Written, Before, At
<1> HIDE DEF new
<1>8. \A i \in 1..Len(work) : work[i] \in Written
  BY DEF Lined
<1>9. work' \in Seq(Written')
  <2>1. work \in Seq(Written')
    BY <1>7, Wider DEF Lined
  <2> QED
    BY <1>1, <1>6, <2>1 DEF new
<1>10. Sorted(work')
  <2>1. work' = Append(work, new)
    BY <1>1 DEF new
  <2> QED
    BY <1>3, <1>7, <1>8, <2>1, SortedBehind DEF Lined
<1>11. InHand => hand \in Written' /\ \A i \in 1..Len(work') : Before(hand, work'[i])
  <2>1. \A i \in 1..Len(work') : (i \in 1..Len(work) /\ work'[i] = work[i]) \/ work'[i] = new
    BY <1>1, <1>3 DEF new
  <2> QED
    BY <1>7, <2>1 DEF Lined
<1>12. At("reader", "posting")' => spoken' >= 1 /\ piece' < Len(Script[spoken'])
  BY <1>1, <1>2, <1>3 DEF At
<1> QED
  BY <1>1, <1>4, <1>9, <1>10, <1>11, <1>12 DEF Lined

(* The reader begins to post the next utterance.                           *)
LEMMA LinedSpeaks ==
  ASSUME Kind, Lined, Speak
  PROVE  Lined'
<1>1. /\ pc["reader"] = "free" /\ spoken < Len(Script)
      /\ spoken' = spoken + 1 /\ piece' = 0
      /\ pc' = [pc EXCEPT !["reader"] = "posting"]
      /\ UNCHANGED <<work, hand, flight>>
  BY DEF Speak, At, Go, told, engineOwn
<1>2. /\ pc'["engine"] = pc["engine"] /\ pc'["reader"] = "posting"
  BY <1>1 DEF Kind, Fields, Threads, Places
<1>3. /\ spoken \in Nat /\ Len(Script) \in Nat /\ spoken + 1 \in 1..Len(Script)
      /\ Len(Script[spoken + 1]) >= 1
  <2>1. spoken \in Nat /\ Len(Script) \in Nat /\ spoken + 1 \in 1..Len(Script)
    BY <1>1, ScriptTypes DEF Kind, Fields
  <2> QED
    BY <2>1, ScriptTypes
<1>4. (LastPiece' <=> LastPiece) /\ (InHand' <=> InHand) /\ (Begun' <=> Begun)
      /\ (Ending' <=> Ending)
  BY <1>1, <1>2 DEF LastPiece, InHand, Begun, Ending, At
<1>5. Written \subseteq Written'
  BY <1>1, <1>3 DEF Written
<1>6. work' \in Seq(Written')
  BY <1>1, <1>5, Wider DEF Lined
<1> QED
  BY <1>1, <1>3, <1>4, <1>5, <1>6 DEF Lined

(* The engine's thread takes the head of the queue.                        *)
LEMMA LinedGets ==
  ASSUME Kind, Lined, Get
  PROVE  Lined'
<1>1. /\ work # <<>> /\ hand' = Head(work) /\ work' = Tail(work)
      /\ pc' = [pc EXCEPT !["engine"] =
                  IF Head(work) = Closing THEN "ended" ELSE Head(work).kind]
      /\ UNCHANGED <<spoken, piece, flight>>
  BY DEF Get, Go, readerOwn, posted, history, told
<1>2. work \in Seq(ItemType) /\ Head(work) \in ItemType /\ Head(work) \in Written
  BY <1>1 DEF Lined, Kind, Fields
<1>3. /\ pc'["engine"] \in {"ended", "speech", "setting", "resume", "close"}
      /\ pc'["engine"] = "ended" \/ pc'["engine"] = Head(work).kind
      /\ pc'["reader"] = pc["reader"]
  BY <1>1, <1>2 DEF ItemType, Kind, Fields, Threads
<1>4. /\ Written' = Written
      /\ ~Begun' /\ ~Ending'
      /\ InHand' => Head(work).kind = "speech"
  BY <1>1, <1>3 DEF Written, Begun, Ending, InHand, At
<1>5. /\ Sorted(work') /\ \A i \in 1..Len(work') : Before(hand', work'[i])
  BY <1>1, <1>2, SortedTail DEF Lined
<1>6. work' \in Seq(Written)
  BY <1>1 DEF Lined
<1> QED
  BY <1>1, <1>2, <1>3, <1>4, <1>5, <1>6 DEF Lined, At

(* A piece is submitted: its utterance is the one in flight.               *)
LEMMA LinedStarts ==
  ASSUME Kind, Lined, StartSpeaking
  PROVE  Lined'
<1>1. /\ pc["engine"] = "speech" /\ flight' = hand.n
      /\ UNCHANGED <<spoken, piece, work, hand>>
      /\ \/ pc' = [pc EXCEPT !["engine"] = "message"]
         \/ pc' = [pc EXCEPT !["engine"] = IF LastPiece THEN "check" ELSE "get"]
  BY DEF StartSpeaking, At, Go, readerOwn, posted
<1>2. /\ pc'["reader"] = pc["reader"]
      /\ pc'["engine"] \in {"message", "check", "get"}
      /\ pc'["engine"] = "check" => LastPiece
  BY <1>1 DEF Kind, Fields, Threads
<1>3. /\ Written' = Written
      /\ (Ending' => LastPiece) /\ (LastPiece' <=> LastPiece) /\ InHand
  BY <1>1, <1>2 DEF Written, Ending, InHand, LastPiece, At
<1>4. hand.n \in 0..spoken
  BY <1>3 DEF Lined, Written, Kind, Fields
<1> QED
  BY <1>1, <1>2, <1>3, <1>4 DEF Lined, At

LEMMA LinedInitially == Init => Lined
<1> SUFFICES ASSUME Init PROVE Lined
  OBVIOUS
<1>1. /\ pc["reader"] = "free" /\ pc["engine"] = "get"
  BY DEF Init, Threads
<1>2. ~InHand /\ ~Begun /\ ~Ending /\ ~At("reader", "posting")
  BY <1>1 DEF InHand, Begun, Ending, At
<1>3. spoken = 0 /\ flight = 0 /\ work = <<>>
  BY DEF Init
<1>4. Sorted(work)
  BY <1>3 DEF Sorted
<1> QED
  BY <1>2, <1>3, <1>4, ScriptTypes DEF Lined

(* The steps of a cancel put no speech back.                               *)
LEMMA LinedCancels ==
  ASSUME Hush, Lined, NEW c \in Cancellers, Canceler(c)
  PROVE  Lined'
<1>1. /\ c \in Threads /\ c # "engine" /\ "engine" \in Threads /\ "reader" \in Threads
      /\ {"drain", "putback", "check", "free", "closing"} \subseteq Places
      /\ pc \in [Threads -> Places] /\ Kind
  BY DEF Cancellers, Threads, Places, Hush, Kind, Fields
<1>2. UNCHANGED <<spoken, piece, hand, flight>>
  BY DEF Canceler, Stop, DrainOne, PutBack, PutResume, readerOwn, posted, engineOwn,
     history, told
<1>3. CASE Stop(c)
  BY <1>1, <1>2, <1>3, LinedMoves DEF Stop, Go
<1>4. CASE DrainOne(c)
  <2>1. CASE work = <<>>
    BY <1>1, <1>2, <1>4, <2>1, LinedMoves DEF DrainOne, Go
  <2>2. CASE work # <<>>
    <3>1. work' = Tail(work) /\ pc' = pc
      BY <1>4, <2>2 DEF DrainOne
    <3> QED
      BY <1>1, <1>2, <2>2, <3>1, LinedQueue DEF At
  <2> QED
    BY <2>1, <2>2
<1>5. CASE PutBack(c)
  <2>1. /\ keep[c] # <<>> /\ work' = Append(work, Head(keep[c])) /\ pc' = pc
        /\ keep[c] \in Seq(Unspoken)
    BY <1>5 DEF PutBack, Hush, Numbers
  <2>2. Head(keep[c]) \in ItemType /\ Head(keep[c]).kind # "speech"
    BY <2>1 DEF Unspoken, Item
  <2> QED
    BY <1>1, <1>2, <2>1, <2>2, LinedQueue DEF At
<1>6. CASE PutResume(c)
  <2>1. /\ work' = Append(work, Resume) /\ pc' = [pc EXCEPT ![c] = Onward(c)]
        /\ Onward(c) \in {"check", "free", "closing"} /\ Onward(c) \in Places
    BY <1>1, <1>6 DEF PutResume, Go, Onward
  <2>2. /\ pc'["engine"] = pc["engine"]
        /\ At("reader", "posting")' => At("reader", "posting")
    BY <1>1, <2>1 DEF At
  <2>3. Resume \in ItemType /\ Resume.kind # "speech"
    BY Items DEF Resume
  <2> QED
    BY <1>1, <1>2, <2>1, <2>2, <2>3, LinedQueue
<1> QED
  BY <1>3, <1>4, <1>5, <1>6 DEF Canceler

(* Where the engine's thread goes once it has flushed.                     *)
LEMMA Flushed ==
  ASSUME NEW final \in BOOLEAN
  PROVE  /\ AfterFlush(final) =>
              \/ final /\ LastPiece /\ pc' = [pc EXCEPT !["engine"] = "idle"]
              \/ final /\ ~LastPiece /\ pc' = [pc EXCEPT !["engine"] = "get"]
              \/ ~final /\ pc' = [pc EXCEPT !["engine"] = "message"]
         /\ \A audio, marks : Flush(audio, marks, final) =>
              \/ final /\ LastPiece /\ pc' = [pc EXCEPT !["engine"] = "idle"]
              \/ final /\ ~LastPiece /\ pc' = [pc EXCEPT !["engine"] = "get"]
              \/ ~final /\ pc' = [pc EXCEPT !["engine"] = "message"]
              \/ ~final /\ pc' = [pc EXCEPT !["engine"] = "feed"]
              \/ final /\ pc' = [pc EXCEPT !["engine"] = "lastfeed"]
BY DEF AfterFlush, GoIdle, Go, Flush, EnterFeed, NothingToFeed

LEMMA LinedKept ==
  ASSUME Hush, Lined, [Next]_vars
  PROVE  Lined'
<1>0. /\ "engine" \in Threads /\ "watchdog" \in Threads /\ "reader" \in Threads
      /\ {"get", "look", "judge", "ended", "check", "set", "tell", "message", "feed",
          "lastfeed", "idle", "stop", "join", "closed", "free"} \subseteq Places
      /\ Cancellers = {"reader", "watchdog"} /\ Kind
  BY DEF Threads, Cancellers, Places, Hush
<1>1. ASSUME NEW t \in {"engine", "watchdog"}, Teller(t) PROVE Lined'
  <2>1. /\ UNCHANGED <<spoken, piece, work, hand, flight>>
        /\ \E p \in {"get", "look", "set", "tell"} : pc' = [pc EXCEPT ![t] = p]
        /\ pc[t] \in {"check", "set", "tell"}
    BY <1>1 DEF Teller, Check, SetFinished, Tell, At, Go, Back, readerOwn, posted,
       engineOwn, callback, history, told
  <2>2. t = "engine" => Begun /\ Ending
    BY <2>1 DEF Begun, Ending
  <2> QED
    BY <1>0, <1>1, <2>1, <2>2, LinedMoves
<1>2. CASE Reader
  <2>1. CASE Control \/ PutSentinel
    <3>1. /\ UNCHANGED <<spoken, piece, hand, flight>>
          /\ \/ work' = Append(work, Setting(sets + 1)) /\ pc' = pc
             \/ work' = Append(work, Closing) /\ pc' = [pc EXCEPT !["reader"] = "join"]
      BY <2>1 DEF Control, PutSentinel, Go, readerOwn, posted, history, told
    <3>2. /\ Setting(sets + 1) \in ItemType /\ Closing \in ItemType
          /\ Setting(sets + 1).kind # "speech" /\ Closing.kind # "speech"
      BY <1>0, Items DEF Kind, Fields, Setting, Closing
    <3>3. /\ pc'["engine"] = pc["engine"]
          /\ At("reader", "posting")' => At("reader", "posting")
      BY <1>0, <3>1 DEF Kind, Fields, At
    <3> QED
      BY <1>0, <3>1, <3>2, <3>3, LinedQueue
  <2>2. CASE Pause
    <3>1. UNCHANGED <<spoken, piece, work, hand, flight, pc>>
      BY <2>2 DEF Pause, history, told
    <3> QED
      BY <1>0, <3>1, LinedStands DEF InHand, Begun, Ending, At
  <2>3. CASE Cancel \/ Close \/ Join \/ GiveUp
    <3>1. /\ UNCHANGED <<spoken, piece, work, hand, flight>>
          /\ \E p \in {"stop", "closed"} : pc' = [pc EXCEPT !["reader"] = p]
      BY <2>3 DEF Cancel, Close, Join, GiveUp, Discard, Go, readerOwn, posted, engineOwn,
         history, told
    <3> QED
      BY <1>0, <3>1, LinedMoves
  <2> QED
    BY <1>0, <1>2, <2>1, <2>2, <2>3, LinedSpeaks, LinedPosts, LinedCancels DEF Reader
<1>3. CASE Engine
  <2>1. CASE RunSetting \/ RunResume \/ SkipSpeech
    <3>1. /\ UNCHANGED <<spoken, piece, work, hand, flight>>
          /\ pc' = [pc EXCEPT !["engine"] = "get"]
      BY <2>1 DEF RunSetting, RunResume, SkipSpeech, Go, readerOwn, posted, history, told
    <3> QED
      BY <1>0, <3>1, LinedMoves
  <2>2. CASE Message \/ Synchronized
    <3>1. /\ UNCHANGED <<spoken, piece, work, hand, flight>>
          /\ pc["engine"] = "message"
          /\ \/ pc' = pc
             \/ \E audio, marks : \E final \in BOOLEAN : Flush(audio, marks, final)
             \/ pc' = [pc EXCEPT !["engine"] = "get"]
      BY <2>2 DEF Message, Synchronized, At, Go, readerOwn, posted, told
    <3>2. CASE pc' = pc
      BY <1>0, <3>1, <3>2, LinedStands DEF InHand, Begun, Ending, At
    <3>3. Begun
      BY <3>1 DEF Begun
    <3> QED
      BY <1>0, <3>1, <3>2, <3>3, Flushed, LinedMoves
  <2>3. CASE Feed \/ FeedRaises
    <3>1. /\ UNCHANGED <<spoken, piece, work, hand, flight>>
          /\ InFeed /\ AfterFlush(At("engine", "lastfeed"))
      BY <2>3 DEF Feed, FeedRaises, readerOwn, posted, told
    <3>2. Begun /\ At("engine", "lastfeed") \in BOOLEAN
      BY <3>1 DEF Begun, InFeed, At
    <3> QED
      BY <1>0, <3>1, <3>2, Flushed, LinedMoves
  <2>4. CASE Idle
    <3>1. /\ UNCHANGED <<spoken, piece, work, hand, flight>>
          /\ pc["engine"] = "idle" /\ pc' = [pc EXCEPT !["engine"] = "check"]
      BY <2>4 DEF Idle, At, Go, readerOwn, posted, history, told
    <3>2. Begun /\ Ending
      BY <3>1 DEF Begun, Ending
    <3> QED
      BY <1>0, <3>1, <3>2, LinedMoves
  <2> QED
    BY <1>0, <1>1, <1>3, <2>1, <2>2, <2>3, <2>4, LinedGets, LinedStarts DEF Engine
<1>4. CASE Watchdog
  <2>1. CASE Look \/ StopWatching \/ Judge
    <3>1. /\ UNCHANGED <<spoken, piece, work, hand, flight>>
          /\ \E p \in {"judge", "ended", "look", "stop"} : pc' = [pc EXCEPT !["watchdog"] = p]
      BY <2>1 DEF Look, StopWatching, Judge, Discard, Go, readerOwn, posted, engineOwn,
         history, told
    <3> QED
      BY <1>0, <3>1, LinedMoves
  <2> QED
    BY <1>0, <1>1, <1>4, <2>1, LinedCancels DEF Watchdog
<1>5. CASE Play \/ Stall \/ TimePasses \/ Rest \/ UNCHANGED vars
  <2>1. UNCHANGED <<spoken, piece, work, hand, flight, pc>>
    BY <1>5 DEF Play, Stall, TimePasses, Rest, vars, readerOwn, posted, engineOwn,
       history, told
  <2> QED
    BY <1>0, <2>1, LinedStands DEF InHand, Begun, Ending, At
<1> QED
  BY <1>2, <1>3, <1>4, <1>5 DEF Next

-----------------------------------------------------------------------------
(* The end of an utterance after its sound.                                *)

Buffers == [of : Nat, marks : Seq(Nat)]

(* A mark has been reported, or hangs on a buffer that is on its way into  *)
(* the player or in it.                                                    *)
Hangs(buffer, m) == \E i \in 1..Len(buffer.marks) : buffer.marks[i] = m
Secured(m) ==
  \/ m \in reported
  \/ Hangs(out, m)
  \/ \E i \in 1..Len(player) : Hangs(player[i], m)

(* The first k things the library handed over for a piece are.             *)
SaidTo(p, k) ==
  \A i \in 1..k : Script[flight][p][i].mark # 0 => Secured(Script[flight][p][i].mark)

Between == pc["engine"] \in {"get", "setting", "resume", "speech"}

(* Of an utterance with nothing refused, silenced or dropped, the pieces   *)
(* that are over have all their marks secured, and the one in hand as far  *)
(* as the library has got; when it comes to the end there is no sound left. *)
Said ==
  /\ flight \in 1..Len(Script)
  /\ whole \in 1..Len(Script[flight])
  /\ \A p \in 1..(whole - 1) : SaidTo(p, Len(Script[flight][p]))
  /\ Between => SaidTo(whole, Len(Script[flight][whole]))
  /\ Begun => /\ whole = hand.piece
              /\ event \in 0..Len(Script[flight][whole])
              /\ SaidTo(whole, event)
  /\ Ending \/ At("engine", "lastfeed") => event = Len(Script[flight][whole])
  /\ Reporting /\ fault # "idle" => player = <<>>

Heard ==
  /\ whole \in Nat
  /\ player \in Seq(Buffers) /\ out \in Buffers
  /\ ~InFeed => out = Nothing
  /\ InFeed /\ kicked => whole = 0
  /\ discarding => whole = 0
  /\ whole > 0 /\ ~At("engine", "ended") => Said

(* Something has been refused, silenced or dropped.                        *)
LEMMA HeardNoMore ==
  ASSUME Heard, whole' = 0,
         player' \in Seq(Buffers), out' \in Buffers, ~InFeed' => out' = Nothing
  PROVE  Heard'
BY DEF Heard

(* A step that leaves the engine's thread where it is, and all the marks   *)
(* secured that were.                                                      *)
LEMMA HeardStands ==
  ASSUME Heard,
         UNCHANGED <<whole, out, kicked, hand, event, flight>>,
         pc'["engine"] = pc["engine"],
         discarding' => discarding,
         player' \in Seq(Buffers),
         \A m : Secured(m) => Secured(m)',
         Reporting /\ player = <<>> => player' = <<>>,
         fault' # "idle" => fault # "idle"
  PROVE  Heard'
<1>1. /\ (InFeed' <=> InFeed) /\ (Between' <=> Between) /\ (Begun' <=> Begun)
      /\ (Ending' <=> Ending) /\ (Reporting' <=> Reporting)
      /\ (At("engine", "lastfeed")' <=> At("engine", "lastfeed"))
      /\ (At("engine", "ended")' <=> At("engine", "ended"))
  BY DEF InFeed, Between, Begun, Ending, Reporting, At
<1>2. \A p, k : SaidTo(p, k) => SaidTo(p, k)'
  BY DEF SaidTo
<1>3. Said => Said'
  BY <1>1, <1>2 DEF Said
<1> QED
  BY <1>1, <1>3 DEF Heard

(* The engine's thread between two pieces.                                 *)
LEMMA HeardBetween ==
  ASSUME Heard,
         UNCHANGED <<whole, out, player, kicked, flight, reported>>,
         Between \/ (Ending /\ Begun),
         pc'["engine"] \in {"get", "setting", "resume", "speech", "ended", "close"},
         discarding' => discarding
  PROVE  Heard'
<1>1. /\ ~InFeed' /\ ~Begun' /\ ~Ending' /\ ~Reporting' /\ ~InFeed
      /\ ~At("engine", "lastfeed")' /\ ~At("engine", "ended")
  BY DEF InFeed, Between, Begun, Ending, Reporting, At
<1>2. \A p, k : SaidTo(p, k) => SaidTo(p, k)'
  BY DEF SaidTo, Secured, Hangs
<1>3. Said => Said'
  BY <1>1, <1>2 DEF Said
<1> QED
  BY <1>1, <1>3 DEF Heard

(* The engine's thread in the middle of a piece, or at the end of one.     *)
LEMMA HeardGoes ==
  ASSUME Heard, Begun,
         UNCHANGED <<whole, flight, hand, discarding>>,
         pc'["engine"] \in {"get", "message", "feed", "lastfeed", "idle", "check", "set", "tell"},
         player' \in Seq(Buffers), out' \in Buffers,
         ~InFeed' => out' = Nothing,
         InFeed' /\ kicked' => whole = 0,
         whole > 0 =>
           /\ \A m : Secured(m) => Secured(m)'
           /\ event' \in 0..Len(Script[flight][whole])
           /\ SaidTo(whole, event)'
           /\ pc'["engine"] \notin {"message", "feed"} => event' = Len(Script[flight][whole])
           /\ Reporting' /\ fault' # "idle" => player' = <<>>
  PROVE  Heard'
<1>1. CASE whole = 0
  BY <1>1, HeardNoMore
<1>2. CASE whole > 0
  <2>1. Said
    BY <1>2 DEF Heard, Begun, At
  <2>2. \A p, k : SaidTo(p, k) => SaidTo(p, k)'
    BY <1>2 DEF SaidTo
  <2>3. /\ flight' \in 1..Len(Script)
        /\ whole' \in 1..Len(Script[flight'])
        /\ \A p \in 1..(whole' - 1) : SaidTo(p, Len(Script[flight][p]))'
    BY <2>1, <2>2 DEF Said
  <2>4. /\ Between' => pc'["engine"] = "get"
        /\ Ending' \/ At("engine", "lastfeed")' => pc'["engine"] \notin {"message", "feed"}
    BY DEF Between, Ending, At
  <2>5. Between' => SaidTo(whole, Len(Script[flight][whole]))'
    BY <1>2, <2>4 DEF SaidTo
  <2>6. whole' = hand'.piece
    BY <2>1 DEF Said
  <2>7. Said'
    BY <1>2, <2>3, <2>4, <2>5, <2>6 DEF Said
  <2> QED
    BY <1>2, <2>7 DEF Heard
<1> QED
  BY <1>1, <1>2 DEF Heard

(* A piece begins.                                                         *)
LEMMA HeardStarts ==
  ASSUME Kind, Lined, Heard, StartSpeaking
  PROVE  Heard'
<1>1. /\ pc["engine"] = "speech" /\ ~discarding /\ flight' = hand.n /\ event' = 0
      /\ UNCHANGED <<hand, player, out, kicked, discarding, reported>>
      /\ pc'["engine"] \in {"message", "check", "get"}
  BY DEF StartSpeaking, At, Go, playing, Kind, Fields, Threads
<1>2. /\ ~InFeed /\ ~InFeed'
  BY <1>1 DEF InFeed
<1>3. CASE whole' = 0
  BY <1>1, <1>2, <1>3, HeardNoMore DEF Heard
<1>4. CASE /\ pc' = [pc EXCEPT !["engine"] = "message"]
           /\ Follows /\ whole' = hand.piece
  <2>1. pc'["engine"] = "message"
    BY <1>4 DEF Kind, Fields, Threads
  <2>2. /\ hand.n \in 1..Len(Script) /\ hand.piece \in 1..Len(Script[hand.n])
        /\ Len(Script[hand.n]) \in Nat
        /\ Len(Script[hand.n][hand.piece]) \in Nat
    <3>1. /\ hand.n \in 1..spoken /\ hand.piece \in 1..Len(Script[hand.n])
          /\ spoken \in Nat /\ spoken <= Len(Script) /\ Len(Script) \in Nat
      BY <1>1, ScriptTypes DEF Lined, InHand, At, Written, Kind, Fields
    <3>2. hand.n \in 1..Len(Script)
      BY <3>1
    <3> QED
      BY <3>1, <3>2, ScriptTypes
  <2>3. /\ ~Between' /\ Begun' /\ ~Ending' /\ ~At("engine", "lastfeed")' /\ ~Reporting'
    BY <2>1 DEF Between, Begun, Ending, Reporting, At
  <2>4. SaidTo(whole, event)'
    BY <1>1 DEF SaidTo
  <2>5. \A p \in 1..(whole' - 1) : SaidTo(p, Len(Script[flight][p]))'
    <3>1. CASE hand.piece = 1
      BY <1>4, <3>1
    <3>2. CASE flight = hand.n /\ hand.piece = whole + 1
      <4> SUFFICES ASSUME NEW p \in 1..(whole' - 1)
                   PROVE  SaidTo(p, Len(Script[flight][p]))'
        OBVIOUS
      <4>1. /\ p \in 1..whole /\ whole \in Nat /\ whole > 0
            /\ p \in 1..(whole - 1) \/ p = whole
        BY <1>4, <3>2 DEF Heard
      <4>2. Said /\ Between
        BY <1>1, <4>1 DEF Heard, At, Between
      <4>3. SaidTo(p, Len(Script[flight][p]))
        BY <4>1, <4>2 DEF Said
      <4> QED
        BY <1>1, <3>2, <4>3 DEF SaidTo, Secured, Hangs
    <3> QED
      BY <1>4, <3>1, <3>2 DEF Follows
  <2>6. Said'
    BY <1>1, <1>4, <2>2, <2>3, <2>4, <2>5 DEF Said
  <2>7. whole' \in Nat
    BY <1>4, <2>2
  <2> QED
    BY <1>1, <1>2, <2>6, <2>7 DEF Heard
<1> QED
  <2>1. \/ /\ pc' = [pc EXCEPT !["engine"] = "message"]
           /\ whole' = IF Follows THEN hand.piece ELSE 0
        \/ whole' = 0
    BY DEF StartSpeaking, Go
  <2> QED
    BY <1>3, <1>4, <2>1

(* What the library hands over next is gathered, fed or reported.          *)
LEMMA HeardMessage ==
  ASSUME Kind, Lined, Heard, event \in Nat, Message
  PROVE  Heard'
<1> PICK e : e = Events[event + 1]
  OBVIOUS
<1> DEFINE marks == IF e.mark = 0 THEN <<>> ELSE <<e.mark>>
<1>1. /\ pc["engine"] = "message" /\ event < Len(Events) /\ event' = event + 1
      /\ UNCHANGED <<whole, flight, hand, discarding, player, fault>>
      /\ \/ discarding /\ UNCHANGED <<pc, out, kicked, reported>>
         \/ e.mark = 0 /\ ~discarding /\ UNCHANGED <<pc, out, kicked, reported>>
         \/ ~discarding /\ \E audio : Flush(audio, marks, FALSE)
  BY DEF Message, Silenced, At, told
<1>2. /\ Begun /\ ~InFeed /\ out = Nothing
  BY <1>1 DEF Begun, InFeed, Heard
<1>3. CASE discarding /\ UNCHANGED <<pc, out, kicked, reported>>
  BY <1>1, <1>2, <1>3, HeardNoMore DEF Heard, InFeed
<1>4. /\ hand.n \in 1..Len(Script) /\ hand.piece \in 1..Len(Script[hand.n])
      /\ flight = hand.n
  <2>1. /\ hand.n \in 1..spoken /\ hand.piece \in 1..Len(Script[hand.n])
        /\ spoken \in Nat /\ spoken <= Len(Script) /\ Len(Script) \in Nat
        /\ flight = hand.n
    BY <1>2, ScriptTypes DEF Lined, InHand, Written, Kind, Fields
  <2> QED
    BY <2>1
<1>5. Len(Events) \in Nat /\ e.mark \in Nat
  <2>1. /\ Len(Script[hand.n][hand.piece]) \in Nat
        /\ \A i \in 1..Len(Script[hand.n][hand.piece]) :
             Script[hand.n][hand.piece][i] \in [size : 0..FEED_AT, mark : Nat]
    BY <1>4, ScriptTypes
  <2>2. event + 1 \in 1..Len(Events)
    BY <1>1, <2>1 DEF Events
  <2>3. e \in [size : 0..FEED_AT, mark : Nat]
    BY <2>1, <2>2 DEF Events
  <2>4. e.mark \in Nat
    BY <2>3
  <2> QED
    BY <2>1, <2>4 DEF Events
<1>6. whole > 0 => /\ Events = Script[flight][whole]
                   /\ event \in 0..Len(Events) /\ SaidTo(whole, event)
  <2> SUFFICES ASSUME whole > 0
               PROVE  /\ Events = Script[flight][whole]
                      /\ event \in 0..Len(Events) /\ SaidTo(whole, event)
    OBVIOUS
  <2>1. Said
    BY <1>1 DEF Heard, At
  <2>2. Events = Script[flight][whole] /\ whole = hand.piece
    BY <1>2, <1>4, <2>1 DEF Events, Said
  <2> QED
    BY <1>2, <2>1, <2>2 DEF Said
<1>7. marks \in Seq(Nat) /\ (e.mark # 0 => Len(marks) = 1 /\ marks[1] = e.mark)
  BY <1>5
<1> HIDE DEF marks
<1>8. ASSUME \A m : Secured(m) => Secured(m)', whole > 0, e.mark # 0 => Secured(e.mark)'
      PROVE  event' \in 0..Len(Script[flight][whole]) /\ SaidTo(whole, event)'
  <2>1. \A i \in 1..(event + 1) : i \in 1..event \/ i = event + 1
    BY <1>6, <1>8
  <2>2. e = Script[flight][whole][event + 1]
    BY <1>6, <1>8
  <2>3. SaidTo(whole, event)'
    BY <1>1, <1>6, <1>8, <2>1, <2>2 DEF SaidTo
  <2>4. event' \in 0..Len(Script[flight][whole])
    BY <1>1, <1>5, <1>6, <1>8
  <2> QED
    BY <2>3, <2>4
<1>9. CASE e.mark = 0 /\ ~discarding /\ UNCHANGED <<pc, out, kicked, reported>>
  <2>1. \A m : Secured(m) => Secured(m)'
    BY <1>1, <1>9 DEF Secured, Hangs
  <2>2. ~InFeed' /\ ~Reporting'
    BY <1>1, <1>9 DEF InFeed, Reporting
  <2> QED
    BY <1>1, <1>2, <1>8, <1>9, <2>1, <2>2, HeardGoes DEF Heard
<1>10. ASSUME NEW audio, ~discarding, Flush(audio, marks, FALSE)
      PROVE  Heard'
  <2>1. CASE EnterFeed(marks, FALSE)
    <3>1. /\ out' = [of |-> hand.n, marks |-> marks] /\ kicked' = FALSE
          /\ pc'["engine"] = "feed" /\ reported' = reported
      BY <2>1 DEF EnterFeed, Go, Kind, Fields, Threads
    <3>2. \A m : ~Hangs(out, m)
      BY <1>2 DEF Hangs, Nothing
    <3>3. \A m : Secured(m) => Secured(m)'
      BY <1>1, <3>1, <3>2 DEF Secured, Hangs
    <3>4. e.mark # 0 => Secured(e.mark)'
      <4>1. out'.marks = marks
        BY <3>1
      <4> QED
        BY <1>7, <4>1 DEF Secured, Hangs
    <3>5. ~Reporting' /\ InFeed'
      BY <3>1 DEF Reporting, InFeed
    <3>6. out' \in Buffers
      BY <3>1, <1>7 DEF Buffers, Kind, Fields, ItemType
    <3> QED
      BY <1>1, <1>2, <1>8, <3>1, <3>3, <3>4, <3>5, <3>6, HeardGoes DEF Heard
  <2>2. CASE NothingToFeed(marks, FALSE)
    <3>1. /\ reported' = reported \cup ToSet(marks) /\ out' = out /\ kicked' = kicked
          /\ pc'["engine"] = "message"
      BY <2>2 DEF NothingToFeed, AfterFlush, Go, Kind, Fields, Threads
    <3>2. \A m : Secured(m) => Secured(m)'
      BY <1>1, <3>1 DEF Secured, Hangs
    <3>3. e.mark # 0 => Secured(e.mark)'
      BY <1>7, <3>1 DEF Secured, ToSet
    <3>4. ~InFeed' /\ ~Reporting'
      BY <3>1 DEF InFeed, Reporting
    <3> QED
      BY <1>1, <1>2, <1>8, <3>1, <3>2, <3>3, <3>4, HeardGoes DEF Heard
  <2> QED
    BY <1>10, <2>1, <2>2 DEF Flush
<1> QED
  BY <1>1, <1>3, <1>9, <1>10

(* The library has said all it has to say of the piece.                    *)
LEMMA HeardSynchronized ==
  ASSUME Kind, Lined, Heard, Synchronized
  PROVE  Heard'
<1>1. /\ pc["engine"] = "message" /\ event = Len(Events) /\ event' = event
      /\ UNCHANGED <<whole, flight, hand, discarding, player, fault>>
      /\ \/ /\ discarding /\ pc' = [pc EXCEPT !["engine"] = "get"]
            /\ UNCHANGED <<out, kicked, reported>>
         \/ ~discarding /\ \E audio : Flush(audio, <<>>, TRUE)
  BY DEF Synchronized, Silenced, At, Go, told
<1>2. /\ Begun /\ ~InFeed /\ out = Nothing
  BY <1>1 DEF Begun, InFeed, Heard
<1>3. CASE /\ discarding /\ pc' = [pc EXCEPT !["engine"] = "get"]
           /\ UNCHANGED <<out, kicked, reported>>
  <2>1. ~InFeed'
    BY <1>3 DEF InFeed, Kind, Fields, Threads
  <2> QED
    BY <1>1, <1>2, <1>3, <2>1, HeardNoMore DEF Heard
<1>4. whole > 0 => /\ Events = Script[flight][whole]
                   /\ event \in 0..Len(Events) /\ SaidTo(whole, event)
  <2> SUFFICES ASSUME whole > 0
               PROVE  /\ Events = Script[flight][whole]
                      /\ event \in 0..Len(Events) /\ SaidTo(whole, event)
    OBVIOUS
  <2>1. Said /\ flight = hand.n
    BY <1>1, <1>2 DEF Heard, At, Lined
  <2>2. Events = Script[flight][whole] /\ whole = hand.piece
    BY <1>2, <2>1 DEF Events, Said
  <2> QED
    BY <1>2, <2>1, <2>2 DEF Said
<1>5. ASSUME NEW audio, ~discarding, Flush(audio, <<>>, TRUE)
      PROVE  Heard'
  <2>1. /\ pc'["engine"] \in {"lastfeed", "idle", "get"}
        /\ pc'["engine"] = "lastfeed" =>
             out' = [of |-> hand.n, marks |-> <<>>] /\ kicked' = FALSE
        /\ pc'["engine"] # "lastfeed" => out' = out
        /\ \A m : m \in reported => m \in reported'
    BY <1>5 DEF Flush, EnterFeed, NothingToFeed, AfterFlush, GoIdle, Go, Kind, Fields, Threads
  <2>2. /\ InFeed' => pc'["engine"] = "lastfeed"
        /\ pc'["engine"] = "lastfeed" => InFeed'
        /\ ~Reporting'
    BY <2>1 DEF InFeed, Reporting
  <2>3. out' \in Buffers
    <3>1. hand.n \in Nat /\ <<>> \in Seq(Nat)
      BY DEF Kind, Fields, ItemType
    <3>2. [of |-> hand.n, marks |-> <<>>] \in Buffers
      BY <3>1 DEF Buffers
    <3> QED
      BY <2>1, <3>2 DEF Heard
  <2>4. \A m : ~Hangs(out, m)
    BY <1>2 DEF Hangs, Nothing
  <2>5. \A m : Secured(m) => Secured(m)'
    BY <1>1, <2>1, <2>4 DEF Secured, Hangs
  <2>6. whole > 0 => SaidTo(whole, event)'
    BY <1>1, <1>4, <2>5 DEF SaidTo
  <2>7. whole > 0 => event' \in 0..Len(Script[flight][whole]) /\ event' = Len(Script[flight][whole])
    BY <1>1, <1>4
  <2> QED
    BY <1>1, <1>2, <2>1, <2>2, <2>3, <2>5, <2>6, <2>7, HeardGoes DEF Heard
<1> QED
  BY <1>1, <1>3, <1>5

(* A feed comes back: the buffer is in the player with its marks, or they  *)
(* are reported, or the player was stopped over it.                        *)
LEMMA HeardFed ==
  ASSUME Kind, Lined, Heard, Feed \/ FeedRaises
  PROVE  Heard'
<1>1. /\ InFeed /\ out' = Nothing /\ event' = event
      /\ UNCHANGED <<whole, flight, hand, discarding>>
      /\ AfterFlush(At("engine", "lastfeed"))
      /\ \/ player' = Append(player, out) /\ reported' = reported
         \/ kicked /\ player' = player /\ reported' = reported
         \/ player' = player /\ reported' = reported \cup ToSet(out.marks)
  BY DEF Feed, FeedRaises, told
<1>2. /\ Begun /\ At("engine", "lastfeed") \in BOOLEAN
  BY <1>1 DEF Begun, InFeed, At
<1>3. /\ pc'["engine"] \in {"idle", "get", "message"}
      /\ pc'["engine"] # "message" => pc["engine"] = "lastfeed"
  <2>1. \/ At("engine", "lastfeed") /\ pc' = [pc EXCEPT !["engine"] = "idle"]
        \/ At("engine", "lastfeed") /\ pc' = [pc EXCEPT !["engine"] = "get"]
        \/ pc' = [pc EXCEPT !["engine"] = "message"]
    BY <1>1, <1>2, Flushed
  <2> QED
    BY <2>1 DEF At, Kind, Fields, Threads
<1>4. ~InFeed' /\ ~Reporting'
  BY <1>3 DEF InFeed, Reporting
<1>5. player \in Seq(Buffers) /\ out \in Buffers /\ Nothing \in Buffers
  BY DEF Heard, Buffers, Nothing
<1>6. player' \in Seq(Buffers)
  BY <1>1, <1>5
<1>7. whole > 0 => \A m : Secured(m) => Secured(m)'
  <2>1. CASE player' = Append(player, out) /\ reported' = reported
    <3>1. /\ Len(player) \in Nat /\ Len(player') = Len(player) + 1
          /\ \A i \in 1..Len(player) : player'[i] = player[i]
          /\ player'[Len(player) + 1] = out
      BY <1>5, <2>1
    <3>2. /\ Len(player) + 1 \in 1..Len(player')
          /\ \A i \in 1..Len(player) : i \in 1..Len(player')
      BY <3>1
    <3> QED
      BY <2>1, <3>1, <3>2 DEF Secured, Hangs
  <2>2. CASE kicked /\ player' = player /\ reported' = reported
    BY <1>1, <2>2 DEF Heard
  <2>3. CASE player' = player /\ reported' = reported \cup ToSet(out.marks)
    <3>1. \A m : Hangs(out, m) => m \in reported'
      BY <2>3 DEF Hangs, ToSet
    <3> QED
      BY <2>3, <3>1 DEF Secured, Hangs
  <2> QED
    BY <1>1, <2>1, <2>2, <2>3
<1>8. whole > 0 => /\ event' \in 0..Len(Script[flight][whole])
                   /\ SaidTo(whole, event)'
                   /\ pc'["engine"] \notin {"message", "feed"}
                        => event' = Len(Script[flight][whole])
  <2> SUFFICES ASSUME whole > 0
               PROVE  /\ event' \in 0..Len(Script[flight][whole])
                      /\ SaidTo(whole, event)'
                      /\ pc'["engine"] \notin {"message", "feed"}
                           => event' = Len(Script[flight][whole])
    OBVIOUS
  <2>1. Said
    BY <1>1 DEF Heard, At, InFeed
  <2>2. SaidTo(whole, event)'
    BY <1>1, <1>2, <1>7, <2>1 DEF Said, SaidTo
  <2> QED
    BY <1>1, <1>2, <1>3, <2>1, <2>2 DEF Said, At
<1> QED
  BY <1>1, <1>2, <1>3, <1>4, <1>5, <1>6, <1>7, <1>8, HeardGoes

(* The end: everything has been played, or the player would not be waited  *)
(* for; then it is told.                                                   *)
LEMMA HeardEnds ==
  ASSUME Kind, Lined, Heard, Idle \/ Teller("engine")
  PROVE  Heard'
<1>1. /\ Ending /\ Begun /\ event' = event
      /\ UNCHANGED <<whole, flight, hand, discarding, player, out, kicked, reported>>
      /\ pc'["engine"] \in {"check", "set", "tell", "get"}
      /\ pc'["engine"] # "get" /\ fault' # "idle" =>
           player = <<>> \/ (Reporting /\ fault # "idle")
  <2>1. CASE Idle
    BY <2>1 DEF Idle, At, Go, Ending, Begun, history, told, callback, Kind, Fields, Threads
  <2>2. CASE Check("engine")
    BY <2>2 DEF Check, At, Go, Back, Ending, Begun, Reporting, engineOwn, callback, playing,
       Kind, Fields, Threads
  <2>3. CASE SetFinished("engine")
    BY <2>3 DEF SetFinished, At, Go, Ending, Begun, Reporting, callback, playing,
       history, told, Kind, Fields, Threads
  <2>4. CASE Tell("engine")
    BY <2>4 DEF Tell, At, Go, Back, Ending, Begun, Reporting, engineOwn, callback, playing,
       Kind, Fields, Threads
  <2> QED
    BY <2>1, <2>2, <2>3, <2>4 DEF Teller
<1>2. ~InFeed /\ ~InFeed'
  BY <1>1 DEF Ending, InFeed
<1>3. \A m : Secured(m) => Secured(m)'
  BY <1>1 DEF Secured, Hangs
<1>4. whole > 0 => /\ event' \in 0..Len(Script[flight][whole])
                   /\ SaidTo(whole, event)'
                   /\ event' = Len(Script[flight][whole])
                   /\ Reporting' /\ fault' # "idle" => player' = <<>>
  <2> SUFFICES ASSUME whole > 0
               PROVE  /\ event' \in 0..Len(Script[flight][whole])
                      /\ SaidTo(whole, event)'
                      /\ event' = Len(Script[flight][whole])
                      /\ Reporting' /\ fault' # "idle" => player' = <<>>
    OBVIOUS
  <2>1. Said
    BY <1>1 DEF Heard, At, Ending
  <2>2. SaidTo(whole, event)'
    BY <1>1, <1>3, <2>1 DEF Said, SaidTo
  <2>3. Reporting' => pc'["engine"] # "get"
    BY DEF Reporting
  <2> QED
    BY <1>1, <2>1, <2>2, <2>3 DEF Said
<1> QED
  BY <1>1, <1>2, <1>3, <1>4, HeardGoes DEF Heard

LEMMA HeardKept ==
  ASSUME Kind, Lined, Heard, event \in Nat, [Next]_vars
  PROVE  Heard'
<1>1. /\ "engine" \in Threads /\ "watchdog" \in Threads /\ "reader" \in Threads
      /\ Cancellers = {"reader", "watchdog"}
      /\ pc \in [Threads -> Places]
  BY DEF Threads, Cancellers, Kind, Fields
<1>2. \A c \in Cancellers : c \in Threads /\ c # "engine"
  BY DEF Threads, Cancellers
<1>3. ASSUME pc'["engine"] = pc["engine"], discarding' = discarding,
             UNCHANGED <<whole, out, kicked, hand, event, flight, player, fault, reported>>
      PROVE  Heard'
  <2>1. \A m : Secured(m) => Secured(m)'
    BY <1>3 DEF Secured, Hangs
  <2> QED
    BY <1>3, <2>1, HeardStands DEF Heard
<1>4. ASSUME NEW c \in Cancellers, Canceler(c)
      PROVE  Heard'
  <2>1. \A p : pc' = [pc EXCEPT ![c] = p] => pc'["engine"] = pc["engine"]
    BY <1>1, <1>2
  <2>2. pc'["engine"] = pc["engine"]
    BY <1>4, <2>1 DEF Canceler, Stop, DrainOne, PutBack, PutResume, Go
  <2>3. CASE Stop(c)
    <3>1. whole' = 0 /\ player' = <<>> /\ out' = out
      BY <2>3 DEF Stop, engineOwn, callback
    <3>2. InFeed' <=> InFeed
      BY <2>2 DEF InFeed
    <3> QED
      BY <3>1, <3>2, HeardNoMore DEF Heard
  <2>4. CASE DrainOne(c) \/ PutBack(c) \/ PutResume(c)
    <3>1. /\ discarding' = discarding
          /\ UNCHANGED <<whole, out, kicked, hand, event, flight, player, fault, reported>>
      BY <2>4 DEF DrainOne, PutBack, PutResume, history, told, callback, playing
    <3> QED
      BY <1>3, <2>2, <3>1
  <2> QED
    BY <1>4, <2>3, <2>4 DEF Canceler
<1>5. ASSUME NEW c \in Cancellers, Discard(c), UNCHANGED <<player, out>>
      PROVE  Heard'
  <2>1. whole' = 0 /\ pc'["engine"] = pc["engine"]
    BY <1>1, <1>2, <1>5 DEF Discard, Go
  <2>2. InFeed' <=> InFeed
    BY <2>1 DEF InFeed
  <2> QED
    BY <1>5, <2>1, <2>2, HeardNoMore DEF Heard
<1>6. CASE Reader
  <2>1. CASE Speak \/ Post \/ Control \/ Pause \/ PutSentinel \/ GiveUp
    <3>1. /\ discarding' = discarding
          /\ UNCHANGED <<whole, out, kicked, hand, event, flight, player, fault, reported>>
          /\ pc' = pc \/ \E p : pc' = [pc EXCEPT !["reader"] = p]
      BY <2>1 DEF Speak, Post, Control, Pause, PutSentinel, GiveUp, Go, engineOwn, history,
         told, callback, playing, readerOwn, posted
    <3> QED
      BY <1>1, <1>3, <3>1
  <2>2. CASE Cancel \/ Close
    <3>1. Discard("reader") /\ UNCHANGED <<player, out>>
      BY <2>2 DEF Cancel, Close, engineOwn, callback, playing
    <3> QED
      BY <1>1, <1>5, <3>1
  <2>3. CASE Join
    <3>1. /\ pc["engine"] = "ended" /\ player' = <<>>
          /\ pc' = [pc EXCEPT !["reader"] = "closed"]
          /\ UNCHANGED <<whole, out, kicked, discarding>>
      BY <2>3 DEF Join, At, Go, history, callback
    <3>2. pc'["engine"] = "ended" /\ player' \in Seq(Buffers)
      BY <1>1, <3>1
    <3>3. ~InFeed /\ ~InFeed' /\ At("engine", "ended")'
      BY <3>1, <3>2 DEF InFeed, At
    <3> QED
      BY <3>1, <3>2, <3>3 DEF Heard
  <2> QED
    BY <1>1, <1>4, <1>6, <2>1, <2>2, <2>3 DEF Reader
<1>7. CASE Engine
  <2>1. CASE Get \/ RunSetting \/ RunResume \/ SkipSpeech
    <3>1. /\ pc["engine"] \in {"get", "setting", "resume", "speech"}
          /\ UNCHANGED <<whole, out, player, kicked, flight, reported>>
          /\ discarding' => discarding
          /\ \/ pc' = [pc EXCEPT !["engine"] = "get"]
             \/ Get
      BY <2>1 DEF Get, RunSetting, RunResume, SkipSpeech, At, Go, history, told, playing,
         callback
    <3>2. Get => pc'["engine"] \in {"ended", "speech", "setting", "resume", "close"}
      <4>1. Get => Head(work) \in ItemType
        BY DEF Get, Kind, Fields
      <4> QED
        BY <1>1, <4>1 DEF Get, Go, ItemType
    <3>3. Between
      BY <3>1 DEF Between
    <3> QED
      BY <1>1, <3>1, <3>2, <3>3, HeardBetween
  <2> QED
    BY <1>7, <2>1, HeardStarts, HeardMessage, HeardSynchronized, HeardFed, HeardEnds DEF Engine
<1>8. CASE Watchdog
  <2>1. CASE Look \/ StopWatching \/ Teller("watchdog")
    <3>1. /\ discarding' = discarding
          /\ UNCHANGED <<whole, out, kicked, hand, event, flight, player, fault, reported>>
          /\ \E p : pc' = [pc EXCEPT !["watchdog"] = p]
      BY <2>1 DEF Look, StopWatching, Teller, Check, SetFinished, Tell, Go, engineOwn, history,
         told, callback, playing
    <3> QED
      BY <1>1, <1>3, <3>1
  <2>2. CASE Judge
    <3>1. /\ UNCHANGED <<out, kicked, hand, event, flight, player, fault, reported>>
          /\ \/ Discard("watchdog")
             \/ /\ pc' = [pc EXCEPT !["watchdog"] = "look"]
                /\ discarding' = discarding /\ whole' = whole
      BY <2>2 DEF Judge, Go, engineOwn, told, callback, playing
    <3> QED
      BY <1>1, <1>3, <1>5, <3>1
  <2> QED
    BY <1>1, <1>4, <1>8, <2>1, <2>2 DEF Watchdog
<1>9. CASE Play
  <2>1. /\ player # <<>> /\ player' = Tail(player)
        /\ reported' = reported \cup ToSet(Head(player).marks)
        /\ UNCHANGED <<whole, out, kicked, hand, event, flight, fault, discarding, pc>>
    BY <1>9 DEF Play, engineOwn, told, callback
  <2>2. player \in Seq(Buffers)
    BY DEF Heard
  <2>3. /\ player' \in Seq(Buffers)
        /\ Len(player) \in Nat /\ Len(player') = Len(player) - 1
        /\ Head(player) = player[1]
        /\ \A i \in 1..(Len(player) - 1) : player'[i] = player[i + 1]
    BY <2>1, <2>2
  <2>4. \A m : Hangs(player[1], m) => m \in reported'
    BY <2>1, <2>3 DEF Hangs, ToSet
  <2>5. \A i \in 1..Len(player) : i = 1 \/ (i - 1 \in 1..Len(player') /\ player'[i - 1] = player[i])
    BY <2>3
  <2>6. \A b, m : Hangs(b, m)' <=> Hangs(b, m)
    BY DEF Hangs
  <2>7. \A m : Secured(m) => Secured(m)'
    <3> SUFFICES ASSUME NEW m, Secured(m) PROVE Secured(m)'
      OBVIOUS
    <3>1. CASE m \in reported \/ Hangs(out, m)
      BY <2>1, <3>1 DEF Secured, Hangs
    <3>2. CASE \E i \in 1..Len(player) : Hangs(player[i], m)
      <4>1. PICK i \in 1..Len(player) : Hangs(player[i], m)
        BY <3>2
      <4>2. CASE i = 1
        BY <2>4, <4>1, <4>2 DEF Secured
      <4>3. CASE i # 1
        <5>1. i - 1 \in 1..Len(player') /\ Hangs(player'[i - 1], m)
          BY <2>5, <4>1, <4>3
        <5> QED
          BY <5>1 DEF Secured, Hangs
      <4> QED
        BY <4>2, <4>3
    <3> QED
      BY <3>1, <3>2 DEF Secured
  <2> QED
    BY <2>1, <2>3, <2>7, HeardStands
<1>10. CASE Stall \/ TimePasses \/ Rest \/ UNCHANGED vars
  <2>1. /\ discarding' = discarding /\ pc' = pc
        /\ UNCHANGED <<whole, out, kicked, hand, event, flight, player, reported>>
        /\ fault' = fault \/ (fault = "none" /\ fault' = "stall")
    BY <1>10 DEF Stall, TimePasses, Rest, vars, engineOwn, history, told, callback, playing
  <2>2. \A m : Secured(m) => Secured(m)'
    BY <2>1 DEF Secured, Hangs
  <2> QED
    BY <2>1, <2>2, HeardStands DEF Heard
<1> QED
  BY <1>6, <1>7, <1>8, <1>9, <1>10 DEF Next

LEMMA HeardInitially == Init => Heard
<1> SUFFICES ASSUME Init PROVE Heard
  OBVIOUS
<1>1. pc["engine"] = "get"
  BY DEF Init, Threads
<1>2. /\ whole = 0 /\ player = <<>> /\ out = Nothing
  BY DEF Init
<1>3. Nothing \in Buffers /\ player \in Seq(Buffers)
  BY <1>2 DEF Nothing, Buffers
<1> QED
  BY <1>1, <1>2, <1>3 DEF Heard, InFeed

(* What is to be said waits in the order of the script, behind the piece   *)
(* in hand and before those still to be posted, whatever is drained from   *)
(* between.                                                                *)
THEOREM SpeechIsInOrder == Spec => []Lined
<1>1. Hush /\ [Next]_vars => Hush'
  BY HushStep
<1>2. Hush /\ Lined /\ [Next]_vars => Lined'
  BY LinedKept
<1> QED
  BY <1>1, <1>2, HushInitially, LinedInitially, PTL DEF Spec

(* The engine's thread says that an utterance is over only when all its    *)
(* marks have been reported and the last of its sound played, for every    *)
(* script, however many pieces an utterance is of, unless some of it was   *)
(* refused, silenced or dropped, or the player would not be waited for.    *)
THEOREM EndComesAfterSound == Spec => []EndAfterSound
<1>1. Heard /\ Lined /\ Kind => EndAfterSound
  <2> SUFFICES ASSUME Heard, Lined, Kind, Reporting, whole = hand.piece, fault # "idle"
               PROVE  player = <<>> /\ MarksOf(hand.n) \ {0} \subseteq reported
    BY DEF EndAfterSound
  <2>1. /\ Begun /\ Ending /\ ~InFeed /\ ~At("engine", "ended") /\ InHand
    BY DEF Reporting, Begun, Ending, InFeed, InHand, At
  <2>2. /\ hand.n \in 1..spoken /\ hand.piece \in 1..Len(Script[hand.n])
        /\ flight = hand.n /\ hand.piece = Len(Script[hand.n])
    BY <2>1 DEF Lined, Written, LastPiece
  <2>3. spoken \in Nat /\ spoken <= Len(Script) /\ Len(Script) \in Nat
    BY ScriptTypes DEF Lined, Kind, Fields
  <2>4. hand.n \in 1..Len(Script)
    BY <2>2, <2>3
  <2>5. Len(Script[hand.n]) \in Nat
    BY <2>4, ScriptTypes
  <2>6. whole > 0 /\ whole \in Nat
    BY <2>2, <2>5 DEF Heard
  <2>7. Said /\ player = <<>> /\ out = Nothing
    BY <2>1, <2>6 DEF Heard, Said
  <2>8. \A p \in 1..Len(Script[hand.n]) : SaidTo(p, Len(Script[hand.n][p]))
    <3>1. \A p \in 1..Len(Script[hand.n]) : p \in 1..(whole - 1) \/ p = whole
      BY <2>2, <2>5
    <3> QED
      BY <2>1, <2>2, <2>7, <3>1 DEF Said
  <2>9. \A m : Secured(m) => m \in reported
    BY <2>7 DEF Secured, Hangs, Nothing
  <2>10. MarksOf(hand.n) \ {0} \subseteq reported
    <3> SUFFICES ASSUME NEW m \in MarksOf(hand.n), m # 0 PROVE m \in reported
      OBVIOUS
    <3>1. PICK p \in 1..Len(Script[hand.n]) :
            \E e \in ToSet(Script[hand.n][p]) : m = e.mark
      BY DEF MarksOf, ToSet
    <3>2. PICK i \in 1..Len(Script[hand.n][p]) : m = Script[hand.n][p][i].mark
      BY <3>1 DEF ToSet
    <3>3. Secured(m)
      BY <2>2, <2>8, <3>1, <3>2 DEF SaidTo
    <3> QED
      BY <2>9, <3>3
  <2> QED
    BY <2>7, <2>10
<1>2. Hush /\ [Next]_vars => Hush' /\ Kind
  <2>1. Hush /\ [Next]_vars => Kind' /\ Kind
    BY KindKept DEF Hush
  <2> QED
    BY <2>1, HushKept
<1>3. Hush /\ Lined /\ [Next]_vars => Lined'
  BY LinedKept
<1>4. TypeOK => event \in Nat
  BY DEF TypeOK
<1>5. Kind /\ Lined /\ Heard /\ event \in Nat /\ [Next]_vars => Heard'
  BY HeardKept
<1>6. Hush => Kind
  BY DEF Hush
<1> QED
  BY <1>1, <1>2, <1>3, <1>4, <1>5, <1>6, HushInitially, LinedInitially, HeardInitially,
     DriverTypeCorrect, PTL DEF Spec

-----------------------------------------------------------------------------
(* The end told once.                                                      *)

Tellers == {"engine", "watchdog"}
Telling(t) == pc[t] \in {"set", "tell"}

(* The utterance in flight is not being posted, and none of it is on the   *)
(* queue; and what is about to be submitted is not of it, or will not be.  *)
Other == {x \in ItemType : x.kind = "speech" => x.n # flight}
Elsewhere == At("reader", "posting") => spoken # flight
NoneLeft == work \in Seq(Other)
FlightOver ==
  /\ Elsewhere
  /\ NoneLeft
  /\ At("engine", "speech") /\ hand.n = flight => discarding

(* One thread at a time is about to tell, of a flight that is over and not *)
(* told of, and what is told of is over and stays so.                      *)
Single ==
  /\ pc["watchdog"] \notin {"look", "ended"} => Elsewhere
  /\ pc["watchdog"] \in {"putback", "check", "set", "tell"} => NoneLeft
  /\ ~(Telling("engine") /\ Telling("watchdog"))
  /\ \A t \in Tellers : At(t, "tell") => finished
  /\ \A t \in Tellers : Telling(t) => tells = 0 /\ FlightOver
  /\ tells >= 1 => finished /\ FlightOver
  /\ tells <= 1

(* The watchdog comes only when the thread has stood in the player for     *)
(* long, which is no time at which its utterance is still being posted.    *)
Once ==
  /\ since = "long" => pc["engine"] \in {"feed", "lastfeed", "idle"} /\ Elsewhere
  /\ raced \/ Single

(* A step that tells nothing, begins nothing and posts nothing of the      *)
(* utterance in flight.                                                    *)
LEMMA OnceStands ==
  ASSUME Once,
         UNCHANGED <<flight, tells, finished, raced, hand>>,
         since' = "long" => since = "long" /\ pc'["engine"] = pc["engine"],
         Elsewhere => Elsewhere',
         Elsewhere /\ NoneLeft => NoneLeft',
         At("engine", "speech")' => At("engine", "speech") /\ (discarding => discarding'),
         pc'["watchdog"] \notin {"look", "ended"} => pc["watchdog"] \notin {"look", "ended"},
         pc'["watchdog"] \in {"putback", "check", "set", "tell"} =>
           pc["watchdog"] \in {"putback", "check", "set", "tell"} \/ NoneLeft',
         \A t \in Tellers : pc'[t] \in {"set", "tell"} => pc'[t] = pc[t]
  PROVE  Once'
<1>1. since' = "long" => pc'["engine"] \in {"feed", "lastfeed", "idle"} /\ Elsewhere'
  BY DEF Once
<1>2. FlightOver => FlightOver'
  BY DEF FlightOver
<1>3. \A t \in Tellers : /\ Telling(t)' => Telling(t)
                         /\ At(t, "tell")' => At(t, "tell")
  BY DEF Telling, At
<1>4. Single => Single'
  <2> SUFFICES ASSUME Single PROVE Single'
    OBVIOUS
  <2>1. /\ pc'["watchdog"] \notin {"look", "ended"} => Elsewhere'
        /\ pc'["watchdog"] \in {"putback", "check", "set", "tell"} => NoneLeft'
    BY DEF Single
  <2>2. ~(Telling("engine")' /\ Telling("watchdog")')
    BY <1>3 DEF Single, Tellers
  <2>3. /\ \A t \in Tellers : At(t, "tell")' => finished'
        /\ \A t \in Tellers : Telling(t)' => tells' = 0 /\ FlightOver'
        /\ tells' >= 1 => finished' /\ FlightOver'
        /\ tells' <= 1
    BY <1>2, <1>3 DEF Single
  <2> QED
    BY <2>1, <2>2, <2>3 DEF Single
<1> QED
  BY <1>1, <1>4 DEF Once

(* The places of the threads after one of them has moved.                  *)
LEMMA OneMoves ==
  ASSUME Kind, NEW t \in Threads, NEW p, pc' = [pc EXCEPT ![t] = p]
  PROVE  pc'[t] = p /\ \A u \in Threads : u # t => pc'[u] = pc[u]
BY DEF Kind, Fields

(* The utterance in flight has come to its end in the engine's thread.     *)
LEMMA EndingIsOver ==
  ASSUME Kind, Lined, Ending
  PROVE  FlightOver
<1>1. Begun /\ InHand /\ ~At("engine", "speech")
  BY DEF Ending, Begun, InHand, At
<1>2. /\ hand \in Written /\ hand.kind = "speech" /\ flight = hand.n
      /\ hand.piece = Len(Script[hand.n])
      /\ work \in Seq(Written)
      /\ \A i \in 1..Len(work) : Before(hand, work[i])
  BY <1>1 DEF Lined, LastPiece
<1>3. Elsewhere
  <2>1. At("reader", "posting") /\ spoken = flight =>
          /\ hand.piece <= piece /\ piece < Len(Script[spoken])
          /\ hand.piece = Len(Script[spoken])
    BY <1>2 DEF Lined, Written
  <2>2. hand.piece \in Nat /\ piece \in Nat
    BY DEF Kind, Fields, ItemType
  <2> QED
    BY <2>1, <2>2 DEF Elsewhere
<1>4. NoneLeft
  <2>1. \A i \in 1..Len(work) : work[i] \in Other
    <3> SUFFICES ASSUME NEW i \in 1..Len(work), work[i].kind = "speech", work[i].n = flight
                 PROVE  FALSE
      BY <1>2 DEF Other, Written
    <3>1. Before(hand, work[i]) /\ work[i] \in Written
      BY <1>2
    <3>2. /\ work[i].piece \in 1..Len(Script[hand.n])
          /\ hand.piece < work[i].piece \/ hand.n < work[i].n
      BY <1>2, <3>1 DEF Before, Written
    <3>3. hand.n \in Nat /\ hand.piece \in Nat
      BY DEF Kind, Fields, ItemType
    <3> QED
      BY <1>2, <3>2, <3>3
  <2>2. \A S, T : \A q \in Seq(S) : (\A i \in 1..Len(q) : q[i] \in T) => q \in Seq(T)
    OBVIOUS
  <2> QED
    BY <1>2, <2>1, <2>2 DEF NoneLeft
<1> QED
  BY <1>1, <1>3, <1>4 DEF FlightOver

(* A piece is submitted: nobody has told of its utterance, or two were at  *)
(* it.                                                                     *)
LEMMA OnceStarts ==
  ASSUME Kind, Once, tells \in Nat, StartSpeaking
  PROVE  Once'
<1>1. /\ pc["engine"] = "speech" /\ ~discarding /\ flight' = hand.n
      /\ UNCHANGED <<since, hand, work, spoken>>
      /\ tells' = IF flight = hand.n THEN tells ELSE 0
      /\ raced' = ((raced /\ flight = hand.n) \/ pc["watchdog"] \notin {"look", "ended"})
  BY DEF StartSpeaking, At, readerOwn, posted
<1>2. /\ pc'["engine"] \in {"message", "check", "get"}
      /\ pc'["watchdog"] = pc["watchdog"]
  BY DEF StartSpeaking, Go, Kind, Fields, Threads
<1>3. since' # "long"
  BY <1>1 DEF Once
<1>4. CASE pc["watchdog"] \notin {"look", "ended"} \/ (raced /\ flight = hand.n)
  BY <1>1, <1>3, <1>4 DEF Once
<1>5. CASE pc["watchdog"] \in {"look", "ended"} /\ ~(raced /\ flight = hand.n)
  <2>1. tells' = 0
    <3>1. CASE flight = hand.n
      <4>1. Single
        BY <1>5, <3>1 DEF Once
      <4>2. ~FlightOver
        BY <1>1, <3>1 DEF FlightOver, At
      <4> QED
        BY <1>1, <3>1, <4>1, <4>2 DEF Single
    <3>2. CASE flight # hand.n
      BY <1>1, <3>2
    <3> QED
      BY <3>1, <3>2
  <2>2. \A t \in Tellers : ~Telling(t)' /\ ~At(t, "tell")'
    BY <1>2, <1>5 DEF Tellers, Telling, At
  <2>3. Single'
    BY <1>2, <1>5, <2>1, <2>2 DEF Single, Tellers
  <2> QED
    BY <1>3, <2>3 DEF Once
<1> QED
  BY <1>4, <1>5

(* The test of the flag, its setting and the report.                       *)
LEMMA OnceTells ==
  ASSUME Kind, Lined, Once, tells \in Nat, NEW t \in Tellers, Teller(t)
  PROVE  Once'
<1>1. /\ t \in Threads /\ "engine" \in Threads /\ "watchdog" \in Threads
      /\ t \in {"engine", "watchdog"}
  BY DEF Tellers, Threads
<1>2. /\ UNCHANGED <<since, flight, hand, work, spoken, discarding>>
      /\ pc[t] \in {"check", "set", "tell"}
      /\ \E p \in {"get", "look", "set", "tell"} : pc' = [pc EXCEPT ![t] = p]
  BY DEF Teller, Check, SetFinished, Tell, At, Go, Back, readerOwn, posted, engineOwn,
     history, told, clock
<1>3. /\ pc'[t] \in {"get", "look", "set", "tell"}
      /\ \A u \in Threads : u # t => pc'[u] = pc[u]
  BY <1>1, <1>2, OneMoves
<1>4. /\ Other' = Other /\ (NoneLeft' <=> NoneLeft)
      /\ (At("reader", "posting")' <=> At("reader", "posting"))
      /\ (Elsewhere' <=> Elsewhere)
      /\ (At("engine", "speech")' => At("engine", "speech"))
  <2>1. "reader" \in Threads /\ "reader" # t
    BY <1>1 DEF Threads
  <2>2. At("reader", "posting")' <=> At("reader", "posting")
    BY <1>3, <2>1 DEF At
  <2>3. At("engine", "speech")' => At("engine", "speech")
    BY <1>1, <1>3 DEF At
  <2>4. Other' = Other
    BY <1>2 DEF Other
  <2> QED
    BY <1>2, <2>2, <2>3, <2>4 DEF NoneLeft, Elsewhere
<1>5. FlightOver => FlightOver'
  BY <1>2, <1>4 DEF FlightOver
<1>6. since' = "long" => pc'["engine"] \in {"feed", "lastfeed", "idle"} /\ Elsewhere'
  <2>1. since = "long" => t # "engine"
    BY <1>2 DEF Once
  <2> QED
    BY <1>1, <1>2, <1>3, <1>4, <2>1 DEF Once
<1>7. \A o \in Tellers : o # t => (Telling(o)' <=> Telling(o)) /\ (At(o, "tell")' <=> At(o, "tell"))
  BY <1>1, <1>3 DEF Telling, At, Tellers
<1>8. Single => /\ pc'["watchdog"] \notin {"look", "ended"} => Elsewhere'
                /\ pc'["watchdog"] \in {"putback", "check", "set", "tell"} => NoneLeft'
  BY <1>1, <1>2, <1>3, <1>4 DEF Single
<1>9. CASE Check(t)
  <2>1. /\ pc[t] = "check" /\ tells' = tells /\ finished' = finished
        /\ pc' = [pc EXCEPT ![t] = IF finished THEN Back(t) ELSE "set"]
        /\ raced' = (\/ raced
                     \/ ~finished /\ \E o \in Threads \ {t} : At(o, "set")
                     \/ t = "watchdog" /\ ~discarding)
    BY <1>9 DEF Check, At, Go, AlreadyTold, clock
  <2>2. CASE raced'
    BY <1>6, <2>2 DEF Once
  <2>3. CASE ~raced'
    <3>1. /\ ~raced /\ Single
          /\ ~finished => \A o \in Threads \ {t} : ~At(o, "set")
          /\ t = "watchdog" => discarding
      BY <2>1, <2>3 DEF Once
    <3>2. CASE finished
      <4>1. pc'[t] \in {"get", "look"}
        BY <1>1, <2>1, <3>2, OneMoves DEF Back
      <4>2. ~Telling(t)' /\ ~At(t, "tell")'
        BY <4>1 DEF Telling, At
      <4>3. \A o \in Tellers : (Telling(o)' => Telling(o)) /\ (At(o, "tell")' => At(o, "tell"))
        BY <1>7, <4>2
      <4>4. Single'
        BY <1>5, <1>8, <2>1, <3>1, <4>3 DEF Single, Tellers
      <4> QED
        BY <1>6, <4>4 DEF Once
    <3>3. CASE ~finished
      <4>1. pc'[t] = "set"
        BY <1>1, <2>1, <3>3, OneMoves
      <4>2. tells = 0
        BY <3>1, <3>3 DEF Single
      <4>3. \A o \in Tellers : o # t => ~Telling(o)
        <5> SUFFICES ASSUME NEW o \in Tellers, o # t, Telling(o) PROVE FALSE
          OBVIOUS
        <5>1. o \in Threads \ {t}
          BY DEF Tellers, Threads
        <5>2. ~At(o, "set")
          BY <3>1, <3>3, <5>1
        <5>3. At(o, "tell")
          BY <5>2 DEF Telling, At
        <5> QED
          BY <3>1, <3>3, <5>3 DEF Single
      <4>4. FlightOver
        <5>1. CASE t = "engine"
          BY <2>1, <5>1, EndingIsOver DEF Ending
        <5>2. CASE t = "watchdog"
          BY <2>1, <3>1, <5>2 DEF Single, FlightOver
        <5> QED
          BY <1>1, <5>1, <5>2
      <4>5. /\ ~(Telling("engine")' /\ Telling("watchdog")')
            /\ \A o \in Tellers : ~At(o, "tell")'
        <5>1. \A o \in Tellers : At(o, "tell") => Telling(o)
          BY DEF At, Telling
        <5>2. ~At(t, "tell")'
          BY <4>1 DEF At
        <5>3. \A o \in Tellers : o # t => ~Telling(o)' /\ ~At(o, "tell")'
          BY <1>7, <4>3, <5>1
        <5> QED
          BY <1>1, <5>2, <5>3 DEF Tellers
      <4>6. Single'
        BY <1>5, <1>8, <2>1, <3>1, <4>2, <4>4, <4>5 DEF Single
      <4> QED
        BY <1>6, <4>6 DEF Once
    <3> QED
      BY <3>2, <3>3
  <2> QED
    BY <2>2, <2>3
<1>10. CASE SetFinished(t)
  <2>1. /\ pc[t] = "set" /\ finished' = TRUE
        /\ UNCHANGED <<tells, raced>>
        /\ pc' = [pc EXCEPT ![t] = "tell"]
    BY <1>10 DEF SetFinished, At, Go, history, told
  <2>2. Telling(t) /\ Telling(t)'
    BY <1>1, <2>1, OneMoves DEF Telling
  <2>3. \A o \in Tellers : Telling(o)' => Telling(o)
    BY <1>7, <2>2
  <2>4. Single => Single'
    BY <1>5, <1>8, <2>1, <2>2, <2>3 DEF Single, Tellers
  <2> QED
    BY <1>6, <2>1, <2>4 DEF Once
<1>11. CASE Tell(t)
  <2>1. /\ pc[t] = "tell" /\ tells' = tells + 1
        /\ UNCHANGED <<finished, raced>>
        /\ pc' = [pc EXCEPT ![t] = Back(t)]
    BY <1>11 DEF Tell, At, Go, clock
  <2>2. pc'[t] \in {"get", "look"}
    BY <1>1, <2>1, OneMoves DEF Back
  <2>3. Telling(t) /\ At(t, "tell") /\ ~Telling(t)' /\ ~At(t, "tell")'
    BY <2>1, <2>2 DEF Telling, At
  <2>4. Single => tells = 0 /\ FlightOver /\ finished
    BY <2>3 DEF Single
  <2>5. Single => \A o \in Tellers : ~Telling(o)' /\ ~At(o, "tell")'
    <3>1. Single => \A o \in Tellers : o # t => ~Telling(o)
      BY <1>1, <2>3 DEF Single, Tellers
    <3>2. \A o \in Tellers : At(o, "tell") => Telling(o)
      BY DEF At, Telling
    <3> QED
      BY <1>7, <2>3, <3>1, <3>2
  <2>6. Single => Single'
    BY <1>1, <1>5, <1>8, <2>1, <2>4, <2>5 DEF Single, Tellers
  <2> QED
    BY <1>6, <2>1, <2>6 DEF Once
<1> QED
  BY <1>9, <1>10, <1>11 DEF Teller

LEMMA OnceCancels ==
  ASSUME Hush, Lined, Once, NEW c \in Cancellers, Canceler(c)
  PROVE  Once'
<1>1. /\ c \in Threads /\ c \in {"reader", "watchdog"} /\ Kind
      /\ "reader" \in Threads /\ "engine" \in Threads /\ "watchdog" \in Threads
  BY DEF Cancellers, Threads, Hush
<1>2. /\ UNCHANGED <<flight, tells, finished, raced, hand, since, spoken, discarding>>
      /\ pc[c] \in {"stop", "drain", "putback"}
      /\ \/ pc' = pc
         \/ \E p \in {"drain", "putback", "check", "free", "closing"} : pc' = [pc EXCEPT ![c] = p]
  BY <1>1 DEF Canceler, Stop, DrainOne, PutBack, PutResume, Onward, At, Go, readerOwn,
     posted, engineOwn, history, told, clock
<1>3. /\ \A u \in Threads : u # c => pc'[u] = pc[u]
      /\ pc'[c] \in {"stop", "drain", "putback", "check", "free", "closing"}
  BY <1>1, <1>2, OneMoves
<1>4. pc'["engine"] = pc["engine"]
  BY <1>1, <1>3
<1>5. Elsewhere => Elsewhere'
  BY <1>1, <1>2, <1>3 DEF Elsewhere, At
<1>6. Other' = Other
  BY <1>2 DEF Other
<1>7. NoneLeft => NoneLeft'
  <2>1. CASE work' = work
    BY <1>6, <2>1 DEF NoneLeft
  <2>2. CASE work # <<>> /\ work' = Tail(work)
    BY <1>6, <2>2 DEF NoneLeft
  <2>3. CASE PutBack(c)
    <3>1. /\ keep[c] # <<>> /\ work' = Append(work, Head(keep[c])) /\ keep[c] \in Seq(Unspoken)
      BY <2>3 DEF PutBack, Hush, Numbers
    <3>2. Head(keep[c]) \in Unspoken
      BY <3>1
    <3>3. Head(keep[c]) \in Other
      BY <3>2 DEF Unspoken, Item, Other
    <3> QED
      BY <1>6, <3>1, <3>3 DEF NoneLeft
  <2>4. CASE PutResume(c)
    <3>1. work' = Append(work, Resume) /\ Resume \in Other
      BY <2>4, Items DEF PutResume, Other, Resume
    <3> QED
      BY <1>6, <3>1 DEF NoneLeft
  <2> QED
    BY <2>1, <2>2, <2>3, <2>4 DEF Canceler, Stop, DrainOne
<1>8. pc'["watchdog"] \in {"putback", "check", "set", "tell"} =>
        pc["watchdog"] \in {"putback", "check", "set", "tell"} \/ NoneLeft'
  <2>1. CASE Stop(c) \/ PutBack(c) \/ PutResume(c)
    <3>1. pc[c] = "putback" \/ pc' = [pc EXCEPT ![c] = "drain"]
      BY <2>1 DEF Stop, PutBack, PutResume, At, Go
    <3> QED
      BY <1>1, <1>3, <3>1, OneMoves
  <2>2. CASE DrainOne(c)
    <3>1. CASE work = <<>>
      <4>1. work' = <<>>
        BY <2>2, <3>1 DEF DrainOne
      <4> QED
        BY <4>1 DEF NoneLeft
    <3>2. CASE work # <<>>
      BY <2>2, <3>2 DEF DrainOne
    <3> QED
      BY <3>1, <3>2
  <2> QED
    BY <2>1, <2>2 DEF Canceler
<1>9. /\ pc'["watchdog"] \notin {"look", "ended"} => pc["watchdog"] \notin {"look", "ended"}
      /\ \A t \in Tellers : pc'[t] \in {"set", "tell"} => pc'[t] = pc[t]
  BY <1>1, <1>2, <1>3 DEF Tellers
<1> QED
  BY <1>2, <1>4, <1>5, <1>7, <1>8, <1>9, OnceStands DEF At

(* The reader's own steps.                                                 *)
LEMMA OnceReads ==
  ASSUME Hush, Lined, Once, Reader
  PROVE  Once'
<1>0. /\ "reader" \in Threads /\ "engine" \in Threads /\ "watchdog" \in Threads
      /\ "reader" \in Cancellers /\ Kind /\ Tellers = {"engine", "watchdog"}
      /\ spoken \in Nat /\ flight \in 0..spoken /\ piece \in Nat /\ sets \in Nat
  BY DEF Threads, Cancellers, Tellers, Hush, Lined, Kind, Fields
<1>1. CASE Canceler("reader")
  BY <1>0, <1>1, OnceCancels
<1>2. CASE ~Canceler("reader")
  <2>1. /\ UNCHANGED <<flight, tells, finished, raced, hand, since>>
        /\ (discarding => discarding')
        /\ pc' = pc \/ \E p : pc' = [pc EXCEPT !["reader"] = p]
    BY <1>2 DEF Reader, Speak, Post, Control, Pause, Cancel, Close, PutSentinel, Join, GiveUp,
       Discard, Go, readerOwn, posted, engineOwn, history, told, clock
  <2>2. pc'["engine"] = pc["engine"] /\ pc'["watchdog"] = pc["watchdog"]
    BY <1>0, <2>1, OneMoves
  <2>3. Other' = Other
    BY <2>1 DEF Other
  <2>4. Elsewhere => Elsewhere'
    <3>1. CASE Speak
      BY <1>0, <3>1 DEF Speak, told, Elsewhere
    <3>2. CASE Post
      BY <3>2, <2>1 DEF Post, Elsewhere, At
    <3>3. CASE Control \/ Pause
      <4>1. pc' = pc /\ spoken' = spoken
        BY <3>3 DEF Control, Pause
      <4> QED
        BY <2>1, <4>1 DEF Elsewhere, At
    <3>4. CASE Cancel \/ Close \/ PutSentinel \/ Join \/ GiveUp
      <4>1. \E p \in {"stop", "join", "closed"} : pc' = [pc EXCEPT !["reader"] = p]
        BY <3>4 DEF Cancel, Close, PutSentinel, Join, GiveUp, Discard, Go
      <4>2. ~At("reader", "posting")'
        BY <1>0, <4>1, OneMoves DEF At
      <4> QED
        BY <4>2 DEF Elsewhere
    <3> QED
      BY <1>2, <3>1, <3>2, <3>3, <3>4 DEF Reader
  <2>5. Elsewhere /\ NoneLeft => NoneLeft'
    <3>1. CASE Post
      <4>1. /\ pc["reader"] = "posting" /\ work' = Append(work, Speech(spoken, piece + 1))
        BY <3>1 DEF Post, At
      <4>2. Elsewhere => Speech(spoken, piece + 1) \in Other
        BY <1>0, <4>1, Items DEF Elsewhere, At, Other, Speech
      <4> QED
        BY <2>3, <4>1, <4>2 DEF NoneLeft
    <3>2. CASE Control
      <4>1. work' = Append(work, Setting(sets + 1)) /\ Setting(sets + 1) \in Other
        BY <1>0, <3>2, Items DEF Control, Other, Setting
      <4> QED
        BY <2>3, <4>1 DEF NoneLeft
    <3>3. CASE PutSentinel
      <4>1. work' = Append(work, Closing) /\ Closing \in Other
        BY <3>3, Items DEF PutSentinel, Other, Closing
      <4> QED
        BY <2>3, <4>1 DEF NoneLeft
    <3>4. CASE Speak \/ Pause \/ Cancel \/ Close \/ Join \/ GiveUp
      <4>1. work' = work
        BY <3>4 DEF Speak, Pause, Cancel, Close, Join, GiveUp
      <4> QED
        BY <2>3, <4>1 DEF NoneLeft
    <3> QED
      BY <1>2, <3>1, <3>2, <3>3, <3>4 DEF Reader
  <2> QED
    BY <1>0, <2>1, <2>2, <2>4, <2>5, OnceStands DEF At
<1> QED
  BY <1>1, <1>2

LEMMA OnceKept ==
  ASSUME Hush, Lined, Once, tells \in Nat, [Next]_vars
  PROVE  Once'
<1>0. /\ "reader" \in Threads /\ "engine" \in Threads /\ "watchdog" \in Threads
      /\ "watchdog" \in Cancellers /\ "watchdog" # "engine" /\ "watchdog" # "reader"
      /\ Kind /\ Tellers = {"engine", "watchdog"}
  BY DEF Threads, Cancellers, Tellers, Hush
<1>1. ASSUME UNCHANGED <<flight, spoken, pc>>
      PROVE  Elsewhere => Elsewhere'
  BY <1>1 DEF Elsewhere, At
<1>2. CASE Engine
  <2>1. CASE Get
    <3>1. /\ pc["engine"] = "get" /\ work # <<>> /\ hand' = Head(work) /\ work' = Tail(work)
          /\ UNCHANGED <<flight, tells, finished, raced, since, spoken, discarding>>
          /\ pc' = [pc EXCEPT !["engine"] =
                      IF Head(work) = Closing THEN "ended" ELSE Head(work).kind]
      BY <2>1 DEF Get, At, Go, readerOwn, posted, history, told, clock
    <3>2. /\ pc'["reader"] = pc["reader"] /\ pc'["watchdog"] = pc["watchdog"]
          /\ pc'["engine"] \in {"ended", "speech", "setting", "resume", "close"}
          /\ pc'["engine"] = "speech" => hand'.kind = "speech"
      <4>1. Head(work) \in ItemType
        BY <1>0, <3>1 DEF Kind, Fields
      <4> QED
        BY <1>0, <3>1, <4>1, OneMoves DEF ItemType
    <3>3. Other' = Other /\ (Elsewhere' <=> Elsewhere) /\ (NoneLeft => NoneLeft')
      <4>1. Other' = Other
        BY <3>1 DEF Other
      <4> QED
        BY <3>1, <3>2, <4>1 DEF Elsewhere, At, NoneLeft
    <3>4. FlightOver => FlightOver'
      <4>1. NoneLeft => hand' \in Other
        BY <3>1 DEF NoneLeft
      <4> QED
        BY <3>1, <3>2, <3>3, <4>1 DEF FlightOver, At, Other
    <3>5. since' # "long"
      BY <3>1 DEF Once
    <3>6. \A t \in Tellers : (Telling(t)' => Telling(t)) /\ (At(t, "tell")' => At(t, "tell"))
      BY <1>0, <3>2 DEF Telling, At
    <3>7. Single => Single'
      BY <1>0, <3>1, <3>2, <3>3, <3>4, <3>6 DEF Single
    <3> QED
      BY <3>1, <3>5, <3>7 DEF Once
  <2>2. CASE RunSetting \/ RunResume \/ SkipSpeech \/ Message \/ Synchronized \/ Feed
             \/ FeedRaises \/ Idle
    <3>1. /\ UNCHANGED <<flight, tells, finished, raced, hand, spoken, work>>
          /\ pc' = pc \/ \E p \in {"get", "message", "feed", "lastfeed", "idle", "check"} :
                           pc' = [pc EXCEPT !["engine"] = p]
      <4>1. CASE RunSetting \/ RunResume \/ SkipSpeech \/ Idle
        BY <4>1 DEF RunSetting, RunResume, SkipSpeech, Idle, Go, readerOwn, posted, history,
           told, clock
      <4>2. CASE Message \/ Synchronized
        <5>1. /\ UNCHANGED <<flight, tells, finished, raced, hand, spoken, work>>
              /\ \/ pc' = pc
                 \/ pc' = [pc EXCEPT !["engine"] = "get"]
                 \/ \E audio, marks : \E final \in BOOLEAN : Flush(audio, marks, final)
          BY <4>2 DEF Message, Synchronized, Go, readerOwn, posted, told
        <5> QED
          BY <5>1, Flushed
      <4>3. CASE Feed \/ FeedRaises
        <5>1. /\ UNCHANGED <<flight, tells, finished, raced, hand, spoken, work>>
              /\ AfterFlush(At("engine", "lastfeed"))
          BY <4>3 DEF Feed, FeedRaises, readerOwn, posted, told
        <5>2. At("engine", "lastfeed") \in BOOLEAN
          BY DEF At
        <5> QED
          BY <5>1, <5>2, Flushed
      <4> QED
        BY <2>2, <4>1, <4>2, <4>3
    <3>2. /\ pc["engine"] \in {"setting", "resume", "speech", "message", "feed", "lastfeed", "idle"}
          /\ since' = "long" =>
               since = "long" /\ pc["engine"] \notin {"feed", "lastfeed", "idle"}
      <4>1. CASE RunSetting \/ RunResume \/ SkipSpeech
        BY <4>1 DEF RunSetting, RunResume, SkipSpeech, At, clock
      <4>2. CASE Message \/ Synchronized
        BY <4>2 DEF Message, Synchronized, At, Flush, EnterFeed, NothingToFeed, AfterFlush, GoIdle
      <4>3. CASE Feed \/ FeedRaises
        BY <4>3 DEF Feed, FeedRaises, InFeed, AfterFlush, GoIdle
      <4>4. CASE Idle
        BY <4>4 DEF Idle, At
      <4> QED
        BY <2>2, <4>1, <4>2, <4>3, <4>4
    <3>3. since' # "long"
      BY <3>2 DEF Once
    <3>4. /\ pc'["reader"] = pc["reader"] /\ pc'["watchdog"] = pc["watchdog"]
          /\ pc'["engine"] \in {pc["engine"], "get", "message", "feed", "lastfeed", "idle", "check"}
      BY <1>0, <3>1, OneMoves DEF Threads
    <3>5. /\ Elsewhere => Elsewhere'
          /\ NoneLeft => NoneLeft'
      BY <3>1, <3>4 DEF Elsewhere, At, NoneLeft, Other
    <3>6. At("engine", "speech")' => At("engine", "speech") /\ discarding' = discarding
      <4>1. CASE RunResume
        BY <1>0, <4>1, OneMoves DEF RunResume, Go, At
      <4>2. CASE ~RunResume
        <5>1. discarding' = discarding
          BY <2>2, <4>2 DEF RunSetting, SkipSpeech, Message, Synchronized, Feed, FeedRaises, Idle
        <5> QED
          BY <3>4, <5>1 DEF At
      <4> QED
        BY <4>1, <4>2
    <3>7. \A t \in Tellers : pc'[t] \in {"set", "tell"} => pc'[t] = pc[t]
      BY <1>0, <3>4
    <3> QED
      BY <3>1, <3>3, <3>4, <3>5, <3>6, <3>7, OnceStands
  <2> QED
    BY <1>0, <1>2, <2>1, <2>2, OnceStarts, OnceTells DEF Engine
<1>3. CASE Watchdog
  <2>1. CASE Look \/ Judge \/ StopWatching
    <3>1. /\ UNCHANGED <<flight, tells, finished, raced, hand, spoken, work>>
          /\ discarding => discarding'
          /\ \E p \in {"judge", "look", "ended", "stop"} : pc' = [pc EXCEPT !["watchdog"] = p]
          /\ since' = "long" => since = "long"
      BY <2>1 DEF Look, Judge, StopWatching, Discard, Go, readerOwn, posted, engineOwn, history,
         told, clock
    <3>2. /\ pc'["reader"] = pc["reader"] /\ pc'["engine"] = pc["engine"]
          /\ pc'["watchdog"] \in {"judge", "look", "ended", "stop"}
      BY <1>0, <3>1, OneMoves
    <3>3. (Elsewhere => Elsewhere') /\ (NoneLeft => NoneLeft')
      BY <3>1, <3>2 DEF Elsewhere, At, NoneLeft, Other
    <3>4. CASE Look
      <4>1. Elsewhere'
        BY <3>3, <3>4 DEF Look, Once
      <4>2. \A t \in Tellers : (Telling(t)' => Telling(t)) /\ (At(t, "tell")' => At(t, "tell"))
        BY <1>0, <3>2 DEF Telling, At
      <4>3. FlightOver => FlightOver'
        BY <3>1, <3>2, <3>3 DEF FlightOver, At
      <4>4. Single => Single'
        BY <1>0, <3>1, <3>2, <4>1, <4>2, <4>3 DEF Single
      <4>5. since' = "long" => pc'["engine"] \in {"feed", "lastfeed", "idle"} /\ Elsewhere'
        BY <3>1, <3>2, <4>1 DEF Once
      <4> QED
        BY <3>1, <4>4, <4>5 DEF Once
    <3>5. CASE Judge \/ StopWatching
      <4>1. pc'["watchdog"] \notin {"look", "ended"} => pc["watchdog"] \notin {"look", "ended"}
        <5>1. CASE Judge
          BY <5>1 DEF Judge, At
        <5>2. CASE StopWatching
          BY <1>0, <5>2, OneMoves DEF StopWatching, Go
        <5> QED
          BY <3>5, <5>1, <5>2
      <4>2. \A t \in Tellers : pc'[t] \in {"set", "tell"} => pc'[t] = pc[t]
        BY <1>0, <3>2
      <4> QED
        BY <3>1, <3>2, <3>3, <4>1, <4>2, OnceStands DEF At
    <3> QED
      BY <2>1, <3>4, <3>5
  <2> QED
    BY <1>0, <1>3, <2>1, OnceCancels, OnceTells DEF Watchdog
<1>4. CASE TimePasses
  <2>1. /\ Standing /\ pc["reader"] \in {"free", "join", "closed"}
        /\ UNCHANGED <<flight, tells, finished, raced, hand, spoken, work, discarding, pc>>
    BY <1>4 DEF TimePasses, readerOwn, posted, history, told
  <2>2. pc["engine"] \in {"feed", "lastfeed", "idle"}
    BY <2>1 DEF Standing, InFeed, At
  <2>3. Elsewhere' /\ (NoneLeft => NoneLeft')
    BY <2>1 DEF Elsewhere, At, NoneLeft, Other
  <2>4. FlightOver => FlightOver'
    BY <2>1, <2>3 DEF FlightOver, At
  <2>5. Single => Single'
    BY <2>1, <2>3, <2>4 DEF Single, Telling, At
  <2> QED
    BY <2>1, <2>2, <2>3, <2>5 DEF Once
<1>5. CASE Play \/ Stall \/ Rest \/ UNCHANGED vars
  <2>1. UNCHANGED <<flight, tells, finished, raced, hand, since, spoken, work, discarding, pc>>
    BY <1>5 DEF Play, Stall, Rest, vars, readerOwn, posted, engineOwn, history, told, clock
  <2>2. (Elsewhere => Elsewhere') /\ (NoneLeft => NoneLeft')
    BY <2>1 DEF Elsewhere, At, NoneLeft, Other
  <2> QED
    BY <2>1, <2>2, OnceStands DEF At
<1> QED
  BY <1>2, <1>3, <1>4, <1>5, OnceReads DEF Next

LEMMA OnceInitially == Init => Once
<1> SUFFICES ASSUME Init PROVE Once
  OBVIOUS
<1>1. pc["engine"] = "get" /\ pc["watchdog"] = "look"
  BY DEF Init, Threads
<1>2. tells = 0 /\ since = "none"
  BY DEF Init
<1>3. \A t \in Tellers : ~Telling(t) /\ ~At(t, "tell")
  BY <1>1 DEF Tellers, Telling, At
<1>4. Single
  BY <1>1, <1>2, <1>3 DEF Single, Tellers
<1> QED
  BY <1>2, <1>4 DEF Once

(* The end of an utterance is told once, whichever thread gets there, for  *)
(* every script and however often the player is stalled, unless both were  *)
(* in _finish over it or the watchdog came there with speech let through.  *)
THEOREM EndIsToldOnce == Spec => []ToldOnce
<1>1. Once => ToldOnce
  BY DEF Once, Single, ToldOnce
<1>2. Hush /\ [Next]_vars => Hush'
  BY HushStep
<1>3. Hush /\ Lined /\ [Next]_vars => Lined'
  BY LinedKept
<1>4. TypeOK => tells \in Nat
  BY DEF TypeOK
<1>5. Hush /\ Lined /\ Once /\ tells \in Nat /\ [Next]_vars => Once'
  BY OnceKept
<1> QED
  BY <1>1, <1>2, <1>3, <1>4, <1>5, HushInitially, LinedInitially, OnceInitially,
     DriverTypeCorrect, PTL DEF Spec
=============================================================================
