-------------------------- MODULE ObjectTableProofs --------------------------
(***************************************************************************)
(* What holds of the table of objects for any threads, makers, mutexes and *)
(* number of slots, until two ral_binds have been in one slot: there is no *)
(* other way for the table to go wrong.                                    *)
(***************************************************************************)
EXTENDS ObjectTable, FiniteSetTheorems, WellFoundedInduction, TLAPS

Making == {"bind", "clear", "key", "obj"}
Dropping == {"drop", "unkey", "unobj"}
Using == {"lock", "wait", "inside"}

Typed ==
  /\ key \in [Slots -> Mutexes \cup {None}]
  /\ obj \in [Slots -> Mutexes \cup {None}]
  /\ count \in [Mutexes -> {0, 1}]
  /\ alive \subseteq Mutexes /\ made \subseteq Mutexes /\ refused \subseteq Mutexes
  /\ pc \in [Threads -> {"free"} \cup Making \cup Dropping \cup Using]
  /\ what \in [Threads -> Mutexes \cup {None}]
  /\ at \in [Threads -> Slots \cup {0}]
  /\ lock \in [Threads -> Mutexes \cup {None}]

(* Whoever makes or drops an object is the only one about it; whoever uses *)
(* one is about one that is made.                                          *)
Apart ==
  \A t \in Threads :
    /\ pc[t] = "free" => what[t] = None
    /\ pc[t] # "free" => what[t] \in Mutexes
    /\ pc[t] \in Making \cup Dropping =>
         what[t] \notin made /\ \A s \in Threads : what[s] = what[t] => s = t
    /\ pc[t] \in Using => what[t] \in made

(* A key and an object are in one slot, and in the same, but while the     *)
(* slot is being filled or emptied.                                        *)
Matched ==
  /\ \A i, j \in Slots : key[i] = key[j] /\ key[i] # None => i = j
  /\ \A i, j \in Slots : obj[i] = obj[j] /\ obj[i] # None => i = j
  /\ \A i \in Slots : obj[i] # None =>
       \/ key[i] = obj[i]
       \/ key[i] = None /\ \E t \in Threads :
            pc[t] = "unobj" /\ at[t] = i /\ what[t] = obj[i]
  /\ \A i \in Slots : key[i] # None =>
       \/ obj[i] = key[i]
       \/ obj[i] = None /\ \E t \in Threads :
            pc[t] = "obj" /\ at[t] = i /\ what[t] = key[i]

InItsSlot(o) == o \in alive /\ \E i \in Slots : key[i] = o /\ obj[i] = o
NoKey(o) == \A i \in Slots : key[i] # o
NoObj(o) == \A i \in Slots : obj[i] # o
Nowhere(o) == o \notin alive /\ NoKey(o) /\ NoObj(o)

(* What a thread may count on of the object it makes or drops.             *)
AtWork(t) ==
  /\ pc[t] = "drop" =>
       IF what[t] \in refused THEN Nowhere(what[t]) ELSE InItsSlot(what[t])
  /\ pc[t] \in {"bind", "clear", "key"} =>
       what[t] \in alive /\ NoKey(what[t]) /\ NoObj(what[t])
  /\ pc[t] \in {"clear", "key"} =>
       at[t] \in Slots /\ key[at[t]] = None /\ obj[at[t]] = None
  /\ pc[t] = "obj" =>
       /\ what[t] \in alive /\ NoObj(what[t])
       /\ at[t] \in Slots /\ key[at[t]] = what[t] /\ obj[at[t]] = None
  /\ pc[t] \in {"unkey", "unobj"} =>
       /\ what[t] \notin alive
       /\ at[t] \in Slots /\ obj[at[t]] = what[t]
       /\ key[at[t]] = IF pc[t] = "unkey" THEN what[t] ELSE None

(* Where an object is, by who is about it.                                 *)
Whereabouts ==
  /\ \A o \in made : IF o \in refused THEN Nowhere(o) ELSE InItsSlot(o)
  /\ \A o \in Mutexes \ made : Unused(o) => Nowhere(o)
  /\ refused \subseteq made \cup {what[t] : t \in {s \in Threads : pc[s] = "drop"}}
  /\ \A t \in Threads : AtWork(t)

(* A count of one is nobody's, and nobody has what somebody has.           *)
Held ==
  /\ \A t \in Threads :
       /\ pc[t] \in {"wait", "inside"} =>
            lock[t] = IF what[t] \in refused THEN None ELSE what[t]
       /\ pc[t] = "wait" => what[t] \notin refused
  /\ \A o \in Mutexes \ refused : \A s \in Threads :
       pc[s] = "inside" /\ what[s] = o =>
         count[o] = 0 /\ \A t \in Threads : pc[t] = "inside" /\ what[t] = o => s = t

TableInv == Typed /\ Apart /\ Matched /\ Whereabouts /\ Held

(* No two threads are filling one slot.                                    *)
HasSlot(t) == pc[t] \in {"clear", "key", "obj"}
SlotsApart ==
  \A s, t \in Threads : HasSlot(s) /\ HasSlot(t) /\ at[s] = at[t] => s = t

UntilTheyClash == clashed \/ (TableInv /\ SlotsApart)

-----------------------------------------------------------------------------
(* The search.                                                             *)
LEMMA FirstOf ==
  ASSUME NEW S \in SUBSET Slots, S # {}
  PROVE  First(S) \in S
<1> DEFINE Less == OpToRel(<, Nat)
<1>0. S \subseteq Nat
  BY TableAssumption DEF Slots
<1>1. IsWellFoundedOn(Less, Nat)
  BY NatLessThanWellFounded
<1>2. \A m, n \in Nat : m < n => <<m, n>> \in Less
  BY DEF OpToRel
<1> HIDE DEF Less
<1>3. PICK i \in S : \A j \in S : ~(<<j, i>> \in Less)
  BY <1>0, <1>1, WFMin
<1>4. \A j \in S : ~(j < i) /\ j \in Nat /\ i \in Nat
  BY <1>0, <1>2, <1>3
<1>5. \A j \in S : i <= j
  BY <1>4
<1> QED
  BY <1>5 DEF First

LEMMA FoundInItsSlot ==
  ASSUME Matched, NEW o \in Mutexes, NEW i \in Slots, key[i] = o, obj[i] = o
  PROVE  SlotOf(o) = i /\ Found(o) = o
<1> DEFINE S == {j \in Slots : key[j] = o}
<1>1. First(S) \in S
  <2>1. S \in SUBSET Slots /\ S # {}
    OBVIOUS
  <2> HIDE DEF S
  <2> QED
    BY <2>1, FirstOf
<1>2. SlotOf(o) \in Slots /\ key[SlotOf(o)] = o
  BY <1>1 DEF SlotOf
<1>3. o # None
  BY TableAssumption
<1>4. SlotOf(o) = i
  BY <1>2, <1>3 DEF Matched
<1>5. i # 0
  BY TableAssumption DEF Slots
<1> QED
  BY <1>4, <1>5 DEF Found

LEMMA FoundNowhere ==
  ASSUME NEW o, NoKey(o)
  PROVE  SlotOf(o) = 0 /\ Found(o) = None
<1>1. {i \in Slots : key[i] = o} = {}
  BY DEF NoKey
<1> QED
  BY <1>1 DEF SlotOf, First, Found

LEMMA FoundEither ==
  ASSUME Typed, Matched, NEW o \in Mutexes, NEW R,
         IF R THEN Nowhere(o) ELSE InItsSlot(o)
  PROVE  /\ Found(o) = IF R THEN None ELSE o
         /\ ~R => SlotOf(o) \in Slots /\ key[SlotOf(o)] = o /\ obj[SlotOf(o)] = o
<1>1. CASE R
  BY <1>1, FoundNowhere DEF Nowhere
<1>2. CASE ~R
  BY <1>2, FoundInItsSlot DEF InItsSlot
<1> QED
  BY <1>1, <1>2

-----------------------------------------------------------------------------
LEMMA TableInit == Init => TableInv
<1> SUFFICES ASSUME Init PROVE TableInv
  OBVIOUS
<1>1. Typed
  BY DEF Init, Typed
<1>2. Apart
  BY DEF Init, Apart, Making, Dropping, Using
<1>3. Matched
  BY DEF Init, Matched
<1>4. Whereabouts
  BY TableAssumption DEF Init, Whereabouts, AtWork, Nowhere, NoKey, NoObj
<1>5. Held
  BY DEF Init, Held
<1> QED
  BY <1>1, <1>2, <1>3, <1>4, <1>5 DEF TableInv

(* Who moves, and who does not.                                            *)
LEMMA Goes ==
  ASSUME Typed, NEW t \in Threads, NEW p, Go(t, p)
  PROVE  /\ pc'[t] = p /\ \A s \in Threads : s # t => pc'[s] = pc[s]
         /\ p \in {"free"} \cup Making \cup Dropping \cup Using =>
              pc' \in [Threads -> {"free"} \cup Making \cup Dropping \cup Using]
  BY DEF Typed, Go

LEMMA Forgets ==
  ASSUME Typed, NEW t \in Threads, Forget(t)
  PROVE  /\ pc'[t] = "free" /\ what'[t] = None /\ at'[t] = 0
         /\ \A s \in Threads : s # t =>
              pc'[s] = pc[s] /\ what'[s] = what[s] /\ at'[s] = at[s]
         /\ pc' \in [Threads -> {"free"} \cup Making \cup Dropping \cup Using]
         /\ what' \in [Threads -> Mutexes \cup {None}]
         /\ at' \in [Threads -> Slots \cup {0}]
<1>1. Go(t, "free")
  BY DEF Forget
<1>2. /\ what'[t] = None /\ at'[t] = 0
      /\ \A s \in Threads : s # t => what'[s] = what[s] /\ at'[s] = at[s]
      /\ what' \in [Threads -> Mutexes \cup {None}]
      /\ at' \in [Threads -> Slots \cup {0}]
  BY DEF Typed, Forget
<1> QED
  BY <1>1, <1>2, Goes

(* A step of a thread that is neither filling nor emptying a slot.         *)
LEMMA MatchedStill ==
  ASSUME Matched, UNCHANGED table, NEW t \in Threads, pc[t] \notin {"obj", "unobj"},
         \A s \in Threads : s # t =>
           pc'[s] = pc[s] /\ what'[s] = what[s] /\ at'[s] = at[s]
  PROVE  Matched'
<1>1. key' = key /\ obj' = obj
  BY DEF table
<1>2. \A s \in Threads : pc[s] \in {"obj", "unobj"} =>
        pc'[s] = pc[s] /\ what'[s] = what[s] /\ at'[s] = at[s]
  OBVIOUS
<1> QED
  BY <1>1, <1>2 DEF Matched

(* A step that leaves the table as it is and changes nobody's semaphore:   *)
(* who gets about an object, or is done with it, is the mover.             *)
LEMMA MakeKeeps ==
  ASSUME TableInv, NEW t \in Threads, NEW o \in Mutexes, Make(t, o)
  PROVE  TableInv'
<1> USE DEF TableInv
<1>1. /\ pc[t] = "free" /\ t \in Makers /\ o \notin made /\ Unused(o)
      /\ alive' = alive \cup {o} /\ count' = [count EXCEPT ![o] = 1]
      /\ what' = [what EXCEPT ![t] = o] /\ Go(t, "bind")
      /\ UNCHANGED <<key, obj, made, at, lock, refused>>
  BY DEF Make, AtFirst, table
<1>2. /\ pc'[t] = "bind" /\ what'[t] = o
      /\ \A s \in Threads : s # t => pc'[s] = pc[s] /\ what'[s] = what[s]
  BY <1>1, Goes DEF Typed
<1>3. \A s \in Threads : what[s] # o
  BY <1>1 DEF Unused
<1>4. Nowhere(o) /\ o \notin refused
  BY <1>1, <1>3 DEF Whereabouts
<1>5. Typed'
  BY <1>1, Goes DEF Typed, Making
<1>6. Apart'
  BY <1>1, <1>2, <1>3 DEF Apart, Making, Dropping, Using
<1>7. Matched'
  BY <1>1, <1>2, MatchedStill DEF table
<1>8. Whereabouts'
  <2>1. \A p \in Mutexes : /\ NoKey(p)' <=> NoKey(p)
                           /\ NoObj(p)' <=> NoObj(p)
                           /\ p # o => (Nowhere(p)' <=> Nowhere(p))
                           /\ InItsSlot(p) => InItsSlot(p)'
    BY <1>1 DEF NoKey, NoObj, Nowhere, InItsSlot
  <2>2. \A p \in made : IF p \in refused THEN Nowhere(p)' ELSE InItsSlot(p)'
    BY <1>1, <2>1 DEF Whereabouts, Typed
  <2>3. \A p \in Mutexes \ made : Unused(p)' => Nowhere(p)'
    <3> SUFFICES ASSUME NEW p \in Mutexes \ made, Unused(p)' PROVE Nowhere(p)'
      OBVIOUS
    <3>1. p # o
      BY <1>2 DEF Unused
    <3>2. Unused(p)
      BY <1>1, <1>2, TableAssumption DEF Unused, Apart
    <3> QED
      BY <2>1, <3>1, <3>2 DEF Whereabouts
  <2>4. refused \subseteq made \cup {what'[s] : s \in {r \in Threads : pc'[r] = "drop"}}
    BY <1>1, <1>2 DEF Whereabouts
  <2>5. ASSUME NEW s \in Threads PROVE AtWork(s)'
    <3>1. CASE s = t
      <4>1. o \in alive' /\ NoKey(o)' /\ NoObj(o)'
        BY <1>1, <1>4, <2>1 DEF Nowhere
      <4>2. pc'[s] = "bind" /\ what'[s] = o
        BY <1>2, <3>1
      <4>3. NoKey(what[s])' /\ NoObj(what[s])'
        BY <4>1, <4>2 DEF NoKey, NoObj
      <4> QED
        BY <4>1, <4>2, <4>3 DEF AtWork
    <3>2. CASE s # t
      <4>1. pc'[s] = pc[s] /\ what'[s] = what[s] /\ what[s] # o
        BY <1>2, <1>3, <3>2
      <4>2. UNCHANGED <<key, obj, at, refused>> /\ alive' = alive \cup {o}
        BY <1>1
      <4>3. AtWork(s)
        BY DEF Whereabouts
      <4> QED
        BY <4>1, <4>2, <4>3 DEF AtWork, Nowhere, NoKey, NoObj, InItsSlot
    <3> QED
      BY <3>1, <3>2
  <2> QED
    BY <1>1, <2>2, <2>3, <2>4, <2>5 DEF Whereabouts
<1>9. Held'
  BY <1>1, <1>2, <1>3 DEF Held, Typed
<1> QED
  BY <1>5, <1>6, <1>7, <1>8, <1>9

(* What another thread is at, where the table is left alone.               *)
LEMMA AtWorkStill ==
  ASSUME UNCHANGED table, NEW s \in Threads, AtWork(s),
         pc'[s] = pc[s], what'[s] = what[s], at'[s] = at[s],
         what[s] \in alive' <=> what[s] \in alive,
         what[s] \in refused' <=> what[s] \in refused
  PROVE  AtWork(s)'
  BY DEF table, AtWork, Nowhere, NoKey, NoObj, InItsSlot

(* A step within making an object or taking it, that leaves the table and  *)
(* what is underneath as they are.                                         *)
LEMMA WhereaboutsStill ==
  ASSUME Whereabouts, UNCHANGED <<table, alive, made, what, refused>>,
         NEW t \in Threads, pc[t] # "drop", AtWork(t)',
         \A s \in Threads : s # t => pc'[s] = pc[s] /\ at'[s] = at[s]
  PROVE  Whereabouts'
<1>1. key' = key /\ obj' = obj
  BY DEF table
<1>2. \A s \in Threads : AtWork(s)'
  BY AtWorkStill DEF Whereabouts
<1>3. /\ \A o \in made : IF o \in refused THEN Nowhere(o)' ELSE InItsSlot(o)'
      /\ \A o \in Mutexes \ made : Unused(o) => Nowhere(o)'
  BY <1>1 DEF Whereabouts, Nowhere, NoKey, NoObj, InItsSlot
<1>4. refused \subseteq made \cup {what[s] : s \in {r \in Threads : pc'[r] = "drop"}}
  BY DEF Whereabouts
<1> QED
  BY <1>2, <1>3, <1>4 DEF Whereabouts, Unused

LEMMA SeekKeeps ==
  ASSUME TableInv, ~clashed', NEW t \in Threads, Seek(t)
  PROVE  TableInv'
<1> USE DEF TableInv
<1>1. /\ pc[t] = "bind" /\ Slot(what[t]) # 0
      /\ at' = [at EXCEPT ![t] = Slot(what[t])] /\ Go(t, "clear")
      /\ UNCHANGED <<key, obj, count, alive, made, what, lock, refused>>
      /\ UNCHANGED table
  BY DEF Seek, table
<1>2. what[t] \in alive /\ NoKey(what[t]) /\ NoObj(what[t])
  BY <1>1 DEF Whereabouts, AtWork
<1>3. /\ Slot(what[t]) \in Slots /\ obj[Slot(what[t])] = None
  <2> DEFINE S == {i \in Slots : Vacant(i)}
  <2>1. Slot(what[t]) = First(S)
    BY <1>2, FoundNowhere DEF Slot
  <2>2. S # {}
    BY <1>1, <2>1 DEF First
  <2>3. First(S) \in S
    <3>1. S \in SUBSET Slots
      OBVIOUS
    <3> HIDE DEF S
    <3> QED
      BY <2>2, <3>1, FirstOf
  <2> QED
    BY <2>1, <2>3 DEF Vacant
<1>4. key[Slot(what[t])] = None
  <2> SUFFICES ASSUME key[Slot(what[t])] # None PROVE FALSE
    OBVIOUS
  <2>1. PICK s \in Threads : pc[s] = "obj" /\ at[s] = Slot(what[t])
    BY <1>3 DEF Matched
  <2>2. Filling(Slot(what[t]))
    BY <2>1 DEF Filling
  <2> QED
    BY <2>2 DEF Seek
<1>5. /\ pc'[t] = "clear" /\ at'[t] = Slot(what[t])
      /\ \A s \in Threads : s # t => pc'[s] = pc[s] /\ at'[s] = at[s]
  BY <1>1, Goes DEF Typed
<1>6. Typed'
  <2>1. at' \in [Threads -> Slots \cup {0}]
    BY <1>1, <1>3 DEF Typed
  <2> QED
    BY <1>1, <2>1, Goes DEF Typed, Making
<1>7. Apart'
  BY <1>1, <1>5 DEF Apart, Making, Dropping, Using
<1>8. Matched'
  BY <1>1, <1>5, MatchedStill
<1>9. Whereabouts'
  <2>1. AtWork(t)'
    BY <1>1, <1>2, <1>3, <1>4, <1>5 DEF AtWork, NoKey, NoObj
  <2> QED
    BY <1>1, <1>5, <2>1, WhereaboutsStill
<1>10. Held'
  BY <1>1, <1>5 DEF Held
<1> QED
  BY <1>6, <1>7, <1>8, <1>9, <1>10

(* The slot is empty, so that nothing is cleared.                          *)
LEMMA ClearKeeps ==
  ASSUME TableInv, NEW t \in Threads, Clear(t)
  PROVE  TableInv'
<1> USE DEF TableInv
<1>1. /\ pc[t] = "clear" /\ alive' = alive \ {obj[at[t]]} /\ Go(t, "key")
      /\ UNCHANGED <<key, obj, count, made, what, at, lock, refused>>
      /\ UNCHANGED table
  BY DEF Clear, table
<1>2. /\ what[t] \in alive /\ NoKey(what[t]) /\ NoObj(what[t])
      /\ at[t] \in Slots /\ key[at[t]] = None /\ obj[at[t]] = None
  BY <1>1 DEF Whereabouts, AtWork
<1>3. alive' = alive
  BY <1>1, <1>2, TableAssumption DEF Typed
<1>4. pc'[t] = "key" /\ \A s \in Threads : s # t => pc'[s] = pc[s]
  BY <1>1, Goes DEF Typed
<1>5. Typed'
  BY <1>1, <1>3, Goes DEF Typed, Making
<1>6. Apart'
  BY <1>1, <1>4 DEF Apart, Making, Dropping, Using
<1>7. Matched'
  BY <1>1, <1>4, MatchedStill
<1>8. Whereabouts'
  <2>1. AtWork(t)'
    BY <1>1, <1>2, <1>3, <1>4 DEF AtWork, NoKey, NoObj
  <2> QED
    BY <1>1, <1>3, <1>4, <2>1, WhereaboutsStill
<1>9. Held'
  BY <1>1, <1>4 DEF Held
<1> QED
  BY <1>5, <1>6, <1>7, <1>8, <1>9

LEMMA RefuseKeeps ==
  ASSUME TableInv, NEW t \in Threads, Refuse(t)
  PROVE  TableInv'
<1> USE DEF TableInv
<1>0. PICK o : o = what[t]
  OBVIOUS
<1>1. /\ pc[t] = "bind" /\ alive' = alive \ {o} /\ made' = made \cup {o}
      /\ refused' = refused \cup {o} /\ Forget(t)
      /\ UNCHANGED <<key, obj, count, lock>> /\ UNCHANGED table
  BY <1>0 DEF Refuse, GivenBack, table
<1>2. o \in Mutexes /\ NoKey(o) /\ NoObj(o)
  BY <1>0, <1>1 DEF Whereabouts, AtWork, Apart, NoKey, NoObj
<1>3. o \notin made /\ \A s \in Threads : s # t => what[s] # o
  BY <1>0, <1>1 DEF Apart, Making
<1>4. /\ pc'[t] = "free" /\ what'[t] = None /\ at'[t] = 0
      /\ \A s \in Threads : s # t =>
           pc'[s] = pc[s] /\ what'[s] = what[s] /\ at'[s] = at[s]
  BY <1>1, Forgets
<1>5. Typed'
  BY <1>1, <1>2, Forgets DEF Typed
<1>6. Apart'
  BY <1>1, <1>3, <1>4, TableAssumption DEF Apart, Making, Dropping, Using
<1>7. Matched'
  BY <1>1, <1>4, MatchedStill
<1>8. Whereabouts'
  <2>1. Nowhere(o)'
    BY <1>1, <1>2 DEF Nowhere, NoKey, NoObj
  <2>2. \A p \in Mutexes : p # o => /\ Nowhere(p) => Nowhere(p)'
                                    /\ InItsSlot(p) => InItsSlot(p)'
    BY <1>1 DEF Nowhere, NoKey, NoObj, InItsSlot
  <2>3. \A p \in made' : IF p \in refused' THEN Nowhere(p)' ELSE InItsSlot(p)'
    BY <1>1, <2>1, <2>2 DEF Whereabouts, Typed
  <2>4. \A p \in Mutexes \ made' : Unused(p)' => Nowhere(p)'
    <3> SUFFICES ASSUME NEW p \in Mutexes \ made', Unused(p)' PROVE Nowhere(p)'
      OBVIOUS
    <3>1. p # o /\ p \notin made
      BY <1>1
    <3>2. Unused(p)
      BY <1>0, <1>4, <3>1 DEF Unused
    <3> QED
      BY <2>2, <3>1, <3>2 DEF Whereabouts
  <2>5. refused' \subseteq made' \cup {what'[s] : s \in {r \in Threads : pc'[r] = "drop"}}
    BY <1>1, <1>4 DEF Whereabouts
  <2>6. ASSUME NEW s \in Threads PROVE AtWork(s)'
    <3>1. CASE s = t
      BY <1>4, <3>1 DEF AtWork
    <3>2. CASE s # t
      <4>1. AtWork(s) /\ pc'[s] = pc[s] /\ what'[s] = what[s] /\ at'[s] = at[s]
        BY <1>4, <3>2 DEF Whereabouts
      <4>2. what[s] # o
        BY <1>3, <3>2
      <4> QED
        BY <1>1, <4>1, <4>2, AtWorkStill
    <3> QED
      BY <3>1, <3>2
  <2> QED
    BY <2>3, <2>4, <2>5, <2>6 DEF Whereabouts
<1>9. Held'
  BY <1>1, <1>3, <1>4 DEF Held
<1> QED
  BY <1>5, <1>6, <1>7, <1>8, <1>9

LEMMA WriteKeyKeeps ==
  ASSUME TableInv, SlotsApart, NEW t \in Threads, WriteKey(t)
  PROVE  TableInv'
<1> USE DEF TableInv
<1>0. PICK o, i : o = what[t] /\ i = at[t]
  OBVIOUS
<1>1. /\ pc[t] = "key" /\ key' = [key EXCEPT ![i] = o] /\ Go(t, "obj")
      /\ UNCHANGED <<obj, count, alive, made, what, at, lock, refused>>
  BY <1>0 DEF WriteKey
<1>2. /\ o \in Mutexes /\ o # None /\ o \in alive /\ NoKey(o) /\ NoObj(o)
      /\ i \in Slots /\ key[i] = None /\ obj[i] = None
  BY <1>0, <1>1, TableAssumption DEF Whereabouts, AtWork, Apart, NoKey, NoObj
<1>3. o \notin made /\ \A s \in Threads : s # t => what[s] # o
  BY <1>0, <1>1 DEF Apart, Making
<1>4. \A s \in Threads : s # t /\ HasSlot(s) => at[s] # i
  BY <1>0, <1>1 DEF SlotsApart, HasSlot
<1>5. pc'[t] = "obj" /\ \A s \in Threads : s # t => pc'[s] = pc[s]
  BY <1>1, Goes DEF Typed
<1>6. key'[i] = o /\ \A j \in Slots : j # i => key'[j] = key[j]
  BY <1>1, <1>2 DEF Typed
<1>7. Typed'
  <2>1. key' \in [Slots -> Mutexes \cup {None}]
    BY <1>1, <1>2 DEF Typed
  <2> QED
    BY <1>1, <2>1, Goes DEF Typed, Making
<1>8. Apart'
  BY <1>1, <1>5 DEF Apart, Making, Dropping, Using
<1>9. Matched'
  <2>1. \A j, k \in Slots : key'[j] = key'[k] /\ key'[j] # None => j = k
    BY <1>2, <1>6 DEF Matched, NoKey
  <2>2. \A j \in Slots : obj[j] # None =>
          \/ key'[j] = obj[j]
          \/ key'[j] = None /\ \E s \in Threads :
               pc'[s] = "unobj" /\ at[s] = j /\ what[s] = obj[j]
    BY <1>1, <1>2, <1>5, <1>6 DEF Matched
  <2>3. \A j \in Slots : key'[j] # None =>
          \/ obj[j] = key'[j]
          \/ obj[j] = None /\ \E s \in Threads :
               pc'[s] = "obj" /\ at[s] = j /\ what[s] = key'[j]
    BY <1>0, <1>1, <1>2, <1>5, <1>6 DEF Matched
  <2> QED
    BY <1>1, <2>1, <2>2, <2>3 DEF Matched
<1>10. Whereabouts'
  <2>1. \A p \in Mutexes : p # o => /\ Nowhere(p) => Nowhere(p)'
                                    /\ InItsSlot(p) => InItsSlot(p)'
                                    /\ NoKey(p) => NoKey(p)'
                                    /\ NoObj(p) => NoObj(p)'
    BY <1>1, <1>2, <1>6, TableAssumption DEF Nowhere, NoKey, NoObj, InItsSlot
  <2>2. \A p \in made : IF p \in refused THEN Nowhere(p)' ELSE InItsSlot(p)'
    BY <1>3, <2>1 DEF Whereabouts, Typed
  <2>3. \A p \in Mutexes \ made : Unused(p) => Nowhere(p)'
    BY <1>0, <2>1 DEF Whereabouts, Unused
  <2>4. refused \subseteq made \cup {what[s] : s \in {r \in Threads : pc'[r] = "drop"}}
    BY <1>1, <1>5 DEF Whereabouts
  <2>5. ASSUME NEW s \in Threads PROVE AtWork(s)'
    <3>1. CASE s = t
      BY <1>0, <1>1, <1>2, <1>5, <1>6, <3>1 DEF AtWork, NoObj
    <3>2. CASE s # t
      <4>1. AtWork(s) /\ pc'[s] = pc[s]
        BY <1>5, <3>2 DEF Whereabouts
      <4>2. pc[s] # "free" => what[s] \in Mutexes /\ what[s] # o
        BY <1>3, <3>2 DEF Apart
      <4>3. pc[s] = "drop" =>
              IF what[s] \in refused THEN Nowhere(what[s])' ELSE InItsSlot(what[s])'
        <5>1. PICK p : p = what[s]
          OBVIOUS
        <5>2. pc[s] = "drop" => IF p \in refused THEN Nowhere(p)' ELSE InItsSlot(p)'
          BY <2>1, <4>1, <4>2, <5>1 DEF AtWork, Nowhere, NoKey, NoObj, InItsSlot
        <5> QED
          BY <1>1, <5>1, <5>2 DEF Nowhere, NoKey, NoObj, InItsSlot
      <4>4. HasSlot(s) \/ pc[s] \in {"unkey", "unobj"} => at[s] # i
        BY <1>2, <1>4, <3>2, <4>1, <4>2, TableAssumption DEF AtWork, HasSlot
      <4>5. /\ pc[s] \in {"bind", "clear", "key"} => NoKey(what[s])' /\ NoObj(what[s])'
            /\ pc[s] = "obj" => NoObj(what[s])'
        BY <1>1, <1>6, <4>1, <4>2 DEF AtWork, NoKey, NoObj
      <4> QED
        BY <1>1, <1>6, <4>1, <4>3, <4>4, <4>5 DEF AtWork, HasSlot
    <3> QED
      BY <3>1, <3>2
  <2> QED
    BY <1>1, <2>2, <2>3, <2>4, <2>5 DEF Whereabouts, Unused
<1>11. Held'
  BY <1>1, <1>5 DEF Held
<1> QED
  BY <1>7, <1>8, <1>9, <1>10, <1>11

LEMMA WriteObjKeeps ==
  ASSUME TableInv, SlotsApart, NEW t \in Threads, WriteObj(t)
  PROVE  TableInv'
<1> USE DEF TableInv
<1>0. PICK o, i : o = what[t] /\ i = at[t]
  OBVIOUS
<1>1. /\ pc[t] = "obj" /\ obj' = [obj EXCEPT ![i] = o]
      /\ made' = made \cup {o} /\ Forget(t)
      /\ UNCHANGED <<key, count, alive, lock, refused>>
  BY <1>0 DEF WriteObj
<1>2. /\ o \in Mutexes /\ o # None /\ o \in alive /\ NoObj(o)
      /\ i \in Slots /\ key[i] = o /\ obj[i] = None
  BY <1>0, <1>1, TableAssumption DEF Whereabouts, AtWork, Apart, NoObj
<1>3. o \notin made /\ \A s \in Threads : s # t => what[s] # o
  BY <1>0, <1>1 DEF Apart, Making
<1>4. \A s \in Threads : s # t /\ HasSlot(s) => at[s] # i
  BY <1>0, <1>1 DEF SlotsApart, HasSlot
<1>5. /\ pc'[t] = "free" /\ what'[t] = None /\ at'[t] = 0
      /\ \A s \in Threads : s # t =>
           pc'[s] = pc[s] /\ what'[s] = what[s] /\ at'[s] = at[s]
  BY <1>1, Forgets
<1>6. obj'[i] = o /\ \A j \in Slots : j # i => obj'[j] = obj[j]
  BY <1>1, <1>2 DEF Typed
<1>7. Typed'
  <2>1. obj' \in [Slots -> Mutexes \cup {None}]
    BY <1>1, <1>2 DEF Typed
  <2> QED
    BY <1>1, <1>2, <2>1, Forgets DEF Typed
<1>8. Apart'
  BY <1>1, <1>3, <1>5, TableAssumption DEF Apart, Making, Dropping, Using
<1>9. Matched'
  <2>1. \A j, k \in Slots : obj'[j] = obj'[k] /\ obj'[j] # None => j = k
    BY <1>2, <1>6 DEF Matched, NoObj
  <2>2. \A j \in Slots : obj'[j] # None =>
          \/ key[j] = obj'[j]
          \/ key[j] = None /\ \E s \in Threads :
               pc'[s] = "unobj" /\ at'[s] = j /\ what'[s] = obj'[j]
    BY <1>1, <1>2, <1>5, <1>6 DEF Matched
  <2>3. \A j \in Slots : key[j] # None =>
          \/ obj'[j] = key[j]
          \/ obj'[j] = None /\ \E s \in Threads :
               pc'[s] = "obj" /\ at'[s] = j /\ what'[s] = key[j]
    BY <1>0, <1>1, <1>2, <1>5, <1>6 DEF Matched
  <2> QED
    BY <1>1, <2>1, <2>2, <2>3 DEF Matched
<1>10. Whereabouts'
  <2>1. \A p \in Mutexes : p # o => /\ Nowhere(p) => Nowhere(p)'
                                    /\ InItsSlot(p) => InItsSlot(p)'
    BY <1>1, <1>2, <1>6, TableAssumption DEF Nowhere, NoKey, NoObj, InItsSlot
  <2>2. o \notin refused
    BY <1>0, <1>1, <1>3 DEF Whereabouts
  <2>3. InItsSlot(o)'
    BY <1>1, <1>2, <1>6 DEF InItsSlot
  <2>4. \A p \in made' : IF p \in refused THEN Nowhere(p)' ELSE InItsSlot(p)'
    BY <1>1, <1>3, <2>1, <2>2, <2>3 DEF Whereabouts, Typed
  <2>5. \A p \in Mutexes \ made' : Unused(p)' => Nowhere(p)'
    <3> SUFFICES ASSUME NEW p \in Mutexes \ made', Unused(p)' PROVE Nowhere(p)'
      OBVIOUS
    <3>1. p # o /\ p \notin made
      BY <1>1
    <3>2. Unused(p)
      BY <1>0, <1>5, <3>1 DEF Unused
    <3> QED
      BY <2>1, <3>1, <3>2 DEF Whereabouts
  <2>6. refused \subseteq made' \cup {what'[s] : s \in {r \in Threads : pc'[r] = "drop"}}
    BY <1>1, <1>5 DEF Whereabouts
  <2>7. ASSUME NEW s \in Threads PROVE AtWork(s)'
    <3>1. CASE s = t
      BY <1>5, <3>1 DEF AtWork
    <3>2. CASE s # t
      <4>1. /\ AtWork(s) /\ pc'[s] = pc[s]
            /\ what'[s] = what[s] /\ at'[s] = at[s]
        BY <1>5, <3>2 DEF Whereabouts
      <4>2. pc[s] # "free" => what[s] \in Mutexes /\ what[s] # o
        BY <1>3, <3>2 DEF Apart
      <4>3. pc[s] = "drop" =>
              IF what[s] \in refused THEN Nowhere(what[s])' ELSE InItsSlot(what[s])'
        <5>1. PICK p : p = what[s]
          OBVIOUS
        <5>2. pc[s] = "drop" => IF p \in refused THEN Nowhere(p)' ELSE InItsSlot(p)'
          BY <2>1, <4>1, <4>2, <5>1 DEF AtWork, Nowhere, NoKey, NoObj, InItsSlot
        <5> QED
          BY <4>1, <5>1, <5>2 DEF Nowhere, NoKey, NoObj, InItsSlot
      <4>4. HasSlot(s) \/ pc[s] \in {"unkey", "unobj"} => at[s] # i
        BY <1>2, <1>4, <3>2, <4>1, <4>2, TableAssumption DEF AtWork, HasSlot
      <4>5. /\ pc[s] \in {"bind", "clear", "key"} => NoKey(what[s])' /\ NoObj(what[s])'
            /\ pc[s] = "obj" => NoObj(what[s])'
        BY <1>1, <1>6, <4>1, <4>2 DEF AtWork, NoKey, NoObj
      <4> QED
        BY <1>1, <1>6, <4>1, <4>3, <4>4, <4>5 DEF AtWork, HasSlot
    <3> QED
      BY <3>1, <3>2
  <2> QED
    BY <1>1, <2>4, <2>5, <2>6, <2>7 DEF Whereabouts
<1>11. Held'
  BY <1>1, <1>5 DEF Held
<1> QED
  BY <1>7, <1>8, <1>9, <1>10, <1>11

LEMMA DropKeeps ==
  ASSUME TableInv, NEW t \in Threads, NEW o \in Mutexes, Drop(t, o)
  PROVE  TableInv'
<1> USE DEF TableInv
<1>1. /\ pc[t] = "free" /\ o \in made /\ Unused(o)
      /\ made' = made \ {o} /\ what' = [what EXCEPT ![t] = o] /\ Go(t, "drop")
      /\ UNCHANGED <<key, obj, count, alive, at, lock, refused>>
      /\ UNCHANGED table
  BY DEF Drop, table
<1>2. /\ pc'[t] = "drop" /\ what'[t] = o /\ what[t] = None
      /\ \A s \in Threads : s # t => pc'[s] = pc[s] /\ what'[s] = what[s]
  BY <1>1, Goes DEF Typed, Apart
<1>3. \A s \in Threads : what[s] # o
  BY <1>1 DEF Unused
<1>4. Typed'
  BY <1>1, Goes DEF Typed, Dropping
<1>5. Apart'
  BY <1>1, <1>2, <1>3 DEF Apart, Making, Dropping, Using
<1>6. Matched'
  BY <1>1, <1>2, MatchedStill
<1>7. Whereabouts'
  <2>1. \A p \in Mutexes : /\ Nowhere(p)' <=> Nowhere(p)
                           /\ InItsSlot(p)' <=> InItsSlot(p)
    BY <1>1 DEF Nowhere, NoKey, NoObj, InItsSlot
  <2>2. \A p \in made' : IF p \in refused THEN Nowhere(p)' ELSE InItsSlot(p)'
    BY <1>1, <2>1 DEF Whereabouts, Typed
  <2>3. \A p \in Mutexes \ made' : Unused(p)' => Nowhere(p)'
    <3> SUFFICES ASSUME NEW p \in Mutexes \ made', Unused(p)' PROVE Nowhere(p)'
      OBVIOUS
    <3>1. p # o
      BY <1>2 DEF Unused
    <3>2. Unused(p) /\ p \notin made
      BY <1>1, <1>2, <3>1, TableAssumption DEF Unused
    <3> QED
      BY <2>1, <3>2 DEF Whereabouts
  <2>4. refused \subseteq made' \cup {what'[s] : s \in {r \in Threads : pc'[r] = "drop"}}
    BY <1>1, <1>2 DEF Whereabouts
  <2>5. ASSUME NEW s \in Threads PROVE AtWork(s)'
    <3>1. CASE s = t
      <4>1. IF o \in refused THEN Nowhere(o)' ELSE InItsSlot(o)'
        BY <1>1, <2>1 DEF Whereabouts
      <4>2. pc'[s] = "drop" /\ what'[s] = o
        BY <1>2, <3>1
      <4>3. IF o \in refused THEN Nowhere(what[s])' ELSE InItsSlot(what[s])'
        BY <4>1, <4>2 DEF Nowhere, NoKey, NoObj, InItsSlot
      <4> QED
        BY <1>1, <4>2, <4>3 DEF AtWork
    <3>2. CASE s # t
      <4>1. AtWork(s) /\ pc'[s] = pc[s] /\ what'[s] = what[s] /\ at'[s] = at[s]
        BY <1>1, <1>2, <3>2 DEF Whereabouts
      <4> QED
        BY <1>1, <4>1, AtWorkStill
    <3> QED
      BY <3>1, <3>2
  <2> QED
    BY <1>1, <2>2, <2>3, <2>4, <2>5 DEF Whereabouts
<1>8. Held'
  BY <1>1, <1>2, <1>3 DEF Held
<1> QED
  BY <1>4, <1>5, <1>6, <1>7, <1>8

(* What a thread that drops finds is what it drops.                        *)
LEMMA DropFinds ==
  ASSUME Typed, Apart, Matched, Whereabouts, NEW t \in Threads, pc[t] = "drop"
  PROVE  /\ what[t] \in Mutexes /\ what[t] # None /\ what[t] \notin made
         /\ \A s \in Threads : s # t => what[s] # what[t]
         /\ IF what[t] \in refused THEN Nowhere(what[t]) ELSE InItsSlot(what[t])
         /\ Found(what[t]) = IF what[t] \in refused THEN None ELSE what[t]
         /\ what[t] \notin refused =>
              /\ SlotOf(what[t]) \in Slots
              /\ key[SlotOf(what[t])] = what[t] /\ obj[SlotOf(what[t])] = what[t]
<1>1. what[t] \in Mutexes
  BY DEF Apart
<1>2. what[t] \notin made /\ \A s \in Threads : s # t => what[s] # what[t]
  BY DEF Apart, Dropping
<1>3. IF what[t] \in refused THEN Nowhere(what[t]) ELSE InItsSlot(what[t])
  BY DEF Whereabouts, AtWork
<1>4. /\ Found(what[t]) = IF what[t] \in refused THEN None ELSE what[t]
      /\ what[t] \notin refused =>
           /\ SlotOf(what[t]) \in Slots
           /\ key[SlotOf(what[t])] = what[t] /\ obj[SlotOf(what[t])] = what[t]
  BY <1>1, <1>3, FoundEither
<1> QED
  BY <1>1, <1>2, <1>3, <1>4, TableAssumption

LEMMA NothingToDropKeeps ==
  ASSUME TableInv, NEW t \in Threads, NothingToDrop(t)
  PROVE  TableInv'
<1> USE DEF TableInv
<1>0. PICK o : o = what[t]
  OBVIOUS
<1>1. /\ pc[t] = "drop" /\ Found(o) = None /\ refused' = refused \ {o} /\ Forget(t)
      /\ UNCHANGED <<key, obj, count, alive, made, lock>> /\ UNCHANGED table
  BY <1>0 DEF NothingToDrop, table
<1>2. /\ o \in Mutexes /\ o \notin made /\ Nowhere(o)
      /\ \A s \in Threads : s # t => what[s] # o
  BY <1>0, <1>1, DropFinds DEF Nowhere, NoKey, NoObj
<1>3. /\ pc'[t] = "free" /\ what'[t] = None /\ at'[t] = 0
      /\ \A s \in Threads : s # t =>
           pc'[s] = pc[s] /\ what'[s] = what[s] /\ at'[s] = at[s]
  BY <1>1, Forgets
<1>4. Typed'
  BY <1>1, Forgets DEF Typed
<1>5. Apart'
  BY <1>1, <1>3, TableAssumption DEF Apart, Making, Dropping, Using
<1>6. Matched'
  BY <1>1, <1>3, MatchedStill
<1>7. Whereabouts'
  <2>1. \A p \in Mutexes : /\ Nowhere(p)' <=> Nowhere(p)
                           /\ InItsSlot(p)' <=> InItsSlot(p)
    BY <1>1 DEF Nowhere, NoKey, NoObj, InItsSlot
  <2>2. \A p \in made : IF p \in refused' THEN Nowhere(p)' ELSE InItsSlot(p)'
    BY <1>1, <1>2, <2>1 DEF Whereabouts, Typed
  <2>3. \A p \in Mutexes \ made : Unused(p)' => Nowhere(p)'
    <3> SUFFICES ASSUME NEW p \in Mutexes \ made, Unused(p)', p # o
                 PROVE  Nowhere(p)'
      BY <1>2, <2>1
    <3>1. Unused(p)
      BY <1>0, <1>3 DEF Unused
    <3> QED
      BY <2>1, <3>1 DEF Whereabouts
  <2>4. refused' \subseteq made \cup {what'[s] : s \in {r \in Threads : pc'[r] = "drop"}}
    BY <1>0, <1>1, <1>3 DEF Whereabouts
  <2>5. ASSUME NEW s \in Threads PROVE AtWork(s)'
    <3>1. CASE s = t
      BY <1>3, <3>1 DEF AtWork
    <3>2. CASE s # t
      <4>1. AtWork(s) /\ pc'[s] = pc[s] /\ what'[s] = what[s] /\ at'[s] = at[s]
        BY <1>3, <3>2 DEF Whereabouts
      <4>2. what[s] # o
        BY <1>2, <3>2
      <4> QED
        BY <1>1, <4>1, <4>2, AtWorkStill
    <3> QED
      BY <3>1, <3>2
  <2> QED
    BY <1>1, <2>2, <2>3, <2>4, <2>5 DEF Whereabouts
<1>8. Held'
  <2>1. \A s \in Threads : s # t => (what[s] \in refused' <=> what[s] \in refused)
    BY <1>1, <1>2
  <2>2. \A s \in Threads : s # t => what'[s] # o
    BY <1>2, <1>3
  <2> QED
    BY <1>1, <1>3, <2>1, <2>2 DEF Held
<1> QED
  BY <1>4, <1>5, <1>6, <1>7, <1>8

LEMMA FreeKeeps ==
  ASSUME TableInv, NEW t \in Threads, Free(t)
  PROVE  TableInv'
<1> USE DEF TableInv
<1>0. PICK o, i : o = what[t] /\ i = SlotOf(what[t])
  OBVIOUS
<1>1. /\ pc[t] = "drop" /\ Found(o) # None /\ alive' = alive \ {Found(o)}
      /\ at' = [at EXCEPT ![t] = i] /\ Go(t, "unkey")
      /\ UNCHANGED <<key, obj, count, made, what, lock, refused>>
      /\ UNCHANGED table
  BY <1>0 DEF Free, table
<1>2. /\ o \in Mutexes /\ o # None /\ o \notin made /\ o \notin refused /\ Found(o) = o
      /\ i \in Slots /\ key[i] = o /\ obj[i] = o
      /\ \A s \in Threads : s # t => what[s] # o
  BY <1>0, <1>1, DropFinds
<1>3. /\ pc'[t] = "unkey" /\ at'[t] = i
      /\ \A s \in Threads : s # t => pc'[s] = pc[s] /\ at'[s] = at[s]
  BY <1>1, Goes DEF Typed
<1>4. Typed'
  <2>1. at' \in [Threads -> Slots \cup {0}]
    BY <1>1, <1>2 DEF Typed
  <2> QED
    BY <1>1, <2>1, Goes DEF Typed, Dropping
<1>5. Apart'
  BY <1>1, <1>3 DEF Apart, Making, Dropping, Using
<1>6. Matched'
  BY <1>1, <1>3, MatchedStill
<1>7. Whereabouts'
  <2>1. \A p \in Mutexes : p # o => /\ Nowhere(p) => Nowhere(p)'
                                    /\ InItsSlot(p) => InItsSlot(p)'
    BY <1>1, <1>2 DEF Nowhere, NoKey, NoObj, InItsSlot
  <2>2. \A p \in made : IF p \in refused THEN Nowhere(p)' ELSE InItsSlot(p)'
    BY <1>2, <2>1 DEF Whereabouts, Typed
  <2>3. \A p \in Mutexes \ made : Unused(p) => Nowhere(p)'
    BY <1>0, <2>1 DEF Whereabouts, Unused
  <2>4. refused \subseteq made \cup {what[s] : s \in {r \in Threads : pc'[r] = "drop"}}
    BY <1>0, <1>2, <1>3 DEF Whereabouts
  <2>5. ASSUME NEW s \in Threads PROVE AtWork(s)'
    <3>1. CASE s = t
      BY <1>0, <1>1, <1>2, <1>3, <3>1 DEF AtWork
    <3>2. CASE s # t
      <4>1. AtWork(s) /\ pc'[s] = pc[s] /\ what'[s] = what[s] /\ at'[s] = at[s]
        BY <1>1, <1>3, <3>2 DEF Whereabouts
      <4>2. what[s] # o
        BY <1>2, <3>2
      <4> QED
        BY <1>1, <1>2, <4>1, <4>2, AtWorkStill
    <3> QED
      BY <3>1, <3>2
  <2> QED
    BY <1>1, <2>2, <2>3, <2>4, <2>5 DEF Whereabouts, Unused
<1>8. Held'
  BY <1>1, <1>3 DEF Held
<1> QED
  BY <1>4, <1>5, <1>6, <1>7, <1>8

LEMMA ClearKeyKeeps ==
  ASSUME TableInv, NEW t \in Threads, ClearKey(t)
  PROVE  TableInv'
<1> USE DEF TableInv
<1>0. PICK o, i : o = what[t] /\ i = at[t]
  OBVIOUS
<1>1. /\ pc[t] = "unkey" /\ key' = [key EXCEPT ![i] = None] /\ Go(t, "unobj")
      /\ UNCHANGED <<obj, count, alive, made, what, at, lock, refused>>
  BY <1>0 DEF ClearKey
<1>2. /\ o \in Mutexes /\ o # None /\ o \notin alive
      /\ i \in Slots /\ key[i] = o /\ obj[i] = o
  BY <1>0, <1>1, TableAssumption DEF Whereabouts, AtWork, Apart
<1>3. o \notin made /\ \A s \in Threads : s # t => what[s] # o
  BY <1>0, <1>1 DEF Apart, Dropping
<1>4. pc'[t] = "unobj" /\ \A s \in Threads : s # t => pc'[s] = pc[s]
  BY <1>1, Goes DEF Typed
<1>5. key'[i] = None /\ \A j \in Slots : j # i => key'[j] = key[j]
  BY <1>1, <1>2 DEF Typed
<1>6. Typed'
  <2>1. key' \in [Slots -> Mutexes \cup {None}]
    BY <1>1 DEF Typed
  <2> QED
    BY <1>1, <2>1, Goes DEF Typed, Dropping
<1>7. Apart'
  BY <1>1, <1>4 DEF Apart, Making, Dropping, Using
<1>8. Matched'
  <2>1. \A j, k \in Slots : key'[j] = key'[k] /\ key'[j] # None => j = k
    BY <1>5 DEF Matched
  <2>2. \A j \in Slots : obj[j] # None =>
          \/ key'[j] = obj[j]
          \/ key'[j] = None /\ \E s \in Threads :
               pc'[s] = "unobj" /\ at[s] = j /\ what[s] = obj[j]
    BY <1>0, <1>1, <1>2, <1>4, <1>5 DEF Matched
  <2>3. \A j \in Slots : key'[j] # None =>
          \/ obj[j] = key'[j]
          \/ obj[j] = None /\ \E s \in Threads :
               pc'[s] = "obj" /\ at[s] = j /\ what[s] = key'[j]
    BY <1>1, <1>4, <1>5 DEF Matched
  <2> QED
    BY <1>1, <2>1, <2>2, <2>3 DEF Matched
<1>9. Whereabouts'
  <2>1. \A p \in Mutexes : /\ Nowhere(p) => Nowhere(p)'
                           /\ p # o => (InItsSlot(p) => InItsSlot(p)')
                           /\ NoKey(p) => NoKey(p)'
    BY <1>1, <1>2, <1>5, TableAssumption DEF Nowhere, NoKey, NoObj, InItsSlot
  <2>2. \A p \in made : IF p \in refused THEN Nowhere(p)' ELSE InItsSlot(p)'
    BY <1>3, <2>1 DEF Whereabouts, Typed
  <2>3. \A p \in Mutexes \ made : Unused(p) => Nowhere(p)'
    BY <2>1 DEF Whereabouts
  <2>4. refused \subseteq made \cup {what[s] : s \in {r \in Threads : pc'[r] = "drop"}}
    BY <1>1, <1>4 DEF Whereabouts
  <2>5. ASSUME NEW s \in Threads PROVE AtWork(s)'
    <3>1. CASE s = t
      BY <1>0, <1>1, <1>2, <1>4, <1>5, <3>1 DEF AtWork
    <3>2. CASE s # t
      <4>1. AtWork(s) /\ pc'[s] = pc[s]
        BY <1>4, <3>2 DEF Whereabouts
      <4>2. pc[s] # "free" => what[s] \in Mutexes /\ what[s] # o
        BY <1>3, <3>2 DEF Apart
      <4>3. pc[s] \in {"clear", "key", "obj", "unkey", "unobj"} => at[s] # i
        BY <1>2, <4>1, <4>2 DEF AtWork
      <4>4. PICK p : p = what[s]
        OBVIOUS
      <4>5. /\ pc[s] = "drop" => IF p \in refused THEN Nowhere(p)' ELSE InItsSlot(p)'
            /\ pc[s] \in {"bind", "clear", "key"} => NoKey(p)'
        BY <2>1, <4>1, <4>2, <4>4 DEF AtWork, Nowhere, NoKey, NoObj, InItsSlot
      <4>6. /\ pc[s] = "drop" =>
                 IF what[s] \in refused THEN Nowhere(what[s])' ELSE InItsSlot(what[s])'
            /\ pc[s] \in {"bind", "clear", "key"} => NoKey(what[s])'
        BY <1>1, <4>4, <4>5 DEF Nowhere, NoKey, NoObj, InItsSlot
      <4>7. \A q : NoObj(q)' <=> NoObj(q)
        BY <1>1 DEF NoObj
      <4>8. NoObj(what[s])' <=> NoObj(what[s])
        BY <1>1, <4>4, <4>7 DEF NoObj
      <4> QED
        BY <1>1, <1>5, <4>1, <4>3, <4>6, <4>8 DEF AtWork
    <3> QED
      BY <3>1, <3>2
  <2> QED
    BY <1>1, <2>2, <2>3, <2>4, <2>5 DEF Whereabouts, Unused
<1>10. Held'
  BY <1>1, <1>4 DEF Held
<1> QED
  BY <1>6, <1>7, <1>8, <1>9, <1>10

LEMMA ClearObjKeeps ==
  ASSUME TableInv, NEW t \in Threads, ClearObj(t)
  PROVE  TableInv'
<1> USE DEF TableInv
<1>0. PICK o, i : o = what[t] /\ i = at[t]
  OBVIOUS
<1>1. /\ pc[t] = "unobj" /\ obj' = [obj EXCEPT ![i] = None] /\ Forget(t)
      /\ UNCHANGED <<key, count, alive, made, lock, refused>>
  BY <1>0 DEF ClearObj
<1>2. /\ o \in Mutexes /\ o # None /\ o \notin alive
      /\ i \in Slots /\ key[i] = None /\ obj[i] = o
  BY <1>0, <1>1, TableAssumption DEF Whereabouts, AtWork, Apart
<1>3. o \notin made /\ \A s \in Threads : s # t => what[s] # o
  BY <1>0, <1>1 DEF Apart, Dropping
<1>4. /\ pc'[t] = "free" /\ what'[t] = None /\ at'[t] = 0
      /\ \A s \in Threads : s # t =>
           pc'[s] = pc[s] /\ what'[s] = what[s] /\ at'[s] = at[s]
  BY <1>1, Forgets
<1>5. obj'[i] = None /\ \A j \in Slots : j # i => obj'[j] = obj[j]
  BY <1>1, <1>2 DEF Typed
<1>6. NoKey(o)
  <2> SUFFICES ASSUME NEW j \in Slots, key[j] = o PROVE FALSE
    BY DEF NoKey
  <2>1. obj[j] # o
    BY <1>2 DEF Matched
  <2>2. PICK s \in Threads : pc[s] = "obj" /\ what[s] = o
    BY <1>2, <2>1 DEF Matched
  <2> QED
    BY <1>1, <1>3, <2>2
<1>7. Typed'
  <2>1. obj' \in [Slots -> Mutexes \cup {None}]
    BY <1>1 DEF Typed
  <2> QED
    BY <1>1, <2>1, Forgets DEF Typed
<1>8. Apart'
  BY <1>1, <1>4, TableAssumption DEF Apart, Making, Dropping, Using
<1>9. Matched'
  <2>1. \A j, k \in Slots : obj'[j] = obj'[k] /\ obj'[j] # None => j = k
    BY <1>5 DEF Matched
  <2>2. \A j \in Slots : obj'[j] # None =>
          \/ key[j] = obj'[j]
          \/ key[j] = None /\ \E s \in Threads :
               pc'[s] = "unobj" /\ at'[s] = j /\ what'[s] = obj'[j]
    BY <1>0, <1>4, <1>5 DEF Matched
  <2>3. \A j \in Slots : key[j] # None =>
          \/ obj'[j] = key[j]
          \/ obj'[j] = None /\ \E s \in Threads :
               pc'[s] = "obj" /\ at'[s] = j /\ what'[s] = key[j]
    BY <1>1, <1>2, <1>4, <1>5 DEF Matched
  <2> QED
    BY <1>1, <2>1, <2>2, <2>3 DEF Matched
<1>10. Whereabouts'
  <2>1. \A p \in Mutexes : /\ Nowhere(p) => Nowhere(p)'
                           /\ p # o => (InItsSlot(p) => InItsSlot(p)')
                           /\ NoObj(p) => NoObj(p)'
    BY <1>1, <1>2, <1>5, TableAssumption DEF Nowhere, NoKey, NoObj, InItsSlot
  <2>2. Nowhere(o)'
    BY <1>1, <1>2, <1>5, <1>6 DEF Nowhere, NoKey, NoObj, Matched
  <2>3. \A p \in made : IF p \in refused THEN Nowhere(p)' ELSE InItsSlot(p)'
    BY <1>3, <2>1 DEF Whereabouts, Typed
  <2>4. \A p \in Mutexes \ made : Unused(p)' => Nowhere(p)'
    <3> SUFFICES ASSUME NEW p \in Mutexes \ made, Unused(p)', p # o
                 PROVE  Nowhere(p)'
      BY <2>2
    <3>1. Unused(p)
      BY <1>0, <1>4 DEF Unused
    <3> QED
      BY <2>1, <3>1 DEF Whereabouts
  <2>5. refused \subseteq made \cup {what'[s] : s \in {r \in Threads : pc'[r] = "drop"}}
    BY <1>1, <1>4 DEF Whereabouts
  <2>6. ASSUME NEW s \in Threads PROVE AtWork(s)'
    <3>1. CASE s = t
      BY <1>4, <3>1 DEF AtWork
    <3>2. CASE s # t
      <4>1. AtWork(s) /\ pc'[s] = pc[s] /\ what'[s] = what[s] /\ at'[s] = at[s]
        BY <1>4, <3>2 DEF Whereabouts
      <4>2. pc[s] # "free" => what[s] \in Mutexes /\ what[s] # o
        BY <1>3, <3>2 DEF Apart
      <4>3. pc[s] \in {"clear", "key", "obj", "unkey", "unobj"} => at[s] # i
        BY <1>2, <4>1, <4>2 DEF AtWork
      <4>4. PICK p : p = what[s]
        OBVIOUS
      <4>5. /\ pc[s] = "drop" => IF p \in refused THEN Nowhere(p)' ELSE InItsSlot(p)'
            /\ pc[s] \in {"bind", "clear", "key", "obj"} => NoObj(p)'
        BY <2>1, <4>1, <4>2, <4>4 DEF AtWork, Nowhere, NoKey, NoObj, InItsSlot
      <4>6. /\ pc[s] = "drop" =>
                 IF what[s] \in refused THEN Nowhere(what[s])' ELSE InItsSlot(what[s])'
            /\ pc[s] \in {"bind", "clear", "key", "obj"} => NoObj(what[s])'
        BY <4>1, <4>4, <4>5 DEF Nowhere, NoKey, NoObj, InItsSlot
      <4>7. NoKey(what[s])' <=> NoKey(what[s])
        BY <1>1, <4>1 DEF NoKey
      <4> QED
        BY <1>1, <1>5, <4>1, <4>3, <4>6, <4>7 DEF AtWork
    <3> QED
      BY <3>1, <3>2
  <2> QED
    BY <1>1, <2>3, <2>4, <2>5, <2>6 DEF Whereabouts
<1>11. Held'
  BY <1>1, <1>4 DEF Held
<1> QED
  BY <1>7, <1>8, <1>9, <1>10, <1>11

LEMMA LockKeeps ==
  ASSUME TableInv, NEW t \in Threads, NEW o \in Mutexes, Lock(t, o)
  PROVE  TableInv'
<1> USE DEF TableInv
<1>1. /\ pc[t] = "free" /\ o \in made
      /\ what' = [what EXCEPT ![t] = o] /\ Go(t, "lock")
      /\ UNCHANGED <<key, obj, count, alive, made, at, lock, refused>>
      /\ UNCHANGED table
  BY DEF Lock, table
<1>2. /\ pc'[t] = "lock" /\ what'[t] = o /\ what[t] = None
      /\ \A s \in Threads : s # t => pc'[s] = pc[s] /\ what'[s] = what[s]
  BY <1>1, Goes DEF Typed, Apart
<1>3. Typed'
  BY <1>1, Goes DEF Typed, Using
<1>4. Apart'
  BY <1>1, <1>2 DEF Apart, Making, Dropping, Using
<1>5. Matched'
  BY <1>1, <1>2, MatchedStill
<1>6. Whereabouts'
  <2>1. \A p \in Mutexes : /\ Nowhere(p)' <=> Nowhere(p)
                           /\ InItsSlot(p)' <=> InItsSlot(p)
    BY <1>1 DEF Nowhere, NoKey, NoObj, InItsSlot
  <2>2. \A p \in made : IF p \in refused THEN Nowhere(p)' ELSE InItsSlot(p)'
    BY <2>1 DEF Whereabouts, Typed
  <2>3. \A p \in Mutexes \ made : Unused(p)' => Nowhere(p)'
    <3> SUFFICES ASSUME NEW p \in Mutexes \ made, Unused(p)' PROVE Nowhere(p)'
      OBVIOUS
    <3>1. Unused(p)
      BY <1>2, TableAssumption DEF Unused
    <3> QED
      BY <2>1, <3>1 DEF Whereabouts
  <2>4. refused \subseteq made \cup {what'[s] : s \in {r \in Threads : pc'[r] = "drop"}}
    BY <1>1, <1>2 DEF Whereabouts
  <2>5. ASSUME NEW s \in Threads PROVE AtWork(s)'
    <3>1. CASE s = t
      BY <1>2, <3>1 DEF AtWork
    <3>2. CASE s # t
      <4>1. AtWork(s) /\ pc'[s] = pc[s] /\ what'[s] = what[s] /\ at'[s] = at[s]
        BY <1>1, <1>2, <3>2 DEF Whereabouts
      <4> QED
        BY <1>1, <4>1, AtWorkStill
    <3> QED
      BY <3>1, <3>2
  <2> QED
    BY <1>1, <2>2, <2>3, <2>4, <2>5 DEF Whereabouts
<1>7. Held'
  BY <1>1, <1>2 DEF Held
<1> QED
  BY <1>3, <1>4, <1>5, <1>6, <1>7

(* What a thread finds of a mutex it uses.                                 *)
LEMMA UseFinds ==
  ASSUME Typed, Apart, Matched, Whereabouts, NEW t \in Threads, pc[t] \in Using
  PROVE  /\ what[t] \in made /\ what[t] \in Mutexes
         /\ Found(what[t]) = IF what[t] \in refused THEN None ELSE what[t]
<1>1. what[t] \in made /\ what[t] \in Mutexes
  BY DEF Apart, Typed
<1>2. IF what[t] \in refused THEN Nowhere(what[t]) ELSE InItsSlot(what[t])
  BY <1>1 DEF Whereabouts
<1> QED
  BY <1>1, <1>2, FoundEither

LEMMA LookKeeps ==
  ASSUME TableInv, NEW t \in Threads, Look(t)
  PROVE  TableInv'
<1> USE DEF TableInv
<1>0. PICK o, found : o = what[t] /\ found = Found(what[t])
  OBVIOUS
<1>1. /\ pc[t] = "lock" /\ lock' = [lock EXCEPT ![t] = found]
      /\ Go(t, IF found = None THEN "inside" ELSE "wait")
      /\ UNCHANGED <<key, obj, count, alive, made, what, at, refused>>
      /\ UNCHANGED table
  BY <1>0 DEF Look, table
<1>2. o \in Mutexes /\ o # None /\ found = IF o \in refused THEN None ELSE o
  BY <1>0, <1>1, UseFinds, TableAssumption DEF Using
<1>3. /\ pc'[t] = IF o \in refused THEN "inside" ELSE "wait"
      /\ \A s \in Threads : s # t => pc'[s] = pc[s]
  BY <1>1, <1>2, Goes DEF Typed
<1>4. /\ lock'[t] = IF o \in refused THEN None ELSE o
      /\ \A s \in Threads : s # t => lock'[s] = lock[s]
      /\ lock' \in [Threads -> Mutexes \cup {None}]
  BY <1>1, <1>2 DEF Typed
<1>5. Typed'
  <2>1. pc' \in [Threads -> {"free"} \cup Making \cup Dropping \cup Using]
    BY <1>1, Goes DEF Using
  <2> QED
    BY <1>1, <1>4, <2>1 DEF Typed
<1>6. Apart'
  BY <1>1, <1>3 DEF Apart, Making, Dropping, Using
<1>7. Matched'
  BY <1>1, <1>3, MatchedStill
<1>8. Whereabouts'
  <2>1. AtWork(t)'
    BY <1>3 DEF AtWork
  <2> QED
    BY <1>1, <1>3, <2>1, WhereaboutsStill
<1>9. Held'
  <2>1. \A s \in Threads :
          /\ pc'[s] \in {"wait", "inside"} =>
               lock'[s] = IF what[s] \in refused THEN None ELSE what[s]
          /\ pc'[s] = "wait" => what[s] \notin refused
    BY <1>0, <1>3, <1>4 DEF Held
  <2>2. \A p \in Mutexes \ refused : \A s \in Threads :
          pc'[s] = "inside" /\ what[s] = p => pc[s] = "inside"
    BY <1>0, <1>3
  <2> QED
    BY <1>1, <2>1, <2>2 DEF Held
<1> QED
  BY <1>5, <1>6, <1>7, <1>8, <1>9

LEMMA TakeKeeps ==
  ASSUME TableInv, NEW t \in Threads, Take(t)
  PROVE  TableInv'
<1> USE DEF TableInv
<1>0. PICK o : o = what[t]
  OBVIOUS
<1>1. /\ pc[t] = "wait" /\ count[lock[t]] > 0
      /\ count' = [count EXCEPT ![lock[t]] = @ - 1] /\ Go(t, "inside")
      /\ UNCHANGED <<key, obj, alive, made, what, at, lock, refused>>
      /\ UNCHANGED table
  BY DEF Take, table
<1>2. o \in Mutexes /\ o \notin refused /\ lock[t] = o
  BY <1>0, <1>1 DEF Held, Apart
<1>3. pc'[t] = "inside" /\ \A s \in Threads : s # t => pc'[s] = pc[s]
  BY <1>1, Goes DEF Typed
<1>4. count[o] = 1
  BY <1>1, <1>2 DEF Typed
<1>5. /\ count'[o] = 0 /\ \A p \in Mutexes : p # o => count'[p] = count[p]
      /\ count' \in [Mutexes -> {0, 1}]
  BY <1>1, <1>2, <1>4 DEF Typed
<1>6. Typed'
  <2>1. pc' \in [Threads -> {"free"} \cup Making \cup Dropping \cup Using]
    BY <1>1, Goes DEF Using
  <2> QED
    BY <1>1, <1>5, <2>1 DEF Typed
<1>7. Apart'
  BY <1>1, <1>3 DEF Apart, Making, Dropping, Using
<1>8. Matched'
  BY <1>1, <1>3, MatchedStill
<1>9. Whereabouts'
  <2>1. AtWork(t)'
    BY <1>3 DEF AtWork
  <2> QED
    BY <1>1, <1>3, <2>1, WhereaboutsStill
<1>10. Held'
  <2>1. \A s \in Threads : ~(pc[s] = "inside" /\ what[s] = o)
    BY <1>2, <1>4 DEF Held
  <2>2. \A s \in Threads :
          /\ pc'[s] \in {"wait", "inside"} => pc[s] \in {"wait", "inside"}
          /\ pc'[s] = "wait" => pc[s] = "wait"
    BY <1>1, <1>3
  <2>3. \A p \in Mutexes \ refused : \A s \in Threads :
          pc'[s] = "inside" /\ what[s] = p =>
            count'[p] = 0 /\ \A r \in Threads : pc'[r] = "inside" /\ what[r] = p => s = r
    <3> SUFFICES ASSUME NEW p \in Mutexes \ refused, NEW s \in Threads,
                        pc'[s] = "inside", what[s] = p
                 PROVE  /\ count'[p] = 0
                        /\ \A r \in Threads : pc'[r] = "inside" /\ what[r] = p => s = r
      OBVIOUS
    <3>1. CASE p = o
      BY <1>3, <1>5, <2>1, <3>1
    <3>2. CASE p # o
      BY <1>0, <1>3, <1>5, <3>2 DEF Held
    <3> QED
      BY <3>1, <3>2
  <2> QED
    BY <1>1, <2>2, <2>3 DEF Held
<1> QED
  BY <1>6, <1>7, <1>8, <1>9, <1>10

LEMMA ReleaseKeeps ==
  ASSUME TableInv, NEW t \in Threads, Release(t)
  PROVE  TableInv'
<1> USE DEF TableInv
<1>0. PICK o : o = what[t]
  OBVIOUS
<1>1. /\ pc[t] = "inside"
      /\ count' = IF Found(o) = None THEN count ELSE [count EXCEPT ![Found(o)] = 1]
      /\ lock' = [lock EXCEPT ![t] = None] /\ Forget(t)
      /\ UNCHANGED <<key, obj, alive, made, refused>> /\ UNCHANGED table
  BY <1>0 DEF Release, table
<1>2. /\ o \in made /\ o \in Mutexes /\ o # None
      /\ Found(o) = IF o \in refused THEN None ELSE o
  BY <1>0, <1>1, UseFinds, TableAssumption DEF Using
<1>3. /\ pc'[t] = "free" /\ what'[t] = None /\ at'[t] = 0
      /\ \A s \in Threads : s # t =>
           pc'[s] = pc[s] /\ what'[s] = what[s] /\ at'[s] = at[s]
  BY <1>1, Forgets
<1>4. /\ \A p \in Mutexes : p # o => count'[p] = count[p]
      /\ count' \in [Mutexes -> {0, 1}]
  BY <1>1, <1>2 DEF Typed
<1>5. \A s \in Threads : s # t => lock'[s] = lock[s]
  BY <1>1 DEF Typed
<1>6. Typed'
  <2>1. lock' \in [Threads -> Mutexes \cup {None}]
    BY <1>1 DEF Typed
  <2> QED
    BY <1>1, <1>4, <2>1, Forgets DEF Typed
<1>7. Apart'
  BY <1>1, <1>3, TableAssumption DEF Apart, Making, Dropping, Using
<1>8. Matched'
  BY <1>1, <1>3, MatchedStill
<1>9. Whereabouts'
  <2>1. \A p \in Mutexes : /\ Nowhere(p)' <=> Nowhere(p)
                           /\ InItsSlot(p)' <=> InItsSlot(p)
    BY <1>1 DEF Nowhere, NoKey, NoObj, InItsSlot
  <2>2. \A p \in made : IF p \in refused THEN Nowhere(p)' ELSE InItsSlot(p)'
    BY <2>1 DEF Whereabouts, Typed
  <2>3. \A p \in Mutexes \ made : Unused(p)' => Nowhere(p)'
    <3> SUFFICES ASSUME NEW p \in Mutexes \ made, Unused(p)' PROVE Nowhere(p)'
      OBVIOUS
    <3>1. Unused(p)
      BY <1>0, <1>2, <1>3 DEF Unused
    <3> QED
      BY <2>1, <3>1 DEF Whereabouts
  <2>4. refused \subseteq made \cup {what'[s] : s \in {r \in Threads : pc'[r] = "drop"}}
    BY <1>1, <1>3 DEF Whereabouts
  <2>5. ASSUME NEW s \in Threads PROVE AtWork(s)'
    <3>1. CASE s = t
      BY <1>3, <3>1 DEF AtWork
    <3>2. CASE s # t
      <4>1. AtWork(s) /\ pc'[s] = pc[s] /\ what'[s] = what[s] /\ at'[s] = at[s]
        BY <1>3, <3>2 DEF Whereabouts
      <4> QED
        BY <1>1, <4>1, AtWorkStill
    <3> QED
      BY <3>1, <3>2
  <2> QED
    BY <1>1, <2>2, <2>3, <2>4, <2>5 DEF Whereabouts
<1>10. Held'
  <2>1. \A s \in Threads : s # t =>
          ~(o \notin refused /\ pc[s] = "inside" /\ what[s] = o)
    BY <1>0, <1>1, <1>2 DEF Held
  <2>2. \A s \in Threads : s # t => lock'[s] = lock[s] /\ pc'[s] = pc[s] /\ what'[s] = what[s]
    BY <1>3, <1>5
  <2>3. \A p \in Mutexes \ refused : \A s \in Threads :
          pc'[s] = "inside" /\ what'[s] = p =>
            count'[p] = 0 /\ \A r \in Threads : pc'[r] = "inside" /\ what'[r] = p => s = r
    <3> SUFFICES ASSUME NEW p \in Mutexes \ refused, NEW s \in Threads,
                        pc'[s] = "inside", what'[s] = p
                 PROVE  /\ count'[p] = 0
                        /\ \A r \in Threads : pc'[r] = "inside" /\ what'[r] = p => s = r
      OBVIOUS
    <3>1. s # t /\ p # o
      BY <1>3, <2>1, <2>2
    <3> QED
      BY <1>3, <1>4, <2>2, <3>1 DEF Held
  <2> QED
    BY <1>1, <1>3, <2>2, <2>3 DEF Held
<1> QED
  BY <1>6, <1>7, <1>8, <1>9, <1>10

-----------------------------------------------------------------------------
(* Only a search gives a thread a slot, and a slot that is being filled    *)
(* only by a clash.                                                        *)
LEMMA SlotsApartStill ==
  ASSUME TableInv, SlotsApart, ~clashed', [Next]_vars
  PROVE  SlotsApart'
<1> USE DEF TableInv
<1>1. ASSUME NEW t \in Threads, Seek(t) PROVE SlotsApart'
  <2>1. /\ at' = [at EXCEPT ![t] = Slot(what[t])] /\ Go(t, "clear")
        /\ pc[t] = "bind" /\ ~Filling(Slot(what[t]))
    BY <1>1 DEF Seek
  <2>2. /\ at'[t] = Slot(what[t])
        /\ \A s \in Threads : s # t => pc'[s] = pc[s] /\ at'[s] = at[s]
    BY <2>1, Goes DEF Typed
  <2>3. \A s \in Threads : HasSlot(s) => at[s] # Slot(what[t])
    BY <2>1 DEF Filling, HasSlot
  <2>4. \A s \in Threads : s # t /\ HasSlot(s)' => HasSlot(s) /\ at'[s] = at[s]
    BY <2>2 DEF HasSlot
  <2> QED
    BY <2>2, <2>3, <2>4 DEF SlotsApart
<1>2. ASSUME \A s \in Threads : HasSlot(s)' => HasSlot(s) /\ at'[s] = at[s]
      PROVE  SlotsApart'
  BY <1>2 DEF SlotsApart
<1>3. ASSUME UNCHANGED vars PROVE SlotsApart'
  BY <1>2, <1>3 DEF vars, HasSlot
<1>4. ASSUME NEW t \in Threads, NEW o \in Mutexes, Make(t, o) \/ Drop(t, o) \/ Lock(t, o)
      PROVE  SlotsApart'
  <2>1. PICK p \in {"bind", "drop", "lock"} : Go(t, p) /\ at' = at
    BY <1>4 DEF Make, Drop, Lock
  <2> QED
    BY <1>2, <2>1, Goes DEF HasSlot
<1>5. ASSUME NEW t \in Threads, NEW p, Go(t, p), at' = at, HasSlot(t) \/ p \notin {"clear", "key", "obj"}
      PROVE  SlotsApart'
  BY <1>2, <1>5, Goes DEF HasSlot
<1>6. ASSUME NEW t \in Threads, Forget(t) PROVE SlotsApart'
  BY <1>2, <1>6, Forgets DEF HasSlot
<1>7. ASSUME NEW t \in Threads, Free(t) PROVE SlotsApart'
  <2>1. Go(t, "unkey") /\ at' = [at EXCEPT ![t] = SlotOf(what[t])]
    BY <1>7 DEF Free
  <2>2. \A s \in Threads : s # t => at'[s] = at[s]
    BY <2>1 DEF Typed
  <2> QED
    BY <1>2, <2>1, <2>2, Goes DEF HasSlot
<1>8. ASSUME NEW t \in Threads, Within(t) PROVE SlotsApart'
  <2>1. CASE Seek(t)
    BY <1>1, <2>1
  <2>2. CASE Free(t)
    BY <1>7, <2>2
  <2>3. CASE Refuse(t) \/ WriteObj(t) \/ NothingToDrop(t) \/ ClearObj(t) \/ Release(t)
    BY <1>6, <2>3 DEF Refuse, WriteObj, NothingToDrop, ClearObj, Release
  <2>4. CASE Clear(t)
    BY <1>5, <2>4 DEF Clear, HasSlot
  <2>5. CASE WriteKey(t)
    BY <1>5, <2>5 DEF WriteKey, HasSlot
  <2>6. CASE ClearKey(t)
    BY <1>5, <2>6 DEF ClearKey
  <2>7. CASE Look(t)
    <3>1. PICK p \in {"inside", "wait"} : Go(t, p) /\ at' = at
      BY <2>7 DEF Look
    <3> QED
      BY <1>5, <3>1
  <2>8. CASE Take(t)
    BY <1>5, <2>8 DEF Take
  <2> QED
    BY <1>8, <2>1, <2>2, <2>3, <2>4, <2>5, <2>6, <2>7, <2>8 DEF Within
<1> QED
  BY <1>3, <1>4, <1>8 DEF Next

(* What has happened has happened.                                         *)
LEMMA ClashedStays ==
  ASSUME clashed, [Next]_vars
  PROVE  clashed'
<1>1. ASSUME NEW t \in Threads, Within(t) PROVE clashed'
  BY <1>1 DEF Within, Seek, Refuse, Clear, WriteKey, WriteObj, NothingToDrop, Free,
              ClearKey, ClearObj, Look, Take, Release
<1>2. ASSUME NEW t \in Threads, NEW o \in Mutexes, Make(t, o) \/ Drop(t, o) \/ Lock(t, o)
      PROVE  clashed'
  BY <1>2 DEF Make, Drop, Lock
<1> QED
  BY <1>1, <1>2 DEF Next, vars

LEMMA TableNext ==
  ASSUME TableInv, SlotsApart, ~clashed', [Next]_vars
  PROVE  TableInv'
<1>1. ASSUME UNCHANGED vars PROVE TableInv'
  <2>1. UNCHANGED <<key, obj, count, alive, made, pc, what, at, lock, refused>>
    BY <1>1 DEF vars, table
  <2>2. Typed' /\ Apart' /\ Matched' /\ Held'
    BY <2>1 DEF TableInv, Typed, Apart, Matched, Held
  <2>3. Whereabouts'
    BY <2>1 DEF TableInv, Whereabouts, AtWork, Nowhere, NoKey, NoObj, InItsSlot, Unused
  <2> QED
    BY <2>2, <2>3 DEF TableInv
<1>2. ASSUME NEW t \in Threads, NEW o \in Mutexes, Make(t, o) PROVE TableInv'
  BY <1>2, MakeKeeps
<1>3. ASSUME NEW t \in Threads, NEW o \in Mutexes, Drop(t, o) PROVE TableInv'
  BY <1>3, DropKeeps
<1>4. ASSUME NEW t \in Threads, NEW o \in Mutexes, Lock(t, o) PROVE TableInv'
  BY <1>4, LockKeeps
<1>5. ASSUME NEW t \in Threads, Within(t) PROVE TableInv'
  <2>1. CASE Seek(t)
    BY <2>1, SeekKeeps
  <2>2. CASE Refuse(t)
    BY <2>2, RefuseKeeps
  <2>3. CASE Clear(t)
    BY <2>3, ClearKeeps
  <2>4. CASE WriteKey(t)
    BY <2>4, WriteKeyKeeps
  <2>5. CASE WriteObj(t)
    BY <2>5, WriteObjKeeps
  <2>6. CASE NothingToDrop(t)
    BY <2>6, NothingToDropKeeps
  <2>7. CASE Free(t)
    BY <2>7, FreeKeeps
  <2>8. CASE ClearKey(t)
    BY <2>8, ClearKeyKeeps
  <2>9. CASE ClearObj(t)
    BY <2>9, ClearObjKeeps
  <2>10. CASE Look(t)
    BY <2>10, LookKeeps
  <2>11. CASE Take(t)
    BY <2>11, TakeKeeps
  <2>12. CASE Release(t)
    BY <2>12, ReleaseKeeps
  <2> QED
    BY <1>5, <2>1, <2>2, <2>3, <2>4, <2>5, <2>6, <2>7, <2>8, <2>9, <2>10, <2>11, <2>12
       DEF Within
<1> QED
  BY <1>1, <1>2, <1>3, <1>4, <1>5 DEF Next

(* However many threads make, use and drop objects, and until two of them  *)
(* have been given one slot by ral_bind: an object is found by its address *)
(* from the end of its constructor to the start of its destructor, unless  *)
(* there was no slot for it, and is then nowhere; a slot that is being     *)
(* filled or emptied is nobody else's; and a semaphore with a count of     *)
(* nought has one thread that took it (ral_bind, ral_drop, ral_find).      *)
THEOREM TableInvCorrect == Spec => []UntilTheyClash
<1>1. Init => UntilTheyClash
  <2>1. Init => SlotsApart
    BY DEF Init, SlotsApart, HasSlot
  <2> QED
    BY <2>1, TableInit DEF UntilTheyClash
<1>2. UntilTheyClash /\ [Next]_vars => UntilTheyClash'
  <2> SUFFICES ASSUME UntilTheyClash, [Next]_vars PROVE UntilTheyClash'
    OBVIOUS
  <2>1. CASE clashed
    BY <2>1, ClashedStays DEF UntilTheyClash
  <2>2. CASE ~clashed /\ ~clashed'
    BY <2>2, TableNext, SlotsApartStill DEF UntilTheyClash
  <2>3. CASE clashed'
    BY <2>3 DEF UntilTheyClash
  <2> QED
    BY <2>1, <2>2, <2>3
<1> QED
  BY <1>1, <1>2, PTL DEF Spec

(* Only by two ral_binds in one slot is a mutex that was made and found a  *)
(* slot lost to its address: no drop beside it, at whatever step it is,    *)
(* takes its slot away or gives it another's, and no lack of slots does    *)
(* (eci_sync.c 3-5).                                                       *)
THEOREM MadeAreFound == Spec => []MadeIsFound
<1>1. UntilTheyClash => MadeIsFound
  <2> SUFFICES ASSUME TableInv, NEW o \in made \ refused
               PROVE  Found(o) = o /\ o \in alive
    BY DEF MadeIsFound, IdentifiedByAddress, UntilTheyClash
  <2>1. o \in Mutexes /\ InItsSlot(o)
    BY DEF TableInv, Typed, Whereabouts
  <2> QED
    BY <2>1, FoundInItsSlot DEF TableInv, InItsSlot
<1> QED
  BY <1>1, TableInvCorrect, PTL

(* Only by two ral_binds in one slot can a mutex that found a slot come to *)
(* be held by two threads, however many threads, mutexes and slots there   *)
(* are and whatever is made and dropped beside it (sy_mutexWait,           *)
(* sy_mutexPost).                                                          *)
THEOREM MutexesExclude == Spec => []MutexExcludes
<1>1. UntilTheyClash => MutexExcludes
  <2> SUFFICES ASSUME TableInv, NEW o \in Mutexes \ refused
               PROVE  Cardinality(Inside(o)) <= 1
    BY DEF MutexExcludes, UntilTheyClash
  <2>1. CASE Inside(o) = {}
    BY <2>1, FS_EmptySet
  <2>2. CASE \E s : s \in Inside(o)
    <3>1. PICK s : s \in Inside(o)
      BY <2>2
    <3>2. Inside(o) = {s}
      BY <3>1 DEF TableInv, Held, Inside
    <3>3. Cardinality({s}) = 1
      BY FS_Singleton
    <3> QED
      BY <3>2, <3>3
  <2> QED
    BY <2>1, <2>2
<1> QED
  BY <1>1, TableInvCorrect, PTL

(* Nothing that exists underneath is lost to the table, and no slot to a   *)
(* mutex that is gone, but by two ral_binds in one slot: what is not made  *)
(* any more, and is nobody's to make or drop, is in no slot and does not   *)
(* exist (ral_bind, ral_drop).                                             *)
THEOREM NothingIsLost == Spec => []NothingLeaks
<1>1. UntilTheyClash => NothingLeaks
  <2> SUFFICES ASSUME TableInv
               PROVE  /\ \A o \in alive : \/ \E i \in Slots : obj[i] = o
                                          \/ \E t \in Threads : what[t] = o
                      /\ \A i \in Slots : obj[i] # None =>
                           obj[i] \in made \/ \E t \in Threads : what[t] = obj[i]
    BY DEF NothingLeaks, UntilTheyClash
  <2>1. \A o \in Mutexes : ~Nowhere(o) =>
          \/ o \in made /\ InItsSlot(o)
          \/ \E t \in Threads : what[t] = o
    BY DEF TableInv, Whereabouts, Unused
  <2>2. \A o \in alive : \/ \E i \in Slots : obj[i] = o
                         \/ \E t \in Threads : what[t] = o
    BY <2>1 DEF TableInv, Typed, Nowhere, InItsSlot
  <2>3. \A i \in Slots : obj[i] # None =>
          obj[i] \in made \/ \E t \in Threads : what[t] = obj[i]
    <3> SUFFICES ASSUME NEW i \in Slots, obj[i] # None
                 PROVE  obj[i] \in made \/ \E t \in Threads : what[t] = obj[i]
      OBVIOUS
    <3>1. obj[i] \in Mutexes
      BY DEF TableInv, Typed
    <3>2. ~Nowhere(obj[i])
      BY DEF Nowhere, NoObj
    <3> QED
      BY <2>1, <3>1, <3>2
  <2> QED
    BY <2>2, <2>3
<1> QED
  BY <1>1, TableInvCorrect, PTL
=============================================================================
