----------------------------- MODULE ObjectTable -----------------------------
(***************************************************************************)
(* The table behind every mutex and event (port_ral.c): a slot for each,   *)
(* found by the address of the engine's own object.  Nothing guards it.    *)
(* Here the objects are mutexes.                                           *)
(*                                                                         *)
(* A message has a mutex, so one is made with every message and dropped    *)
(* with it, by whichever thread makes the message and whichever lets go of *)
(* it last.  Each write to a slot is a step of its own.                    *)
(*                                                                         *)
(* A search is one step: a slot that becomes free behind it is not found,  *)
(* which here is the search having come earlier.  A mutex is not taken     *)
(* twice by one thread, for which the table also keeps owner and depth.    *)
(***************************************************************************)
EXTENDS Integers, FiniteSets

CONSTANTS
  Threads,
  Makers,     \* the threads that make objects
  Mutexes,    \* the engine's objects, by their addresses
  RAL_MAX,    \* how many slots there are; 1024 in the code
  None

Slots == 1..RAL_MAX

ASSUME TableAssumption ==
  /\ Makers \subseteq Threads
  /\ None \notin Mutexes
  /\ RAL_MAX \in Nat

VARIABLES
  key,      \* ral_key, None for nought
  obj,      \* ral_obj: whose semaphore is in the slot, None for no one's
  count,    \* count[o]: the count of o's semaphore
  alive,    \* whose semaphores exist underneath
  made,     \* the objects whose constructor has come back and whose
            \* destructor has not been entered
  pc,       \* pc[t]: where thread t is
  what,     \* what[t]: the object it is about
  at,       \* at[t]: the slot it has found
  lock,     \* lock[t]: the semaphore it waits for or has
  refused,  \* history: the objects there was no slot for
  clashed   \* history: two ral_binds have been in one slot

table == <<key, obj>>
vars == <<table, count, alive, made, pc, what, at, lock, refused, clashed>>

Init ==
  /\ key = [i \in Slots |-> None]
  /\ obj = [i \in Slots |-> None]
  /\ count = [o \in Mutexes |-> 0]
  /\ alive = {}
  /\ made = {}
  /\ pc = [t \in Threads |-> "free"]
  /\ what = [t \in Threads |-> None]
  /\ at = [t \in Threads |-> 0]
  /\ lock = [t \in Threads |-> None]
  /\ refused = {}
  /\ clashed = FALSE

Go(t, there) == pc' = [pc EXCEPT ![t] = there]
Forget(t) == /\ Go(t, "free")
             /\ what' = [what EXCEPT ![t] = None]
             /\ at' = [at EXCEPT ![t] = 0]

(* No thread is about the object.                                          *)
Unused(o) == \A t \in Threads : what[t] # o

(* The first of some slots, 0 if there are none.                           *)
First(S) == IF S = {} THEN 0 ELSE CHOOSE i \in S : \A j \in S : i <= j

(* ral_slot, and what ral_find finds there.                                *)
SlotOf(o) == First({i \in Slots : key[i] = o})
Found(o) == IF SlotOf(o) = 0 THEN None ELSE obj[SlotOf(o)]

-----------------------------------------------------------------------------
(* Making one: ral_bind.                                                   *)

(* What is underneath comes first, with a count of one.                    *)
TwoAtOnce == 2
AtFirst == 1

Make(t, o) ==
  /\ pc[t] = "free"
  /\ t \in Makers
  /\ o \notin made /\ Unused(o)
  /\ alive' = alive \cup {o}
  /\ count' = [count EXCEPT ![o] = AtFirst]
  /\ what' = [what EXCEPT ![t] = o]
  /\ Go(t, "bind")
  /\ UNCHANGED <<table, made, at, lock, refused, clashed>>

(* A slot is free if nothing is in it, whatever its key.                   *)
KeyIsGone(i) == key[i] = None
Vacant(i) == obj[i] = None

Slot(o) ==
  IF SlotOf(o) # 0 THEN SlotOf(o) ELSE First({i \in Slots : Vacant(i)})

(* Nothing keeps a second ral_bind from a slot that a first has chosen and *)
(* not filled yet.                                                         *)
Filling(i) == \E s \in Threads : pc[s] \in {"clear", "key", "obj"} /\ at[s] = i

Seek(t) ==
  /\ pc[t] = "bind"
  /\ Slot(what[t]) # 0
  /\ at' = [at EXCEPT ![t] = Slot(what[t])]
  /\ clashed' = (clashed \/ Filling(Slot(what[t])))
  /\ Go(t, "clear")
  /\ UNCHANGED <<table, count, alive, made, what, lock, refused>>

(* With no slot left what was made underneath is given back.  The          *)
(* constructor only logs it: its caller has a mutex all the same.          *)
Kept(o) == alive
GivenBack(o) == alive \ {o}

Refuse(t) ==
  /\ pc[t] = "bind"
  /\ Slot(what[t]) = 0
  /\ alive' = GivenBack(what[t])
  /\ made' = made \cup {what[t]}
  /\ refused' = refused \cup {what[t]}
  /\ Forget(t)
  /\ UNCHANGED <<table, count, lock, clashed>>

Clear(t) ==
  /\ pc[t] = "clear"
  /\ alive' = alive \ {obj[at[t]]}
  /\ Go(t, "key")
  /\ UNCHANGED <<table, count, made, what, at, lock, refused, clashed>>

WriteKey(t) ==
  /\ pc[t] = "key"
  /\ key' = [key EXCEPT ![at[t]] = what[t]]
  /\ Go(t, "obj")
  /\ UNCHANGED <<obj, count, alive, made, what, at, lock, refused, clashed>>

(* Behind it is only the kind of the slot, which is a semaphore's.         *)
WriteObj(t) ==
  /\ pc[t] = "obj"
  /\ obj' = [obj EXCEPT ![at[t]] = what[t]]
  /\ made' = made \cup {what[t]}
  /\ Forget(t)
  /\ UNCHANGED <<key, count, alive, lock, refused, clashed>>

-----------------------------------------------------------------------------
(* Dropping one: ral_drop.  A message is dropped when its last reference   *)
(* goes, so that nobody is using it.                                       *)
Drop(t, o) ==
  /\ pc[t] = "free"
  /\ o \in made /\ Unused(o)
  /\ made' = made \ {o}
  /\ what' = [what EXCEPT ![t] = o]
  /\ Go(t, "drop")
  /\ UNCHANGED <<table, count, alive, at, lock, refused, clashed>>

NothingToDrop(t) ==
  /\ pc[t] = "drop"
  /\ Found(what[t]) = None
  /\ refused' = refused \ {what[t]}
  /\ Forget(t)
  /\ UNCHANGED <<table, count, alive, made, lock, clashed>>

Free(t) ==
  /\ pc[t] = "drop"
  /\ Found(what[t]) # None
  /\ alive' = alive \ {Found(what[t])}
  /\ at' = [at EXCEPT ![t] = SlotOf(what[t])]
  /\ Go(t, "unkey")
  /\ UNCHANGED <<table, count, made, what, lock, refused, clashed>>

ClearKey(t) ==
  /\ pc[t] = "unkey"
  /\ key' = [key EXCEPT ![at[t]] = None]
  /\ Go(t, "unobj")
  /\ UNCHANGED <<obj, count, alive, made, what, at, lock, refused, clashed>>

ClearObj(t) ==
  /\ pc[t] = "unobj"
  /\ obj' = [obj EXCEPT ![at[t]] = None]
  /\ Forget(t)
  /\ UNCHANGED <<key, count, alive, made, lock, refused, clashed>>

-----------------------------------------------------------------------------
(* Taking a mutex and giving it back.  sy_mutexWait says whether it has    *)
(* it; its callers do not look (msg_addRef, msg_release).                  *)
Lock(t, o) ==
  /\ pc[t] = "free"
  /\ o \in made
  /\ \A s \in Threads : what[s] = o => pc[s] \in {"lock", "wait", "inside"}
  /\ what' = [what EXCEPT ![t] = o]
  /\ Go(t, "lock")
  /\ UNCHANGED <<table, count, alive, made, at, lock, refused, clashed>>

Look(t) ==
  /\ pc[t] = "lock"
  /\ lock' = [lock EXCEPT ![t] = Found(what[t])]
  /\ Go(t, IF Found(what[t]) = None THEN "inside" ELSE "wait")
  /\ UNCHANGED <<table, count, alive, made, what, at, refused, clashed>>

Take(t) ==
  /\ pc[t] = "wait"
  /\ count[lock[t]] > 0
  /\ count' = [count EXCEPT ![lock[t]] = @ - 1]
  /\ Go(t, "inside")
  /\ UNCHANGED <<table, alive, made, what, at, lock, refused, clashed>>

(* The search is made again on the way out.                                *)
Release(t) ==
  /\ pc[t] = "inside"
  /\ count' = IF Found(what[t]) = None THEN count
              ELSE [count EXCEPT ![Found(what[t])] = 1]
  /\ lock' = [lock EXCEPT ![t] = None]
  /\ Forget(t)
  /\ UNCHANGED <<table, alive, made, refused, clashed>>

-----------------------------------------------------------------------------
Within(t) ==
  \/ Seek(t) \/ Refuse(t) \/ Clear(t)
  \/ WriteKey(t) \/ WriteObj(t)
  \/ NothingToDrop(t) \/ Free(t)
  \/ ClearKey(t) \/ ClearObj(t)
  \/ Look(t) \/ Take(t) \/ Release(t)

Next ==
  \E t \in Threads :
    \/ \E o \in Mutexes : Make(t, o) \/ Drop(t, o) \/ Lock(t, o)
    \/ Within(t)

Spec == Init /\ [][Next]_vars

-----------------------------------------------------------------------------
(* Each object is identified by its own address (eci_sync.c, 3-5): what    *)
(* was made, and found a slot, is found by it until it is dropped.         *)
IdentifiedByAddress == \A o \in made \ refused : Found(o) = o /\ o \in alive

(* Beyond the first clash the rest promises nothing; a run need not look.  *)
Unclashed == ~clashed

(* And it is, whoever makes and drops what beside it, until two ral_binds  *)
(* have been in one slot.  A drop takes its slot down in steps; ral_bind   *)
(* must not take one that has still to be emptied.                         *)
MadeIsFound == clashed \/ IdentifiedByAddress

(* Until then a mutex that found a slot is held by one thread at a time,   *)
(* whatever is made and dropped meanwhile (ralRecMutexSemaphoreTest).      *)
Inside(o) == {t \in Threads : pc[t] = "inside" /\ what[t] = o}
MutexExcludes ==
  clashed \/ \A o \in Mutexes \ refused : Cardinality(Inside(o)) <= 1

(* Until then what exists underneath is in the table, or on its way there: *)
(* nothing is lost for want of a slot, and no slot is (ral_bind, ral_drop).*)
NothingLeaks ==
  \/ clashed
  \/ /\ \A o \in alive : \/ \E i \in Slots : obj[i] = o
                         \/ \E t \in Threads : what[t] = o
     /\ \A i \in Slots : obj[i] # None =>
          obj[i] \in made \/ \E t \in Threads : what[t] = obj[i]

=============================================================================
