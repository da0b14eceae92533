------------------------------- MODULE Mailbox -------------------------------
(***************************************************************************)
(* What a thread with a message queue promises the threads that use it,    *)
(* without the locks, the events and the reference counts.                 *)
(*                                                                         *)
(* Messages are served one at a time in the order they were accepted, each *)
(* at most once.  A client may accept an answer later: it is told `queued' *)
(* when its message has been served and `refused' when it was thrown away, *)
(* and only one client waits at a time.  A stop throws away everything but *)
(* the message already in hand.                                            *)
(***************************************************************************)
EXTENDS Integers, Sequences

CONSTANTS Msgs, NoMsg, Clients

VARIABLES
  line,      \* accepted and not yet served, the one in hand first
  open,      \* messages are being accepted
  fate,      \* fate[c]: what became of the message client c waits on
  waitsFor,  \* waitsFor[c]: that message
  verdict    \* verdict[c]: what client c was last told

vars == <<line, open, fate, waitsFor, verdict>>

InLine(m) == \E i \in 1..Len(line) : line[i] = m

Init ==
  /\ line = <<>>
  /\ open = TRUE
  /\ fate = [c \in Clients |-> "none"]
  /\ waitsFor = [c \in Clients |-> NoMsg]
  /\ verdict = [c \in Clients |-> "failed"]

(* A message that is not in the line already goes on the end of it.        *)
Accept(c, m) ==
  /\ open
  /\ ~InLine(m)
  /\ fate[c] = "none"
  /\ line' = Append(line, m)
  /\ verdict' = [verdict EXCEPT ![c] = "queued"]
  /\ UNCHANGED open

Post(c, m) == Accept(c, m) /\ UNCHANGED <<fate, waitsFor>>

Ask(c, m) ==
  /\ \A d \in Clients : fate[d] = "none"
  /\ Accept(c, m)
  /\ fate' = [fate EXCEPT ![c] = "asked"]
  /\ waitsFor' = [waitsFor EXCEPT ![c] = m]

(* Nothing is accepted and nobody waits.                                   *)
TurnAway(c) ==
  /\ fate[c] = "none"
  /\ \E no \in {"failed", "refused"} : verdict' = [verdict EXCEPT ![c] = no]
  /\ UNCHANGED <<line, open, fate, waitsFor>>

Serve ==
  /\ line # <<>>
  /\ line' = Tail(line)
  /\ fate' = [c \in Clients |->
                IF fate[c] = "asked" /\ waitsFor[c] = Head(line)
                THEN "run" ELSE fate[c]]
  /\ UNCHANGED <<open, waitsFor, verdict>>

(* The line is cut behind the message in hand, if there is one.            *)
Stop ==
  /\ \E n \in {0, 1} :
       /\ n <= Len(line)
       /\ line' = SubSeq(line, 1, n)
       /\ fate' = [c \in Clients |->
                     IF /\ fate[c] = "asked"
                        /\ \E i \in n + 1..Len(line) : line[i] = waitsFor[c]
                     THEN "thrown" ELSE fate[c]]
  /\ open' = FALSE
  /\ UNCHANGED <<waitsFor, verdict>>

Open ==
  /\ open' = TRUE
  /\ UNCHANGED <<line, fate, waitsFor, verdict>>

Return(c) ==
  /\ fate[c] \in {"run", "thrown"}
  /\ verdict' = [verdict EXCEPT ![c] =
                   IF fate[c] = "run" THEN "queued" ELSE "refused"]
  /\ fate' = [fate EXCEPT ![c] = "none"]
  /\ waitsFor' = [waitsFor EXCEPT ![c] = NoMsg]
  /\ UNCHANGED <<line, open>>

Next ==
  \/ Serve \/ Stop \/ Open
  \/ \E c \in Clients :
       \/ TurnAway(c) \/ Return(c)
       \/ \E m \in Msgs : Post(c, m) \/ Ask(c, m)

Spec == Init /\ [][Next]_vars
=============================================================================
