----------------------------- MODULE SanaDevice ----------------------------
(***************************************************************************)
(* The device as its clients call it (device.c): DevBeginIO puts a request    *)
(* into a list of the server task or answers it, DevAbortIO takes it back.    *)
(* Clients are tasks of their own; between the test of PLIPF_OFFLINE and the   *)
(* list's semaphore the server may run.                                     *)
(***************************************************************************)
EXTENDS Naturals, Sequences, FiniteSets, SequencesExt

CONSTANTS Reqs,  \* the requests of all clients, each begun once
          Cmd,   \* their commands
          Type,  \* ios2_PacketType of those for packets
          Types, \* packet types in use
          Mask,  \* the events a client waits for with S2_ONEVENT
          Bad,   \* requests that may hold too much data or lack the buffer functions
          Hasty  \* requests their clients may abort

VARIABLES io,         \* "unused", "pending", or the result a request was answered with
          begun,      \* requests that passed the tests of BeginIO, not yet in their list
          readList, writeList, orphanList, serverPort,   \* sequences of requests
          eventList,  \* a set: all that match are answered
          offline,    \* PLIPF_OFFLINE
          sigs        \* signals of the server task

lists == <<readList, writeList, orphanList, eventList, serverPort>>
deviceVars == <<io, begun, lists, offline, sigs>>

Packet  == {"read", "write", "orphan"}
Control == {"online", "offline", "config"}
Results == {"ok", "outofservice", "error", "aborted"}
Events  == {"online", "offline", "error"}
Signals == {"int", "write", "port"}

ASSUME DeviceAssumption ==
  /\ Cmd \in [Reqs -> Packet \cup Control \cup {"event"}]
  /\ Type \in [Reqs -> Types]
  /\ Mask \in [Reqs -> SUBSET Events]
  /\ Bad \subseteq Reqs
  /\ Hasty \subseteq Reqs

Listed == ToSet(readList) \cup ToSet(writeList) \cup ToSet(orphanList) \cup eventList

DeviceTypeOK ==
  /\ io \in [Reqs -> {"unused", "pending"} \cup Results]
  /\ begun \subseteq Reqs
  /\ \A l \in {readList, writeList, orphanList, serverPort} : l \in Seq(Reqs)
  /\ eventList \subseteq Reqs
  /\ offline \in BOOLEAN
  /\ sigs \subseteq Signals

DeviceInit ==
  /\ io = [r \in Reqs |-> "unused"]
  /\ begun = {}
  /\ readList = <<>> /\ writeList = <<>> /\ orphanList = <<>> /\ serverPort = <<>>
  /\ eventList = {}
  /\ offline = TRUE
  /\ sigs = {}

\* DevTermIO: the requests of S are answered.
Term(S, result) == io' = [r \in Reqs |-> IF r \in S THEN result ELSE io[r]]

----------------------------------------------------------------------------
(* DevBeginIO *)

\* BeginIO clears ios2_WireError before it looks at the events the client put there;
\* nothing is left of them.
Waited(r) == {}

\* What a request is answered with instead of being queued.  A write is looked at before
\* the line, the others after it.
Refusal(r, bad) ==
  IF offline /\ ~(Cmd[r] = "write" /\ bad) THEN "outofservice"
  ELSE IF bad THEN "error" ELSE "none"

Refuse(r) ==
  /\ io[r] = "unused"
  /\ Cmd[r] \in Packet
  /\ \E bad \in BOOLEAN :
       (bad => r \in Bad) /\ Refusal(r, bad) # "none" /\ Term({r}, Refusal(r, bad))
  /\ UNCHANGED <<begun, lists, offline, sigs>>

\* The tests are passed; the list's semaphore comes next.
Pass(r) ==
  /\ io[r] = "unused"
  /\ Cmd[r] \in Packet
  /\ Refusal(r, FALSE) = "none"
  /\ io' = [io EXCEPT ![r] = "pending"]
  /\ begun' = begun \cup {r}
  /\ UNCHANGED <<lists, offline, sigs>>

QueueRead(r) ==
  /\ r \in begun /\ Cmd[r] = "read"
  /\ begun' = begun \ {r}
  /\ readList' = Append(readList, r)
  /\ UNCHANGED <<io, writeList, orphanList, eventList, serverPort, offline, sigs>>

QueueOrphan(r) ==
  /\ r \in begun /\ Cmd[r] = "orphan"
  /\ begun' = begun \ {r}
  /\ orphanList' = Append(orphanList, r)
  /\ UNCHANGED <<io, readList, writeList, eventList, serverPort, offline, sigs>>

\* The server is signalled after the list was released, here in the same step: had it
\* sent the frame by then, the signal would wake it for nothing.  The mutant does not
\* signal.
QueueWriteSilent(r) ==
  /\ r \in begun /\ Cmd[r] = "write"
  /\ begun' = begun \ {r}
  /\ writeList' = Append(writeList, r)
  /\ UNCHANGED <<io, readList, orphanList, eventList, serverPort, offline, sigs>>
QueueWrite(r) ==
  /\ r \in begun /\ Cmd[r] = "write"
  /\ begun' = begun \ {r}
  /\ writeList' = Append(writeList, r)
  /\ sigs' = sigs \cup {"write"}
  /\ UNCHANGED <<io, readList, orphanList, eventList, serverPort, offline>>

\* A state the client waits for may be there already.
EventHolds(r, events) ==
  \/ "online" \in events /\ ~offline
  \/ "offline" \in events /\ offline

\* S2_ONEVENT is answered at once or queued.
OnEvent(r) ==
  /\ io[r] = "unused" /\ Cmd[r] = "event"
  /\ LET holds == EventHolds(r, Waited(r)) IN
       /\ io' = [io EXCEPT ![r] = IF holds THEN "ok" ELSE "pending"]
       /\ eventList' = IF holds THEN eventList ELSE eventList \cup {r}
  /\ UNCHANGED <<begun, readList, writeList, orphanList, serverPort, offline, sigs>>

\* DevForwardIO: PutMsg signals the server as well.
Forward(r) ==
  /\ io[r] = "unused" /\ Cmd[r] \in Control
  /\ io' = [io EXCEPT ![r] = "pending"]
  /\ serverPort' = Append(serverPort, r)
  /\ sigs' = sigs \cup {"port"}
  /\ UNCHANGED <<begun, readList, writeList, orphanList, eventList, offline>>

----------------------------------------------------------------------------
(* DevAbortIO: a request in one of the lists is answered; any other, being served, at *)
(* the port or answered already, is left alone and the caller gets -1.               *)

\* The mutant replies the request and leaves it in its list.
AbortRemains(r) ==
  /\ r \in Hasty \cap Listed
  /\ Term({r}, "aborted")
  /\ UNCHANGED <<begun, lists, offline, sigs>>
Abort(r) ==
  /\ r \in Hasty \cap Listed
  /\ Term({r}, "aborted")
  /\ readList' = RemoveFirst(readList, r)
  /\ writeList' = RemoveFirst(writeList, r)
  /\ orphanList' = RemoveFirst(orphanList, r)
  /\ eventList' = eventList \ {r}
  /\ UNCHANGED <<begun, serverPort, offline, sigs>>
=============================================================================
