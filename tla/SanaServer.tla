----------------------------- MODULE SanaServer ----------------------------
(***************************************************************************)
(* The server task at the level of requests (server.c): its main loop with    *)
(* doreadreqs, dowritereqs and dos2reqs, and going online and offline.  "spc"  *)
(* is the place in that code.  A transfer and the calls of the hardware layer *)
(* are one step with their possible outcomes; Driver has them in detail.     *)
(***************************************************************************)
EXTENDS SanaDevice

CONSTANTS MaxPackets, \* bound: frames the network offers
          Faults      \* \subseteq {"rx", "tx", "buffer", "attach"}

VARIABLES spc,
          recvPending, \* HWB_RECV_PENDING, set by the interrupt
          owned,       \* the port: "none", "part" (of its resources), "all" (armed interrupt)
          portSeen,    \* recv & portsigmask, kept from the last Wait
          current,     \* the control request dos2reqs works on, as a set
          inFrame,     \* type of the frame received and not handed on, or "none"
          packets,     \* frames offered so far
          dropped,     \* history: requests taken from the port and never answered
          late         \* history: begun when their list was rejected

serverVars == <<spc, recvPending, owned, portSeen, current, inFrame, packets, dropped, late>>
hist == <<dropped, late>>
hw   == <<recvPending, owned, packets>>

ASSUME ServerAssumption ==
  /\ MaxPackets \in Nat
  /\ Faults \subseteq {"rx", "tx", "buffer", "attach"}
  /\ Types # {}

ServerPcs == {"head", "wait", "check", "recv", "deliver", "orphan", "writes", "sending",
              "port", "attach", "detach", "reject_w", "reject_r", "reject_o"}

ServerTypeOK ==
  /\ spc \in ServerPcs
  /\ recvPending \in BOOLEAN
  /\ owned \in {"none", "part", "all"}
  /\ portSeen \in BOOLEAN
  /\ current \subseteq Reqs
  /\ inFrame \in Types \cup {"none"}
  /\ packets \in 0..MaxPackets
  /\ dropped \subseteq Reqs
  /\ late \subseteq Reqs

ServerInit ==
  /\ spc = "head"
  /\ recvPending = FALSE
  /\ owned = "none"
  /\ portSeen = FALSE
  /\ current = {}
  /\ inFrame = "none"
  /\ packets = 0
  /\ dropped = {} /\ late = {}

\* The write list's semaphore is held from the first frame to the last.
WriteListHeld == spc \in {"writes", "sending"}

\* DoEvent: the waiting requests that want one of the events are answered.
Wanting(events) == {r \in eventList : Waited(r) \cap events # {}}

\* The answers of a step: to S with the given result, and to those the events wake.
Answer(S, result, events) ==
  /\ io' = [r \in Reqs |-> IF r \in S THEN result
                           ELSE IF r \in Wanting(events) THEN "ok" ELSE io[r]]
  /\ eventList' = eventList \ Wanting(events)

Goto(pc) == spc' = pc /\ UNCHANGED <<portSeen, current, inFrame>>

Delivered == spc' = "writes" /\ inFrame' = "none" /\ UNCHANGED <<portSeen, current>>
----------------------------------------------------------------------------
(* The FLG interrupt: a frame is offered *)

Interrupt ==
  /\ owned = "all"
  /\ packets < MaxPackets
  /\ packets' = packets + 1
  /\ recvPending' = TRUE
  /\ sigs' = IF recvPending THEN sigs ELSE sigs \cup {"int"}
  /\ UNCHANGED <<io, begun, lists, offline, spc, owned, portSeen, current, inFrame, hist>>

(* The main loop *)

LoopHead ==
  /\ spc = "head"
  /\ Goto(IF recvPending THEN "check" ELSE "wait")
  /\ UNCHANGED <<deviceVars, hw, hist>>

Wait ==
  /\ spc = "wait"
  /\ sigs # {}
  /\ portSeen' = ("port" \in sigs)
  /\ sigs' = {}
  /\ spc' = "check"
  /\ UNCHANGED <<io, begun, lists, offline, hw, current, inFrame, hist>>

CheckReceive ==
  /\ spc = "check"
  /\ Goto(IF recvPending THEN "recv" ELSE "writes")
  /\ UNCHANGED <<deviceVars, hw, hist>>

----------------------------------------------------------------------------
(* doreadreqs *)

\* hw_recv_frame; its exit may clear any signal of the task (see Driver).  Without the
\* port it can only fail.
RecvFrame ==
  /\ spc = "recv"
  /\ recvPending' = FALSE
  /\ \E s \in SUBSET sigs : sigs' = sigs \ s
  /\ \/ /\ owned = "all"
        /\ inFrame' \in Types
        /\ spc' = "deliver"
        /\ UNCHANGED <<io, eventList>>
     \/ /\ owned # "all" \/ "rx" \in Faults
        /\ Answer({}, "ok", {"error"})
        /\ spc' = "writes"
        /\ UNCHANGED inFrame
  /\ UNCHANGED <<begun, readList, writeList, orphanList, serverPort, offline, owned, packets,
                 portSeen, current, hist>>

\* read_frame: the frame is copied into the client's buffer, or cannot be.
ReadFrame(r) ==
  \/ Answer({r}, "ok", {})
  \/ "buffer" \in Faults /\ Answer({r}, "error", {"error"})

\* The oldest request for the type.
Reader == {i \in DOMAIN readList : /\ Type[readList[i]] = inFrame
                                   /\ \A j \in 1..i-1 : Type[readList[j]] # inFrame}
Deliver ==
  /\ spc = "deliver"
  /\ \/ \E i \in Reader : /\ ReadFrame(readList[i])
                          /\ readList' = RemoveAt(readList, i)
                          /\ Delivered
     \/ Reader = {} /\ Goto("orphan") /\ UNCHANGED <<io, eventList, readList>>
  /\ UNCHANGED <<begun, writeList, orphanList, serverPort, offline, sigs, hw, hist>>

\* Else the oldest of those who read what nobody asked for, else the frame is lost.
DeliverOrphan ==
  /\ spc = "orphan"
  /\ \/ /\ orphanList # <<>>
        /\ ReadFrame(Head(orphanList))
        /\ orphanList' = Tail(orphanList)
     \/ orphanList = <<>> /\ UNCHANGED <<io, eventList, orphanList>>
  /\ Delivered
  /\ UNCHANGED <<begun, readList, writeList, serverPort, offline, sigs, hw, hist>>

----------------------------------------------------------------------------
(* dowritereqs *)

\* A pending receive goes first; the rest of the list waits for the next turn.
NextWrite ==
  /\ spc = "writes"
  /\ Goto(IF writeList # <<>> /\ ~recvPending THEN "sending"
          ELSE IF portSeen THEN "port" ELSE "head")
  /\ UNCHANGED <<deviceVars, hw, hist>>

\* write_frame and the answer.  The mutant sends without asking who owns the port.
SentAnyway ==
  \/ Answer({Head(writeList)}, "ok", {})
  \/ "buffer" \in Faults /\ Answer({Head(writeList)}, "error", {"error"})
Sent ==
  \/ owned = "all" /\ Answer({Head(writeList)}, "ok", {})
  \/ (owned # "all" \/ "tx" \in Faults) /\ Answer({Head(writeList)}, "error", {"error"})
  \/ "buffer" \in Faults /\ Answer({Head(writeList)}, "error", {"error"})

SendFrame ==
  /\ spc = "sending"
  /\ Sent
  /\ writeList' = Tail(writeList)
  /\ Goto("writes")
  /\ UNCHANGED <<begun, readList, orphanList, serverPort, offline, sigs, hw, hist>>

----------------------------------------------------------------------------
(* dos2reqs *)

PortEmpty ==
  /\ spc = "port" /\ serverPort = <<>>
  /\ Goto("head")
  /\ UNCHANGED <<deviceVars, hw, hist>>

\* The message is out of the port when a pending receive ends the loop.
DropRequest ==
  /\ spc = "port" /\ serverPort # <<>> /\ recvPending
  /\ dropped' = dropped \cup {Head(serverPort)}
  /\ serverPort' = Tail(serverPort)
  /\ Goto("head")
  /\ UNCHANGED <<io, begun, readList, writeList, orphanList, eventList, offline, sigs, hw, late>>

\* S2_ONLINE and S2_OFFLINE have nothing to do when the line is in that state already,
\* but S2_OFFLINE rejects all the same.
TakeRequest ==
  /\ spc = "port" /\ serverPort # <<>> /\ ~recvPending
  /\ LET r == Head(serverPort) IN
       \/ /\ Cmd[r] = "online" /\ ~offline
          /\ Answer({r}, "ok", {})
          /\ Goto("port")
       \/ /\ Cmd[r] # "online" \/ offline
          /\ spc' = IF Cmd[r] = "offline" THEN (IF offline THEN "reject_w" ELSE "detach")
                    ELSE (IF offline THEN "attach" ELSE "detach")
          /\ current' = {r}
          /\ UNCHANGED <<io, eventList, portSeen, inFrame>>
  /\ serverPort' = Tail(serverPort)
  /\ UNCHANGED <<begun, readList, writeList, orphanList, offline, sigs, hw, hist>>

Finish(result, events) ==
  /\ Answer(current, result, events)
  /\ current' = {}
  /\ spc' = "port"
  /\ UNCHANGED <<portSeen, inFrame>>

\* goonline: hw_attach takes the resources of the port, arms the interrupt and sends the
\* magic packet.  What it got before it failed it keeps, and fails the next time.
Attach ==
  /\ spc = "attach"
  /\ \/ /\ owned = "none" /\ owned' = "all"
        /\ offline' = FALSE
        /\ Finish("ok", {"online"})
     \/ /\ IF owned = "none" THEN "attach" \in Faults /\ owned' \in {"none", "part", "all"}
                             ELSE UNCHANGED owned
        /\ Finish("error", {})
        /\ UNCHANGED offline
  /\ UNCHANGED <<begun, readList, writeList, orphanList, serverPort, sigs, recvPending, packets,
                 hist>>

\* gooffline.  S2_CONFIGINTERFACE goes online again and rejects nothing.
Detach ==
  /\ spc = "detach"
  /\ owned' = "none"
  /\ offline' = TRUE
  /\ Answer({}, "ok", {"offline"})
  /\ Goto(IF \E r \in current : Cmd[r] = "config" THEN "attach" ELSE "reject_w")
  /\ UNCHANGED <<begun, readList, writeList, orphanList, serverPort, sigs, recvPending, packets,
                 hist>>

\* rejectpackets, list by list.
BegunFor(cmd) == {r \in begun : Cmd[r] = cmd}
Reject(list, cmd, next) ==
  /\ Term(ToSet(list), "outofservice")
  /\ late' = late \cup BegunFor(cmd)
  /\ Goto(next)
  /\ UNCHANGED <<begun, eventList, serverPort, offline, sigs, hw, dropped>>

RejectWrites ==
  /\ spc = "reject_w"
  /\ Reject(writeList, "write", "reject_r")
  /\ writeList' = <<>>
  /\ UNCHANGED <<readList, orphanList>>

RejectReads ==
  /\ spc = "reject_r"
  /\ Reject(readList, "read", "reject_o")
  /\ readList' = <<>>
  /\ UNCHANGED <<writeList, orphanList>>

\* The last list, then S2_OFFLINE itself is answered.  The mutant forgets the list.
OrphansForgotten ==
  /\ spc = "reject_o"
  /\ Finish("ok", {})
  /\ UNCHANGED <<begun, readList, writeList, orphanList, serverPort, offline, sigs, hw, hist>>
RejectOrphans ==
  /\ spc = "reject_o"
  /\ io' = [r \in Reqs |-> IF r \in current THEN "ok"
                           ELSE IF r \in ToSet(orphanList) THEN "outofservice" ELSE io[r]]
  /\ orphanList' = <<>>
  /\ late' = late \cup BegunFor("orphan")
  /\ current' = {}
  /\ spc' = "port"
  /\ UNCHANGED <<begun, readList, writeList, eventList, serverPort, offline, sigs, hw, portSeen,
                 inFrame, dropped>>

ServerStep ==
  \/ LoopHead \/ Wait \/ CheckReceive
  \/ RecvFrame \/ Deliver \/ DeliverOrphan
  \/ NextWrite \/ SendFrame
  \/ PortEmpty \/ DropRequest \/ TakeRequest
  \/ Attach \/ Detach \/ RejectWrites \/ RejectReads \/ RejectOrphans
=============================================================================
