------------------------------- MODULE Driver ------------------------------
(***************************************************************************)
(* The Amiga driver at the port: the main loop of the server task            *)
(* (server.c), going online and offline, sending and receiving frames        *)
(* (hw.c) and the FLG interrupt (hwpar.asm).  "dpc" walks through ServerTask *)
(* and what it calls; "caller" tells on whose behalf a frame is sent.        *)
(*                                                                         *)
(* Signals wake the task: "int" from the interrupt, "write" (CTRL_F) for a    *)
(* new CMD_WRITE, "port" for a request at the server's port.                *)
(***************************************************************************)
EXTENDS XferPort

CONSTANTS MaxWrites,   \* bound: write requests of the clients
          WriteTypes,  \* types of the frames they send, \subseteq {"data", "loopback"}
          MaxRequests, \* bound: control requests of the clients
          Requests,    \* control requests in use, \subseteq {"online", "offline", "config"}
          Macs,        \* MAC addresses in use
          AmigaFaults  \* \subseteq {"timeout", "alloc", "buffer"}

VARIABLES dpc,         \* where the server task is
          caller,      \* who sends: "write", "answer", "attach", "detach"; or "none"
          rc,          \* result of the last transfer
          offline,     \* PLIPF_OFFLINE
          recvPending, \* HWB_RECV_PENDING
          owned,       \* how much of the port hw_attach obtained, see Attached
          sigs,        \* signals of the task
          portSeen,    \* recv & portsigmask, of the last Wait
          request,     \* the operation dos2reqs works on, or "none"
          requests,    \* messages at pb_ServerPort
          writes,      \* pb_WriteList
          cfgMac,      \* pb_CfgAddr
          asked,       \* history: control requests
          written,     \* history: writes begun
          okWrites,    \* history: data writes replied without error
          got          \* history: data packets received

hwState   == <<recvPending, owned>>
listState == <<requests, writes, cfgMac>>
sentHist  == <<asked, written, okWrites, got>>
driverVars == <<dpc, caller, rc, offline, hwState, sigs, portSeen, request, listState, sentHist>>

ASSUME DriverAssumption ==
  /\ MaxWrites \in Nat
  /\ MaxRequests \in Nat
  /\ WriteTypes \subseteq {"data", "loopback"}
  /\ Requests \subseteq {"online", "offline", "config"}
  /\ Macs \subseteq Nat /\ 1 \in Macs
  /\ AmigaFaults \subseteq {"timeout", "alloc", "buffer"}

Signals == {"int", "write", "port"}

DriverPcs == {"head", "wait", "check", "send", "sending", "sent", "recv", "receiving",
              "recv_exit", "drop_sel", "received", "writes", "port", "attach", "detach"}

Callers == {"write", "answer", "attach", "detach"}

Operations == {"online", "offline", "config"}

AllRequests == [op : Operations, mac : Macs]

DriverTypeOK ==
  /\ dpc \in DriverPcs
  /\ caller \in Callers \cup {"none"}
  /\ rc \in BOOLEAN
  /\ offline \in BOOLEAN
  /\ recvPending \in BOOLEAN
  /\ owned \in 0..3
  /\ sigs \subseteq Signals
  /\ portSeen \in BOOLEAN
  /\ request \in Operations \cup {"none"}
  /\ requests \in Seq(AllRequests)
  /\ writes \in Seq(AllFrames)
  /\ cfgMac \in Macs
  /\ asked \in Nat
  /\ written \in Nat
  /\ okWrites \in Seq(Nat)
  /\ got \in Seq(Nat)

DriverInit ==
  /\ dpc = "head"
  /\ caller = "none"
  /\ rc = FALSE
  /\ offline = TRUE
  /\ recvPending = FALSE
  /\ owned = 0
  /\ sigs = {}
  /\ portSeen = FALSE
  /\ request = "none"
  /\ requests = <<>>
  /\ writes = <<>>
  /\ cfgMac \in Macs
  /\ asked = 0
  /\ written = 0
  /\ okWrites = <<>>
  /\ got = <<>>

\* hw_attach obtains the port (1), its handshake bits (2) and the FLG interrupt, with
\* which come the direction of the lines and the interrupt's enable bit (3).
Attached == owned = 3

----------------------------------------------------------------------------
(* The FLG interrupt and the clients *)

\* An interrupt preempts the task.
InterruptDue == flg /\ Attached

\* The mutant sets the flag and signals nobody.
InterruptSilent ==
  /\ recvPending' = TRUE
  /\ UNCHANGED sigs
InterruptSignals ==
  /\ recvPending' = TRUE
  /\ sigs' = IF recvPending THEN sigs ELSE sigs \cup {"int"}

Interrupt ==
  /\ InterruptDue
  /\ flg' = FALSE
  /\ InterruptSignals
  /\ UNCHANGED <<dpc, caller, rc, offline, owned, portSeen, request, listState, sentHist,
                 phase, xop, frame>>

\* The write list's semaphore is held from the first write to the last.
WriteListHeld == dpc = "writes" \/ (caller = "write" /\ dpc \in {"send", "sending", "sent"})

\* CMD_WRITE: queued unless the device is offline.
ClientWrite ==
  /\ ~offline
  /\ ~WriteListHeld
  /\ written < MaxWrites
  /\ written' = written + 1
  /\ \E t \in WriteTypes : writes' = Append(writes, Frame(t, written'))
  /\ sigs' = sigs \cup {"write"}
  /\ UNCHANGED <<dpc, caller, rc, offline, hwState, portSeen, request, requests, cfgMac,
                 asked, okWrites, got, port>>

\* S2_ONLINE, S2_OFFLINE, S2_CONFIGINTERFACE: forwarded to the server, one at a time here.
ClientRequest ==
  /\ requests = <<>>
  /\ asked < MaxRequests
  /\ asked' = asked + 1
  /\ \E r \in AllRequests : r.op \in Requests /\ requests' = <<r>>
  /\ sigs' = sigs \cup {"port"}
  /\ UNCHANGED <<dpc, caller, rc, offline, hwState, portSeen, request, writes, cfgMac,
                 written, okWrites, got, port>>

----------------------------------------------------------------------------
(* ServerTask: the main loop *)

LoopHead ==
  /\ dpc = "head"
  /\ dpc' = IF recvPending THEN "check" ELSE "wait"
  /\ UNCHANGED <<caller, rc, offline, hwState, sigs, portSeen, request, listState, sentHist,
                 port>>

Wait ==
  /\ dpc = "wait"
  /\ sigs # {}
  /\ portSeen' = ("port" \in sigs)
  /\ sigs' = {}
  /\ dpc' = "check"
  /\ UNCHANGED <<caller, rc, offline, hwState, request, listState, sentHist, port>>

\* doreadreqs if a receive is pending.  The mutant takes the flag back at once.
CheckReceiveClears ==
  /\ dpc = "check"
  /\ dpc' = IF recvPending THEN "recv" ELSE "writes"
  /\ recvPending' = FALSE
  /\ UNCHANGED <<caller, rc, offline, owned, sigs, portSeen, request, listState, sentHist, port>>

CheckReceive ==
  /\ dpc = "check"
  /\ dpc' = IF recvPending THEN "recv" ELSE "writes"
  /\ UNCHANGED <<caller, rc, offline, hwState, sigs, portSeen, request, listState, sentHist,
                 port>>

----------------------------------------------------------------------------
(* hw_send_frame *)

SendFor(c) == dpc' = "send" /\ caller' = c

\* hw_send_frame returned; the result is looked at and forgotten.
Sent(c) == dpc = "sent" /\ caller = c /\ caller' = "none" /\ rc' = FALSE

\* What is sent: a write, the received frame or the magic packet, the packet of attach.
FrameToSend ==
  CASE caller = "write"  -> Head(writes)
    [] caller = "answer" -> IF frame.type = "loopback" THEN frame ELSE Frame("online", cfgMac)
    [] caller = "attach" -> Frame("online", cfgMac)
    [] caller = "detach" -> Frame("offline", cfgMac)

\* The AVR sees SELECT only from a driver that owns the port.
RaiseSend ==
  /\ dpc = "send"
  /\ Attached
  /\ phase = "free"
  /\ phase' = "called"
  /\ xop' = "send"
  /\ frame' = FrameToSend
  /\ dpc' = "sending"
  /\ UNCHANGED <<caller, rc, offline, hwState, sigs, portSeen, request, listState, sentHist, flg>>

\* A routine gives up when the timer runs out; without the port it always does.
MayTimeOut == "timeout" \in AmigaFaults \/ ~Attached

SendReturns ==
  /\ \/ dpc = "sending" /\ phase = "moved" /\ rc' = TRUE
     \/ dpc \in {"send", "sending"} /\ MayTimeOut /\ rc' = FALSE
  /\ phase' = Released
  /\ dpc' = "sent"
  /\ UNCHANGED <<caller, offline, hwState, sigs, portSeen, request, listState, sentHist,
                 xop, frame, flg>>

----------------------------------------------------------------------------
(* doreadreqs, hw_recv_frame *)

RaiseRecv ==
  /\ dpc = "recv"
  /\ Attached
  /\ phase = "free"
  /\ phase' = "called"
  /\ xop' = "recv"
  /\ dpc' = "receiving"
  /\ UNCHANGED <<caller, rc, offline, hwState, sigs, portSeen, request, listState, sentHist,
                 frame, flg>>

\* A frame of a size that cannot be ends the routine with an error.
RecvEnds ==
  /\ \/ dpc = "receiving" /\ phase = "moved" /\ rc' = TRUE
     \/ dpc = "receiving" /\ phase = "taken" /\ frame.type = "junk" /\ rc' = FALSE
     \/ dpc \in {"recv", "receiving"} /\ MayTimeOut /\ rc' = FALSE
  /\ dpc' = "recv_exit"
  /\ UNCHANGED <<caller, offline, hwState, sigs, portSeen, request, listState, sentHist, port>>

\* SetSignal: hwb_IntSigMask is read through the register of the frame, so that any of
\* the task's signals may be cleared.  Then the flag is cleared.  The mutant forgets it.
RecvExitKeepsFlag ==
  /\ dpc = "recv_exit"
  /\ \E s \in SUBSET sigs : sigs' = sigs \ s
  /\ dpc' = "drop_sel"
  /\ UNCHANGED <<caller, rc, offline, owned, recvPending, portSeen, request, listState,
                 sentHist, port>>

RecvExit ==
  /\ dpc = "recv_exit"
  /\ \E s \in SUBSET sigs : sigs' = sigs \ s
  /\ recvPending' = FALSE
  /\ dpc' = "drop_sel"
  /\ UNCHANGED <<caller, rc, offline, owned, portSeen, request, listState, sentHist, port>>

DropSelectRecv ==
  /\ dpc = "drop_sel"
  /\ phase' = Released
  /\ dpc' = "received"
  /\ UNCHANGED <<caller, rc, offline, hwState, sigs, portSeen, request, listState, sentHist,
                 xop, frame, flg>>

\* A magic packet is answered and the next frame is received, asked for or not.  Any
\* other frame is handed to a reader.
Received ==
  /\ dpc = "received"
  /\ rc' = FALSE
  /\ \/ ~rc /\ dpc' = "writes" /\ UNCHANGED <<caller, got>>
     \/ rc /\ frame.type = "online" /\ SendFor("answer") /\ UNCHANGED got
     \/ rc /\ frame.type = "loopback" /\ SendFor("answer") /\ UNCHANGED got
     \/ /\ rc /\ frame.type \notin {"online", "loopback"}
        /\ got' = IF frame.type = "data" THEN Append(got, frame.val) ELSE got
        /\ dpc' = "writes"
        /\ UNCHANGED caller
  /\ UNCHANGED <<offline, hwState, sigs, portSeen, request, listState, asked, written,
                 okWrites, port>>

Answered ==
  /\ Sent("answer")
  /\ dpc' = "recv"
  /\ UNCHANGED <<offline, hwState, sigs, portSeen, request, listState, sentHist,
                 port>>

----------------------------------------------------------------------------
(* dowritereqs *)

\* The next write, unless a receive is pending or the list is empty.
NextWrite ==
  /\ dpc = "writes"
  /\ \/ /\ writes = <<>> \/ recvPending
        /\ dpc' = "port"
        /\ UNCHANGED caller
     \/ /\ writes # <<>> /\ ~recvPending
        /\ SendFor("write")
  /\ UNCHANGED <<rc, offline, hwState, sigs, portSeen, request, listState, sentHist, port>>

\* CopyFromBuffer fails: replied with an error, nothing is sent.
WriteBufferError ==
  /\ dpc = "writes"
  /\ "buffer" \in AmigaFaults
  /\ writes # <<>> /\ ~recvPending
  /\ writes' = Tail(writes)
  /\ UNCHANGED <<dpc, caller, rc, offline, hwState, sigs, portSeen, request, requests, cfgMac,
                 sentHist, port>>

\* Replied, with an error if the frame was not sent; no frame is sent twice.  In one
\* mutant a write that failed stays in the list, in the other it is replied like any.
WrittenUnchecked ==
  /\ Sent("write")
  /\ writes' = Tail(writes)
  /\ okWrites' = IF Head(writes).type = "data" THEN Append(okWrites, Head(writes).val)
                                             ELSE okWrites
  /\ dpc' = "writes"
  /\ UNCHANGED <<offline, hwState, sigs, portSeen, request, requests, cfgMac,
                 asked, written, got, port>>

WrittenRetried ==
  /\ Sent("write")
  /\ writes' = IF rc THEN Tail(writes) ELSE writes
  /\ okWrites' = IF rc /\ Head(writes).type = "data" THEN Append(okWrites, Head(writes).val)
                                                    ELSE okWrites
  /\ dpc' = "writes"
  /\ UNCHANGED <<offline, hwState, sigs, portSeen, request, requests, cfgMac,
                 asked, written, got, port>>

Written ==
  /\ Sent("write")
  /\ writes' = Tail(writes)
  /\ okWrites' = IF rc /\ Head(writes).type = "data" THEN Append(okWrites, Head(writes).val)
                                                    ELSE okWrites
  /\ dpc' = "writes"
  /\ UNCHANGED <<offline, hwState, sigs, portSeen, request, requests, cfgMac,
                 asked, written, got, port>>

----------------------------------------------------------------------------
(* dos2reqs *)

\* No request was signalled, or none is left.
NoRequest ==
  /\ dpc = "port"
  /\ ~portSeen \/ requests = <<>>
  /\ dpc' = "head"
  /\ UNCHANGED <<caller, rc, offline, hwState, sigs, portSeen, request, listState, sentHist,
                 port>>

\* A request is taken from the port; when a receive is pending the loop is left with it.
RequestDropped ==
  /\ dpc = "port"
  /\ portSeen /\ requests # <<>>
  /\ recvPending
  /\ requests' = Tail(requests)
  /\ dpc' = "head"
  /\ UNCHANGED <<caller, rc, offline, hwState, sigs, portSeen, request, writes, cfgMac,
                 sentHist, port>>

\* S2_ONLINE attaches when offline, S2_OFFLINE detaches when online, S2_CONFIGINTERFACE
\* sets the address and does both.
TakeRequest ==
  /\ dpc = "port"
  /\ portSeen /\ requests # <<>>
  /\ ~recvPending
  /\ requests' = Tail(requests)
  /\ LET r == Head(requests) IN
       /\ cfgMac' = IF r.op = "config" THEN r.mac ELSE cfgMac
       /\ \/ /\ r.op = "online" /\ ~offline
             /\ UNCHANGED <<dpc, request, writes>>
          \/ /\ r.op \in {"online", "config"} /\ offline
             /\ dpc' = "attach" /\ request' = r.op /\ UNCHANGED writes
          \/ /\ r.op \in {"offline", "config"} /\ ~offline
             /\ dpc' = "detach" /\ request' = r.op /\ UNCHANGED writes
          \/ /\ r.op = "offline" /\ offline
             /\ writes' = <<>> /\ UNCHANGED <<dpc, request>>
  /\ UNCHANGED <<caller, rc, offline, hwState, sigs, portSeen, sentHist, port>>

----------------------------------------------------------------------------
(* hw_attach, hw_detach *)

\* The resources are free: take them, enable the interrupt, send the magic packet.  An
\* ACK of the time before is forgotten, the flag of the server is not.
Attach ==
  /\ dpc = "attach"
  /\ owned = 0
  /\ owned' = 3
  /\ flg' = FALSE
  /\ SendFor("attach")
  /\ UNCHANGED <<rc, offline, recvPending, sigs, portSeen, request, listState, sentHist, phase, xop,
                 frame>>

\* Someone else has a part of the port, or we have it from an attach that failed: what
\* was obtained stays.
AttachFails ==
  /\ dpc = "attach"
  /\ \/ owned # 0 /\ UNCHANGED owned
     \/ owned = 0 /\ "alloc" \in AmigaFaults /\ owned' \in 0..2
  /\ dpc' = "port"
  /\ request' = "none"
  /\ UNCHANGED <<caller, rc, offline, recvPending, sigs, portSeen, listState, sentHist,
                 port>>

\* hw_attach returns what became of the magic packet.  The mutant returns TRUE.
AttachedAnyway ==
  /\ Sent("attach")
  /\ offline' = FALSE
  /\ dpc' = "port"
  /\ request' = "none"
  /\ UNCHANGED <<hwState, sigs, portSeen, listState, sentHist, port>>

AttachReturns ==
  /\ Sent("attach")
  /\ offline' = ~rc
  /\ dpc' = "port"
  /\ request' = "none"
  /\ UNCHANGED <<hwState, sigs, portSeen, listState, sentHist, port>>

DetachBegins ==
  /\ dpc = "detach"
  /\ SendFor("detach")
  /\ UNCHANGED <<rc, offline, hwState, sigs, portSeen, request, listState, sentHist, port>>

\* Whatever became of the magic packet the port is given back.  S2_OFFLINE rejects the
\* writes in the list, S2_CONFIGINTERFACE goes online again.
Detached ==
  /\ Sent("detach")
  /\ owned' = 0
  /\ flg' = FALSE
  /\ offline' = TRUE
  /\ \/ request = "offline" /\ writes' = <<>> /\ dpc' = "port" /\ request' = "none"
     \/ request = "config" /\ dpc' = "attach" /\ UNCHANGED <<writes, request>>
  /\ UNCHANGED <<recvPending, sigs, portSeen, requests, cfgMac, sentHist,
                 phase, xop, frame>>

ServerStep ==
  \/ LoopHead \/ Wait \/ CheckReceive
  \/ RaiseSend \/ SendReturns
  \/ RaiseRecv \/ RecvEnds \/ RecvExit \/ DropSelectRecv \/ Received \/ Answered
  \/ NextWrite \/ WriteBufferError \/ Written
  \/ NoRequest \/ RequestDropped \/ TakeRequest
  \/ Attach \/ AttachFails \/ AttachReturns \/ DetachBegins \/ Detached
=============================================================================
