----------------------------- MODULE BridgeLink ----------------------------
(***************************************************************************)
(* The bridge against the driver, over the parallel port.  Each keeps its     *)
(* own idea of "online" and of "a receive is pending"; the properties say     *)
(* when the two agree and what becomes of the packets of both directions.    *)
(***************************************************************************)
EXTENDS Bridge, Driver

vars == <<port, avrVars, driverVars>>

TypeOK == PortTypeOK /\ BridgeTypeOK /\ DriverTypeOK

Init == PortInit /\ BridgeInit /\ DriverInit

AvrStep == BridgeStep /\ UNCHANGED driverVars

Environment ==
  \/ (Arrive \/ Restart) /\ UNCHANGED driverVars
  \/ (ClientWrite \/ ClientRequest) /\ UNCHANGED avrVars

AmigaInterrupt == Interrupt /\ UNCHANGED avrVars

AmigaTask == ServerStep /\ ~InterruptDue /\ UNCHANGED avrVars

Next == AvrStep \/ AmigaInterrupt \/ AmigaTask \/ Environment

Spec == Init /\ [][Next]_vars

\* The firmware's loop and the server task keep running, interrupts are served; packets,
\* clients and the shell need not do anything.
FairSpec == Spec /\ WF_vars(AvrStep) /\ WF_vars(AmigaInterrupt) /\ WF_vars(AmigaTask)
----------------------------------------------------------------------------
(* Properties *)

Increasing(s) == \A i, j \in 1..Len(s) : i < j => s[i] < s[j]

\* A request of the bridge (req_is_pending) is known to the driver (HWB_RECV_PENDING), or
\* the pulse is still in the interrupt register.  The bridge sends no second pulse, so a
\* request the driver forgot would end all receives.
RequestHeard == reqPending => flg \/ recvPending

\* Packets reach the readers in the order of their arrival and none of them twice, until
\* a restart of the bridge: the receive that then nobody asked for may read any of them.
GotInOrder == restarts = 0 => Increasing(got)

\* Packets of the clients reach the network in the order of their writes, none twice,
\* not even when the driver saw a time-out after the bridge had the packet.
WireInOrder == Increasing(wire)

\* A write that was replied without an error is on the network, or about to be.
OkOnWire ==
  \A i \in 1..Len(okWrites) :
    \/ \E j \in 1..Len(wire) : wire[j] = okWrites[i]
    \/ phase = "over" /\ xop = "send" /\ frame = Frame("data", okWrites[i])

\* The bridge has the driver's magic packet and is about to read it.
OnlineUnderWay == phase = "over" /\ xop = "send" /\ frame.type = "online"

Sending(c) == caller = c /\ dpc \in {"send", "sending", "sent"}

Reconfiguring == dpc \in {"detach", "attach"} \/ Sending("detach") \/ Sending("attach")

\* A driver that is online has a bridge that is online.  The bridge drops every packet
\* from the network otherwise.
OnlineAgree == ~offline /\ ~Reconfiguring => online \/ OnlineUnderWay

\* Both ends use one MAC address: the controller filters by the bridge's.
MacAgreed == ~offline /\ ~Reconfiguring /\ ~OnlineUnderWay => mac = cfgMac

\* fill_pkt reads the controller only if a packet is pending there.  Fails: the driver receives
\* again after the answer to a magic packet (README).
FillHasPacket ==
  [][phase = "called" /\ phase' = "taken" /\ xop = "recv" => sendMagic \/ rx # <<>>]_vars

\* Packets do not stay in the controller.
PacketsFetched == rx # <<>> ~> rx = <<>>

\* Writes do not stay in the list, whatever is received meanwhile.
WritesReplied == writes # <<>> ~> writes = <<>>

\* A bridge that restarted is online again after the driver sent a packet.
OnlineAgain ==
  phase = "over" /\ xop = "send" /\ frame.type = "data" /\ ~online ~> online

\* Throttling of the network ends.
FlowReleased == flow ~> ~flow
----------------------------------------------------------------------------
(* The inductive invariants of the proofs *)

InSend == dpc \in {"send", "sending", "sent"}

\* Whoever sends is known, and a write that is sent is still in the list.
SenderKnown ==
  InSend => /\ caller \in Callers
            /\ caller = "write" => writes # <<>>

TypeInv == TypeOK /\ SenderKnown

\* The setting of RequestHeard: nothing fails and nobody takes the driver offline.
Untroubled == AmigaFaults = {} /\ Requests = {"online"}

OnlyOnline ==
  /\ requests = <<>> \/ \E m \in Macs : requests = <<[op |-> "online", mac |-> m]>>
  /\ request \in {"none", "online"}
  /\ dpc # "detach"
  /\ caller # "detach"

\* Before the driver has the port neither end has anything to do with the other.
PortOwned ==
  owned = 0 =>
    /\ offline /\ writes = <<>> /\ ~recvPending
    /\ ~online /\ ~reqPending /\ phase = "free"
    /\ dpc \in {"head", "wait", "check", "writes", "port", "attach"}

InCommand == phase \in {"taken", "moved", "left", "over"} <=> apc = "command"

\* A receive has answered the bridge's request before the driver clears its flag, and
\* the bridge makes no other one before the driver drops SELECT.
RecvAnswered ==
  /\ dpc = "receiving" => xop = "recv" /\ phase \in {"called", "taken", "moved"}
  /\ dpc \in {"recv_exit", "drop_sel"} => xop = "recv" /\ phase \in {"taken", "moved"}
  /\ apc = "command" /\ xop = "recv" => ~reqPending

RequestInv ==
  /\ owned \in {0, 3}
  /\ OnlyOnline
  /\ PortOwned
  /\ InCommand
  /\ RecvAnswered
  /\ RequestHeard
\* Who has SELECT high, and for what: the transfer is the one the driver is in.
TransferInv ==
  /\ dpc = "sending" => /\ phase \in {"called", "taken", "moved"}
                        /\ xop = "send" /\ frame = FrameToSend
  /\ phase \in {"called", "taken", "moved"} =>
       \/ dpc = "sending"
       \/ dpc \in {"receiving", "recv_exit", "drop_sel"} /\ xop = "recv"
  /\ InCommand

\* Clients write no magic packets of the driver.
WritesPlain == \A i \in 1..Len(writes) : writes[i].type \in {"data", "loopback"}

\* The driver is online, or about to be as its magic packet was sent.
Settled ==
  \/ ~offline /\ ~Reconfiguring
  \/ dpc = "sent" /\ caller = "attach" /\ rc

AgreeInv ==
  /\ WritesPlain
  /\ (dpc = "attach" \/ Sending("attach")) => offline
  /\ Settled =>
       /\ xop = "send" /\ phase # "free" =>
            /\ frame.type # "offline"
            /\ frame.type = "online" => frame.val = cfgMac
       /\ OnlineUnderWay \/ (mac = cfgMac /\ (restarts = 0 => online))

\* The frame of a write is in the bridge's hands, or will be.
WriteUnderWay ==
  xop = "send" /\ frame.type = "data" /\ phase \in {"called", "taken", "moved", "over"}

OnWire(n) == \E j \in 1..Len(wire) : wire[j] = n

\* A number the bridge has, or is about to put on the network.
Delivered(n) ==
  \/ OnWire(n)
  \/ phase = "over" /\ xop = "send" /\ frame = Frame("data", n)

\* A number comes before those of the list, or is the first of it which is being sent.
Ahead(n, first) ==
  \A j \in 1..Len(writes) : n < writes[j].val \/ (j = 1 /\ first /\ n = writes[1].val)

\* The numbers increase from the network through the frame in transfer to the list.  The
\* write that was sent stays at the head of the list until it is replied.
WireInv ==
  /\ Increasing(wire)
  /\ \A i \in 1..Len(wire) : wire[i] <= written /\ Ahead(wire[i], dpc = "sent" /\ caller = "write")
  /\ \A i, j \in 1..Len(writes) : i < j => writes[i].val < writes[j].val
  /\ \A j \in 1..Len(writes) : writes[j].val <= written
  /\ WriteUnderWay =>
       /\ frame.val <= written
       /\ \A i \in 1..Len(wire) : wire[i] < frame.val
       /\ Ahead(frame.val, dpc \in {"sending", "sent"} /\ caller = "write")

OkInv ==
  /\ \A i \in 1..Len(okWrites) : Delivered(okWrites[i])
  /\ dpc = "sent" /\ caller = "write" /\ rc /\ Head(writes).type = "data" =>
       Delivered(Head(writes).val)

\* The setting of GotInOrder: nobody loops packets back, and who goes offline stays so until
\* the next S2_ONLINE.
Plain ==
  /\ NetTypes \subseteq {"data"}
  /\ WriteTypes \subseteq {"data"}
  /\ Requests \subseteq {"online", "offline"}

\* In it there are packets and no requests to reconfigure, and a driver that writes is online.
PlainTraffic ==
  /\ \A i \in 1..Len(requests) : requests[i].op # "config"
  /\ request # "config"
  /\ writes # <<>> => ~offline
  /\ \A i \in 1..Len(writes) : writes[i].type = "data"
  /\ \A i \in 1..Len(rx) : rx[i].type = "data"

\* The driver gives the port back.
Detaching == dpc = "detach" \/ Sending("detach")

\* The bridge has one address, and what is on its way to it is for the bridge that it meets:
\* a write for one that is online, the packet of detach for one whose request is forgotten.
PlainSend ==
  /\ online => mac = cfgMac
  /\ xop = "send" /\ phase \in {"called", "taken", "moved", "over"} =>
       /\ frame.type \in {"data", "online", "offline"}
       /\ frame.type = "data" => online
       /\ frame.type = "online" => frame.val = cfgMac
       /\ frame.type = "offline" =>
            Detaching \/ (phase = "over" /\ (owned # 3 \/ (~flg /\ ~recvPending)))

Receiving == dpc \in {"recv", "receiving", "recv_exit"}

\* The bridge's request is one that the driver may still answer with a receive: neither of
\* them forgot it, and the driver has the port.
RequestAlive ==
  /\ reqPending
  /\ flg \/ recvPending \/ (xop = "recv" /\ phase = "called")
  /\ owned = 3 /\ ~Detaching

\* One request at a time goes from the bridge by the interrupt to a receive of the driver.
OneReceive ==
  /\ RequestAlive => online /\ rx # <<>>
  /\ flg => reqPending /\ ~recvPending
  /\ recvPending /\ ~reqPending => dpc \in {"receiving", "recv_exit"} /\ phase \in {"taken", "moved"}
  /\ Receiving => recvPending
  /\ dpc = "attach" /\ owned = 0 => ~recvPending
  /\ dpc = "drop_sel" /\ phase \in {"called", "taken", "moved"} => ~recvPending
  /\ xop = "recv" /\ phase \in {"called", "taken", "moved"} =>
       ~flg /\ (reqPending <=> phase = "called") /\ owned = 3

\* The driver has a frame of this receive in its buffer.
FrameTaken ==
  \/ dpc = "receiving" /\ phase \in {"taken", "moved"}
  \/ dpc \in {"recv_exit", "drop_sel", "received"} /\ rc

PlainInv ==
  /\ PlainTraffic
  /\ restarts = 0 =>
       /\ ~sendMagic /\ ringOk /\ caller # "answer"
       /\ PlainSend
       /\ OneReceive
       /\ FrameTaken => frame.type \in {"data", "junk"}

\* A number comes before those in the controller.
Earlier(n) == \A j \in 1..Len(rx) : n < rx[j].val

\* The numbers increase from the readers through the frame in transfer to the controller.
GotInv ==
  /\ \A j \in 1..Len(rx) : rx[j].val <= arrived
  /\ \A i, j \in 1..Len(rx) : i < j => rx[i].val < rx[j].val
  /\ restarts = 0 =>
       /\ Increasing(got)
       /\ \A i \in 1..Len(got) : got[i] <= arrived /\ Earlier(got[i])
       /\ FrameTaken /\ frame.type = "data" =>
            /\ frame.val <= arrived
            /\ \A i \in 1..Len(got) : got[i] < frame.val
            /\ Earlier(frame.val)
=============================================================================
