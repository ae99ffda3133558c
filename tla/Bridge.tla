------------------------------- MODULE Bridge ------------------------------
(***************************************************************************)
(* The bridge run mode of the firmware (bridge.c) with the Ethernet          *)
(* controller behind it.  "apc" walks through bridge_loop: the shell, the    *)
(* protocol handler, the look at the controller, flow control.  A packet is  *)
(* a number or, by its type, a magic packet.                                *)
(***************************************************************************)
EXTENDS XferPort

CONSTANTS RxCap,       \* packets the controller's ring holds
          MaxPackets,  \* bound: packets that arrive from the network
          MaxRestarts, \* bound: restarts of the bridge by the shell
          NetTypes,    \* types of packets on the network, \subseteq {"data", "loopback"}
          FlowControl, \* param.flow_ctl
          AvrFaults    \* \subseteq {"rx"}: receive errors of the controller

VARIABLES apc,        \* where bridge_loop is
          online,     \* FLAG_ONLINE
          sendMagic,  \* FLAG_SEND_MAGIC
          reqPending, \* req_is_pending
          limitFlow,  \* limit_flow
          waiting,    \* n: the packets pio_has_recv saw
          mac,        \* param.mac_addr
          rx,         \* the controller's receive ring
          ringOk,     \* gNextPacketPtr points to the first packet of rx
          flow,       \* the controller throttles the network
          wire,       \* history: numbers of the packets handed to pio_send
          arrived,    \* history: packets that arrived
          restarts    \* history: restarts

loopState == <<online, sendMagic, reqPending, limitFlow, waiting, mac>>
chipState == <<rx, ringOk, flow>>
avrHist   == <<wire, arrived, restarts>>
avrVars   == <<apc, loopState, chipState, avrHist>>

ASSUME BridgeAssumption ==
  /\ RxCap \in Nat
  /\ MaxPackets \in Nat
  /\ MaxRestarts \in Nat
  /\ NetTypes \subseteq {"data", "loopback"}
  /\ FlowControl \in BOOLEAN

AvrPcs == {"worker", "handle", "command", "poll", "flow"}

BridgeTypeOK ==
  /\ apc \in AvrPcs
  /\ online \in BOOLEAN
  /\ sendMagic \in BOOLEAN
  /\ reqPending \in BOOLEAN
  /\ limitFlow \in BOOLEAN
  /\ waiting \in 0..RxCap
  /\ mac \in Nat
  /\ rx \in Seq(AllFrames)
  /\ Len(rx) <= RxCap
  /\ ringOk \in BOOLEAN
  /\ flow \in BOOLEAN
  /\ wire \in Seq(Nat)
  /\ arrived \in Nat
  /\ restarts \in Nat

\* pio_init: the soft reset of the controller empties its ring and ends throttling.
PioInit == rx' = <<>> /\ ringOk' = TRUE /\ flow' = FALSE

BridgeInit ==
  /\ apc = "worker"
  /\ online = FALSE
  /\ sendMagic = FALSE
  /\ reqPending = FALSE
  /\ limitFlow = FALSE
  /\ waiting = 0
  /\ mac = 1
  /\ rx = <<>>
  /\ ringOk = TRUE
  /\ flow = FALSE
  /\ wire = <<>>
  /\ arrived = 0
  /\ restarts = 0

----------------------------------------------------------------------------
(* The network *)

\* A packet for us arrives; the controller drops it when the ring is full, or seems so
\* to it, as the end of the free space is set from gNextPacketPtr.  The mutant never does.
ArriveOverfull ==
  /\ arrived < MaxPackets
  /\ arrived' = arrived + 1
  /\ \E t \in NetTypes : rx' = Append(rx, Frame(t, arrived'))
  /\ UNCHANGED <<apc, loopState, ringOk, flow, wire, restarts, port>>

Arrive ==
  /\ arrived < MaxPackets
  /\ arrived' = arrived + 1
  /\ \/ Len(rx) < RxCap /\ \E t \in NetTypes : rx' = Append(rx, Frame(t, arrived'))
     \/ (Len(rx) = RxCap \/ ~ringOk) /\ UNCHANGED rx
  /\ UNCHANGED <<apc, loopState, ringOk, flow, wire, restarts, port>>

----------------------------------------------------------------------------
(* Requests and magic packets *)

\* trigger_request: one pulse of ACK, unless a request is pending.
TriggerRequest ==
  /\ reqPending' = TRUE
  /\ flg' = (flg \/ ~reqPending)

\* magic_online: a driver with another MAC address makes the controller start anew.  In
\* the mutant the address is not compared.
MagicOnlineAnyMac ==
  /\ online' = TRUE
  /\ UNCHANGED <<sendMagic, reqPending, limitFlow, waiting, mac, chipState, wire, flg>>

MagicOnline ==
  /\ online' = TRUE
  /\ mac' = frame.val
  /\ IF mac = frame.val THEN UNCHANGED chipState ELSE PioInit
  /\ UNCHANGED <<sendMagic, reqPending, limitFlow, waiting, wire, flg>>

MagicOffline ==
  /\ online' = FALSE
  /\ UNCHANGED <<sendMagic, reqPending, limitFlow, waiting, mac, chipState, wire, flg>>

MagicLoopback ==
  /\ sendMagic' = TRUE
  /\ TriggerRequest
  /\ UNCHANGED <<online, limitFlow, waiting, mac, chipState, wire>>

\* In the mutant request_magic asks for a receive and forgets what for.
SendPacketNoMagic ==
  /\ wire' = Append(wire, frame.val)
  /\ UNCHANGED sendMagic
  /\ IF online THEN UNCHANGED <<reqPending, flg>> ELSE TriggerRequest
  /\ UNCHANGED <<online, limitFlow, waiting, mac, chipState>>

\* Any other packet goes to the network.  A driver that sends while we are offline has
\* missed our restart: request_magic.
SendPacket ==
  /\ wire' = Append(wire, frame.val)
  /\ IF online THEN UNCHANGED <<sendMagic, reqPending, flg>>
               ELSE sendMagic' = TRUE /\ TriggerRequest
  /\ UNCHANGED <<online, limitFlow, waiting, mac, chipState>>

ProcPkt ==
  \/ frame.type = "online" /\ MagicOnline
  \/ frame.type = "offline" /\ MagicOffline
  \/ frame.type = "loopback" /\ MagicLoopback
  \/ frame.type = "data" /\ SendPacket

----------------------------------------------------------------------------
(* The controller: pio_recv *)

Readable == rx # <<>> /\ ringOk

\* What is read at gNextPacketPtr.  Without a packet there it is what the memory of the
\* ring held, a packet of the past perhaps.
PacketRead ==
  IF Readable
    THEN {Head(rx)} \cup {f \in {Junk} : "rx" \in AvrFaults}
    ELSE {Junk} \cup {Frame(t, n) : t \in NetTypes, n \in 1..arrived}

\* next_pkt: the controller counts one packet less, the next pointer is what was read.
NextPkt ==
  /\ rx' = IF rx = <<>> THEN rx ELSE Tail(rx)
  /\ ringOk' \in IF Readable THEN {TRUE} ELSE BOOLEAN

\* In the mutant the packet is not released.
TakePacketStays == frame' \in PacketRead /\ UNCHANGED <<rx, ringOk>>

TakePacket == frame' \in PacketRead /\ NextPkt

\* fill_pkt: the magic packet or the packet of the controller; the request is answered.
FillPkt ==
  /\ reqPending' = FALSE
  /\ IF sendMagic
       THEN sendMagic' = FALSE /\ frame' = Frame("online", mac) /\ UNCHANGED <<rx, ringOk>>
       ELSE TakePacket /\ UNCHANGED sendMagic
  /\ UNCHANGED <<online, limitFlow, waiting, mac, flow, wire, flg>>

----------------------------------------------------------------------------
(* bridge_loop *)

\* cmd_worker had nothing for us, or a key or command without effect on the bridge.
Worker ==
  /\ apc = "worker"
  /\ apc' = "handle"
  /\ UNCHANGED <<loopState, chipState, avrHist, port>>

\* A command that needs a restart, or a change of the run mode and back: bridge_loop
\* ends and begins again.
Restart ==
  /\ apc = "worker"
  /\ restarts < MaxRestarts
  /\ restarts' = restarts + 1
  /\ online' = FALSE
  /\ sendMagic' = FALSE
  /\ reqPending' = FALSE
  /\ limitFlow' = FALSE
  /\ PioInit
  /\ UNCHANGED <<apc, waiting, mac, wire, arrived, port>>

\* pb_proto_handle: nobody calls.
HandleNoCall ==
  /\ apc = "handle"
  /\ phase = "free"
  /\ apc' = "poll"
  /\ UNCHANGED <<loopState, chipState, avrHist, port>>

HandleCall ==
  /\ apc = "handle"
  /\ phase = "called"
  /\ phase' = "taken"
  /\ apc' = "command"
  /\ \/ xop = "send" /\ UNCHANGED <<loopState, chipState, wire, frame, flg>>
     \/ xop = "recv" /\ FillPkt
  /\ UNCHANGED <<arrived, restarts, xop>>

\* The command runs to its end (PBLink).
MoveFrame ==
  /\ apc = "command"
  /\ phase = "taken"
  /\ phase' = "moved"
  /\ UNCHANGED <<apc, loopState, chipState, avrHist, xop, frame, flg>>

\* The AVR notices that SELECT fell; a frame that was sent goes to proc_pkt.
EndCommand ==
  /\ apc = "command"
  /\ phase \in {"left", "over"}
  /\ phase' = "free"
  /\ apc' = "poll"
  /\ \/ phase = "over" /\ xop = "send" /\ ProcPkt
     \/ ~(phase = "over" /\ xop = "send") /\ UNCHANGED <<loopState, chipState, wire, flg>>
  /\ UNCHANGED <<arrived, restarts, xop, frame>>

\* A packet waits: ask the Amiga to fetch it or, offline, drop it.
Poll ==
  /\ apc = "poll"
  /\ apc' = "flow"
  /\ waiting' = Len(rx)
  /\ \/ rx = <<>> /\ UNCHANGED <<reqPending, flg, rx, ringOk>>
     \/ rx # <<>> /\ online /\ TriggerRequest /\ UNCHANGED <<rx, ringOk>>
     \/ rx # <<>> /\ ~online /\ NextPkt /\ UNCHANGED <<reqPending, flg>>
  /\ UNCHANGED <<online, sendMagic, limitFlow, mac, flow, avrHist, phase, xop, frame>>

\* When throttling ends.  In the mutant it waits for less than nothing.
NoneWaitingLess == waiting < 0
NoneWaiting == waiting = 0

Flow ==
  /\ apc = "flow"
  /\ apc' = "worker"
  /\ waiting' = 0
  /\ \/ FlowControl /\ limitFlow /\ NoneWaiting /\ limitFlow' = FALSE /\ flow' = FALSE
     \/ FlowControl /\ ~limitFlow /\ waiting > 1 /\ limitFlow' = TRUE /\ flow' = TRUE
     \/ /\ ~FlowControl \/ (limitFlow /\ ~NoneWaiting) \/ (~limitFlow /\ waiting <= 1)
        /\ UNCHANGED <<limitFlow, flow>>
  /\ UNCHANGED <<online, sendMagic, reqPending, mac, rx, ringOk, avrHist, port>>

BridgeStep ==
  \/ Worker \/ HandleNoCall \/ HandleCall \/ MoveFrame \/ EndCommand \/ Poll \/ Flow
=============================================================================
