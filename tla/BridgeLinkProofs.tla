-------------------------- MODULE BridgeLinkProofs -------------------------
(***************************************************************************)
(* Proofs about BridgeLink, for every capacity, bound and set of addresses:*)
(*   - its state is well typed, and the transfer is the one the driver is in*)
(*   - both ends agree on the address and, without restarts, on being online*)
(*   - writes reach the network in order, none is falsely replied as sent  *)
(*   - a request of the bridge is known to the driver, if nothing fails    *)
(*   - received packets are in order, if nobody loops packets back.        *)
(* The first three hold for every choice of faults and requests.           *)
(***************************************************************************)
EXTENDS BridgeLink, TLAPS
----------------------------------------------------------------------------
(* Frames and sequences *)

\* A frame with a number or an address of the network or the driver is a frame.
LEMMA FramesTyped ==
  /\ Junk \in AllFrames
  /\ \A t \in FrameTypes, n \in Nat : Frame(t, n) \in AllFrames
  /\ "data" \in FrameTypes /\ "loopback" \in FrameTypes
  /\ "online" \in FrameTypes /\ "offline" \in FrameTypes
  BY DEF Junk, Frame, AllFrames, FrameTypes

\* Taking the first of a queue.
LEMMA QueueTyped ==
  ASSUME NEW S, NEW q \in Seq(S), q # <<>>
  PROVE  Head(q) \in S /\ Tail(q) \in Seq(S) /\ Len(Tail(q)) = Len(q) - 1 /\ Len(q) \in Nat
  OBVIOUS

\* Adding to the end of one.
LEMMA AppendTyped ==
  ASSUME NEW S, NEW q \in Seq(S), NEW e \in S
  PROVE  Append(q, e) \in Seq(S) /\ Len(Append(q, e)) = Len(q) + 1 /\ Append(q, e) # <<>>
<1>1. Append(q, e) \in Seq(S) /\ Len(Append(q, e)) = Len(q) + 1
  OBVIOUS
<1>2. Len(q) \in Nat /\ Len(<<>>) = 0
  OBVIOUS
<1> QED
  BY <1>1, <1>2

\* Rejecting all of a queue, or nothing.
LEMMA KeptOrEmptied ==
  ASSUME NEW S, NEW q \in Seq(S), NEW r, r = q \/ r = <<>>
  PROVE  r \in Seq(S)
<1>1. <<>> \in Seq(S)
  OBVIOUS
<1>2. CASE r = q
  BY <1>2
<1>3. CASE r = <<>>
  BY <1>1, <1>3, Zenon
<1> QED
  BY <1>2, <1>3

\* The frame a sender names is a frame.
LEMMA FrameToSendTyped ==
  ASSUME TypeInv, InSend
  PROVE  FrameToSend \in AllFrames
<1>1. cfgMac \in Nat /\ frame \in AllFrames
  BY DriverAssumption DEF TypeInv, TypeOK, DriverTypeOK, PortTypeOK
<1>2. CASE caller = "write"
  <2>1. writes \in Seq(AllFrames) /\ writes # <<>>
    BY <1>2 DEF TypeInv, TypeOK, DriverTypeOK, SenderKnown
  <2>2. Head(writes) \in AllFrames
    BY <2>1, QueueTyped
  <2>3. FrameToSend = Head(writes)
    BY <1>2 DEF FrameToSend
  <2>4. QED BY <2>2, <2>3
<1>3. CASE caller \in {"answer", "attach", "detach"}
  BY <1>1, <1>3, FramesTyped DEF FrameToSend
<1> QED
  BY <1>2, <1>3 DEF TypeInv, SenderKnown, Callers
----------------------------------------------------------------------------
(* The type invariant *)

\* The initial state.
LEMMA TypeInit == Init => TypeInv
<1> SUFFICES ASSUME Init PROVE TypeInv
  OBVIOUS
<1>1. PortTypeOK
  BY FramesTyped DEF Init, PortInit, PortTypeOK, Phases
<1>2. BridgeTypeOK
  <2>1. apc \in AvrPcs /\ waiting \in 0..RxCap /\ mac \in Nat /\ arrived \in Nat /\ restarts \in Nat
    BY BridgeAssumption DEF Init, BridgeInit, AvrPcs
  <2>2. {online, sendMagic, reqPending, limitFlow, ringOk, flow} \subseteq BOOLEAN
    BY DEF Init, BridgeInit
  <2>3. rx \in Seq(AllFrames) /\ wire \in Seq(Nat)
    BY DEF Init, BridgeInit
  <2>4. Len(rx) <= RxCap
    BY BridgeAssumption DEF Init, BridgeInit
  <2>5. QED BY <2>1, <2>2, <2>3, <2>4 DEF BridgeTypeOK
<1>3. DriverTypeOK
  <2>1. dpc \in DriverPcs /\ caller \in Callers \cup {"none"} /\ request \in Operations \cup {"none"}
    BY DEF Init, DriverInit, DriverPcs
  <2>2. {rc, offline, recvPending, portSeen} \subseteq BOOLEAN /\ sigs \subseteq Signals
    BY DEF Init, DriverInit
  <2>3. owned \in 0..3 /\ cfgMac \in Macs /\ asked \in Nat /\ written \in Nat
    BY DEF Init, DriverInit
  <2>4. requests \in Seq(AllRequests) /\ writes \in Seq(AllFrames)
    BY DEF Init, DriverInit
  <2>5. okWrites \in Seq(Nat) /\ got \in Seq(Nat)
    BY DEF Init, DriverInit
  <2>6. QED BY <2>1, <2>2, <2>3, <2>4, <2>5 DEF DriverTypeOK
<1>4. SenderKnown
  BY DEF Init, DriverInit, SenderKnown, InSend
<1> QED
  BY <1>1, <1>2, <1>3, <1>4 DEF TypeInv, TypeOK

\* proc_pkt leaves the bridge's state typed.
LEMMA ProcPktTyped ==
  ASSUME TypeInv, ProcPkt
  PROVE  /\ {online', sendMagic', reqPending', ringOk', flow', flg'} \subseteq BOOLEAN
         /\ UNCHANGED <<limitFlow, waiting>>
         /\ mac' \in Nat
         /\ rx' \in Seq(AllFrames) /\ Len(rx') <= RxCap
         /\ wire' \in Seq(Nat)
<1>1. frame.val \in Nat
  BY DEF TypeInv, TypeOK, PortTypeOK, AllFrames
<1>2. <<>> \in Seq(AllFrames) /\ Len(<<>>) <= RxCap
  BY BridgeAssumption
<1>3. CASE MagicOnline
  BY <1>1, <1>2, <1>3
  DEF TypeInv, TypeOK, PortTypeOK, BridgeTypeOK, MagicOnline, PioInit, chipState
<1>4. CASE MagicOffline
  BY <1>4 DEF TypeInv, TypeOK, PortTypeOK, BridgeTypeOK, MagicOffline, chipState
<1>5. CASE MagicLoopback
  BY <1>5
  DEF TypeInv, TypeOK, PortTypeOK, BridgeTypeOK, MagicLoopback, TriggerRequest, chipState
<1>6. CASE SendPacket
  <2>1. Append(wire, frame.val) \in Seq(Nat)
    BY <1>1, AppendTyped DEF TypeInv, TypeOK, BridgeTypeOK
  <2>2. QED
    BY <1>6, <2>1
    DEF TypeInv, TypeOK, PortTypeOK, BridgeTypeOK, SendPacket, TriggerRequest, chipState
<1> QED
  BY <1>3, <1>4, <1>5, <1>6 DEF ProcPkt

\* next_pkt: the ring loses its first packet.
LEMMA NextPktTyped ==
  ASSUME TypeInv, NextPkt
  PROVE  rx' \in Seq(AllFrames) /\ Len(rx') <= RxCap /\ ringOk' \in BOOLEAN
<1>1. rx \in Seq(AllFrames) /\ Len(rx) <= RxCap /\ RxCap \in Nat
  BY BridgeAssumption DEF TypeInv, TypeOK, BridgeTypeOK
<1>2. CASE rx = <<>>
  BY <1>1, <1>2 DEF NextPkt
<1>3. CASE rx # <<>>
  <2>1. rx' = Tail(rx) /\ ringOk' \in BOOLEAN
    BY <1>3 DEF NextPkt
  <2>2. QED BY <1>1, <1>3, <2>1, QueueTyped
<1> QED
  BY <1>2, <1>3

\* What pio_recv read is a frame.
LEMMA PacketReadTyped == ASSUME TypeInv PROVE PacketRead \subseteq AllFrames
<1>1. CASE Readable
  <2>1. Head(rx) \in AllFrames
    BY <1>1, QueueTyped DEF Readable, TypeInv, TypeOK, BridgeTypeOK
  <2>2. QED BY <1>1, <2>1, FramesTyped DEF PacketRead
<1>2. CASE ~Readable
  <2>1. \A n \in 1..arrived : n \in Nat
    BY DEF TypeInv, TypeOK, BridgeTypeOK
  <2>2. \A t \in NetTypes : t \in FrameTypes
    BY BridgeAssumption, FramesTyped
  <2>3. QED BY <1>2, <2>1, <2>2, FramesTyped DEF PacketRead
<1> QED
  BY <1>1, <1>2

\* fill_pkt leaves the bridge's state typed and fills in a frame.
LEMMA FillPktTyped ==
  ASSUME TypeInv, FillPkt
  PROVE  /\ {sendMagic', reqPending', ringOk'} \subseteq BOOLEAN
         /\ frame' \in AllFrames
         /\ rx' \in Seq(AllFrames) /\ Len(rx') <= RxCap
         /\ UNCHANGED <<online, limitFlow, waiting, mac, flow, wire, flg>>
<1>1. CASE sendMagic
  <2>1. frame' = Frame("online", mac) /\ mac \in Nat
    BY <1>1 DEF FillPkt, TypeInv, TypeOK, BridgeTypeOK
  <2>2. frame' \in AllFrames
    BY <2>1, FramesTyped
  <2>3. QED BY <1>1, <2>2 DEF FillPkt, TypeInv, TypeOK, BridgeTypeOK
<1>2. CASE ~sendMagic
  <2>1. TakePacket
    BY <1>2 DEF FillPkt
  <2>2. frame' \in AllFrames
    BY <2>1, PacketReadTyped DEF TakePacket
  <2>3. rx' \in Seq(AllFrames) /\ Len(rx') <= RxCap /\ ringOk' \in BOOLEAN
    BY <2>1, NextPktTyped DEF TakePacket
  <2>4. QED BY <1>2, <2>2, <2>3 DEF FillPkt, TypeInv, TypeOK, BridgeTypeOK
<1> QED
  BY <1>1, <1>2

\* The steps of bridge_loop and of the network.
LEMMA BridgeTyped ==
  ASSUME TypeInv, BridgeStep \/ Arrive \/ Restart
  PROVE  PortTypeOK' /\ BridgeTypeOK'
<1> USE DEF TypeInv, TypeOK, PortTypeOK, BridgeTypeOK, AvrPcs, Phases, port, loopState, chipState,
            avrHist
<1>1. CASE Worker
  BY <1>1 DEF Worker
<1>2. CASE HandleNoCall
  BY <1>2 DEF HandleNoCall
<1>3. CASE HandleCall
  <2>1. CASE xop = "send"
    BY <1>3, <2>1 DEF HandleCall
  <2>2. CASE xop = "recv"
    <3>1. FillPkt /\ UNCHANGED <<wire, arrived, restarts, xop>> /\ phase' = "taken" /\ apc' = "command"
      BY <1>3, <2>2 DEF HandleCall, FillPkt
    <3>2. QED BY <3>1, FillPktTyped
  <2>3. QED BY <2>1, <2>2
<1>4. CASE MoveFrame
  BY <1>4 DEF MoveFrame
<1>5. CASE EndCommand
  <2>1. phase' = "free" /\ apc' = "poll" /\ UNCHANGED <<arrived, restarts, xop, frame>>
    BY <1>5 DEF EndCommand
  <2>2. CASE ProcPkt
    BY <2>1, <2>2, ProcPktTyped
  <2>3. CASE UNCHANGED <<loopState, chipState, wire, flg>>
    BY <2>1, <2>3
  <2>4. QED BY <1>5, <2>2, <2>3 DEF EndCommand
<1>6. CASE Poll
  <2>1. /\ apc' = "flow" /\ waiting' = Len(rx)
        /\ UNCHANGED <<online, sendMagic, limitFlow, mac, flow, avrHist, phase, xop, frame>>
    BY <1>6 DEF Poll
  <2>2. reqPending' \in BOOLEAN /\ flg' \in BOOLEAN
    BY <1>6 DEF Poll, TriggerRequest
  <2>3. rx' \in Seq(AllFrames) /\ Len(rx') <= RxCap /\ ringOk' \in BOOLEAN
    BY <1>6, NextPktTyped DEF Poll
  <2>4. waiting' \in 0..RxCap
    BY <2>1, BridgeAssumption
  <2>5. QED BY <2>1, <2>2, <2>3, <2>4
<1>7. CASE Flow
  <2>1. /\ apc' = "worker" /\ waiting' = 0
        /\ UNCHANGED <<online, sendMagic, reqPending, mac, rx, ringOk, avrHist, port>>
    BY <1>7 DEF Flow
  <2>2. limitFlow' \in BOOLEAN /\ flow' \in BOOLEAN
    BY <1>7 DEF Flow
  <2>3. waiting' \in 0..RxCap
    BY <2>1, BridgeAssumption
  <2>4. QED BY <2>1, <2>2, <2>3
<1>8. CASE Arrive
  <2>1. arrived' \in Nat /\ UNCHANGED <<apc, loopState, ringOk, flow, wire, restarts, port>>
    BY <1>8 DEF Arrive
  <2>2. CASE UNCHANGED rx
    BY <2>1, <2>2
  <2>3. CASE Len(rx) < RxCap /\ \E t \in NetTypes : rx' = Append(rx, Frame(t, arrived'))
    <3>1. PICK t \in NetTypes : rx' = Append(rx, Frame(t, arrived'))
      BY <2>3
    <3>2. Frame(t, arrived') \in AllFrames
      BY <2>1, FramesTyped, BridgeAssumption
    <3>3. rx' \in Seq(AllFrames) /\ Len(rx') = Len(rx) + 1
      BY <3>1, <3>2, AppendTyped
    <3>4. Len(rx) \in Nat /\ Len(rx') <= RxCap
      BY <2>3, <3>3, BridgeAssumption
    <3>5. QED BY <2>1, <3>3, <3>4
  <2>4. QED BY <1>8, <2>2, <2>3 DEF Arrive
<1>9. CASE Restart
  <2>1. rx' \in Seq(AllFrames) /\ Len(rx') <= RxCap
    BY <1>9, BridgeAssumption DEF Restart, PioInit
  <2>2. {online', sendMagic', reqPending', limitFlow', flow', ringOk'} \subseteq BOOLEAN
    BY <1>9 DEF Restart, PioInit
  <2>3. restarts' \in Nat /\ UNCHANGED <<apc, waiting, mac, wire, arrived, port>>
    BY <1>9 DEF Restart
  <2>4. QED BY <2>1, <2>2, <2>3
<1> QED
  BY <1>1, <1>2, <1>3, <1>4, <1>5, <1>6, <1>7, <1>8, <1>9 DEF BridgeStep

\* The steps of the server task, of the interrupt and of the clients.
LEMMA DriverTyped ==
  ASSUME TypeInv, ServerStep \/ Interrupt \/ ClientWrite \/ ClientRequest
  PROVE  PortTypeOK' /\ DriverTypeOK' /\ SenderKnown'
<1> USE DEF TypeInv, TypeOK, PortTypeOK, DriverTypeOK, SenderKnown, InSend, DriverPcs, Phases,
            port, hwState, listState, sentHist, SendFor, Sent, Callers, Operations, Signals
<1>1. CASE LoopHead
  BY <1>1 DEF LoopHead
<1>2. CASE Wait
  BY <1>2 DEF Wait
<1>3. CASE CheckReceive
  BY <1>3 DEF CheckReceive
<1>4. CASE RaiseSend
  <2>1. frame' \in AllFrames
    BY <1>4, FrameToSendTyped DEF RaiseSend
  <2>2. QED BY <1>4, <2>1 DEF RaiseSend
<1>5. CASE SendReturns
  BY <1>5 DEF SendReturns, Released
<1>6. CASE RaiseRecv
  BY <1>6 DEF RaiseRecv
<1>7. CASE RecvEnds
  <2>1. rc' \in BOOLEAN /\ dpc' = "recv_exit"
    BY <1>7 DEF RecvEnds
  <2>2. UNCHANGED <<caller, offline, hwState, sigs, portSeen, request, listState, sentHist, port>>
    BY <1>7 DEF RecvEnds
  <2>3. QED BY <2>1, <2>2
<1>8. CASE RecvExit
  BY <1>8 DEF RecvExit
<1>9. CASE DropSelectRecv
  BY <1>9 DEF DropSelectRecv, Released
<1>10. CASE Received
  <2>1. frame.val \in Nat
    BY DEF AllFrames
  <2>2. got' \in Seq(Nat)
    <3>1. Append(got, frame.val) \in Seq(Nat)
      BY <2>1, AppendTyped
    <3>2. QED BY <1>10, <3>1 DEF Received
  <2>3. dpc' \in {"writes", "send"} /\ (caller' = caller \/ caller' = "answer")
    BY <1>10 DEF Received
  <2>4. dpc' = "send" => caller' = "answer"
    BY <1>10 DEF Received
  <2>5. rc' \in BOOLEAN
        /\ UNCHANGED <<offline, hwState, sigs, portSeen, request, listState, asked, written,
                       okWrites, port>>
    BY <1>10 DEF Received
  <2>6. QED BY <2>2, <2>3, <2>4, <2>5
<1>11. CASE Answered
  BY <1>11 DEF Answered
<1>12. CASE NextWrite
  BY <1>12 DEF NextWrite
<1>13. CASE WriteBufferError
  BY <1>13 DEF WriteBufferError
<1>14. CASE Written
  <2>1. writes # <<>>
    BY <1>14 DEF Written
  <2>2. writes' \in Seq(AllFrames)
    BY <1>14, <2>1, QueueTyped DEF Written
  <2>3. Head(writes).val \in Nat
    <3>1. Head(writes) \in AllFrames
      BY <2>1, QueueTyped
    <3>2. QED BY <3>1 DEF AllFrames
  <2>4. Append(okWrites, Head(writes).val) \in Seq(Nat)
    BY <2>3, AppendTyped
  <2>5. okWrites' \in Seq(Nat)
    BY <1>14, <2>4 DEF Written
  <2>6. /\ dpc' = "writes" /\ caller' = "none" /\ rc' \in BOOLEAN
        /\ UNCHANGED <<offline, hwState, sigs, portSeen, request, requests, cfgMac, asked,
                       written, got, port>>
    BY <1>14 DEF Written
  <2>7. QED BY <2>2, <2>5, <2>6
<1>15. CASE NoRequest
  BY <1>15 DEF NoRequest
<1>16. CASE RequestDropped
  BY <1>16 DEF RequestDropped
<1>17. CASE TakeRequest
  <2>1. requests # <<>>
    BY <1>17 DEF TakeRequest
  <2>2. Head(requests) \in AllRequests /\ requests' \in Seq(AllRequests)
    BY <1>17, <2>1, QueueTyped DEF TakeRequest
  <2>3. Head(requests).op \in Operations /\ Head(requests).mac \in Macs
    BY <2>2 DEF AllRequests
  <2>4. cfgMac' \in Macs
    BY <1>17, <2>3 DEF TakeRequest
  <2>5. writes' \in Seq(AllFrames)
    <3>1. writes' = writes \/ writes' = <<>>
      BY <1>17 DEF TakeRequest
    <3>2. QED BY <3>1, KeptOrEmptied
  <2>6. request' \in Operations \cup {"none"} /\ dpc' \in {"port", "attach", "detach"}
    BY <1>17, <2>3 DEF TakeRequest
  <2>7. UNCHANGED <<caller, rc, offline, hwState, sigs, portSeen, sentHist, port>>
    BY <1>17 DEF TakeRequest
  <2>8. QED BY <2>2, <2>4, <2>5, <2>6, <2>7
<1>18. CASE Attach
  <2>1. owned' = 3 /\ flg' \in BOOLEAN /\ dpc' = "send" /\ caller' = "attach"
    BY <1>18 DEF Attach
  <2>2. UNCHANGED <<rc, offline, recvPending, sigs, portSeen, request, listState, sentHist,
                    phase, xop, frame>>
    BY <1>18 DEF Attach
  <2>3. QED BY <2>1, <2>2
<1>19. CASE AttachFails
  BY <1>19 DEF AttachFails
<1>20. CASE AttachReturns
  BY <1>20 DEF AttachReturns
<1>21. CASE DetachBegins
  BY <1>21 DEF DetachBegins
<1>22. CASE Detached
  <2>1. writes' \in Seq(AllFrames)
    <3>1. writes' = writes \/ writes' = <<>>
      BY <1>22 DEF Detached
    <3>2. QED BY <3>1, KeptOrEmptied
  <2>2. request' \in Operations \cup {"none"} /\ dpc' \in {"port", "attach"}
    BY <1>22 DEF Detached
  <2>3. {flg', offline', rc'} \subseteq BOOLEAN /\ owned' = 0 /\ caller' = "none"
    BY <1>22 DEF Detached
  <2>4. UNCHANGED <<recvPending, sigs, portSeen, requests, cfgMac, sentHist, phase, xop, frame>>
    BY <1>22 DEF Detached
  <2>5. QED BY <2>1, <2>2, <2>3, <2>4
<1>23. CASE Interrupt
  <2>1. {flg', recvPending'} \subseteq BOOLEAN /\ sigs' \subseteq Signals
    BY <1>23 DEF Interrupt, InterruptSignals
  <2>2. UNCHANGED <<dpc, caller, rc, offline, owned, portSeen, request, listState, sentHist,
                    phase, xop, frame>>
    BY <1>23 DEF Interrupt
  <2>3. QED BY <2>1, <2>2
<1>24. CASE ClientWrite
  <2>1. written' \in Nat /\ sigs' \subseteq Signals
    BY <1>24 DEF ClientWrite
  <2>2. PICK t \in WriteTypes : writes' = Append(writes, Frame(t, written'))
    BY <1>24 DEF ClientWrite
  <2>3. Frame(t, written') \in AllFrames
    BY <2>1, FramesTyped, DriverAssumption
  <2>4. writes' \in Seq(AllFrames) /\ writes' # <<>>
    BY <2>2, <2>3, AppendTyped
  <2>5. UNCHANGED <<dpc, caller, rc, offline, hwState, portSeen, request, requests, cfgMac, asked,
                    okWrites, got, port>>
    BY <1>24 DEF ClientWrite
  <2>6. QED BY <2>1, <2>4, <2>5
<1>25. CASE ClientRequest
  BY <1>25 DEF ClientRequest
<1> QED
  BY <1>1, <1>2, <1>3, <1>4, <1>5, <1>6, <1>7, <1>8, <1>9, <1>10, <1>11, <1>12, <1>13, <1>14, <1>15,
     <1>16, <1>17, <1>18, <1>19, <1>20, <1>21, <1>22, <1>23, <1>24, <1>25 DEF ServerStep

\* Every step of the composed system keeps the types.
LEMMA TypeNext == TypeInv /\ [Next]_vars => TypeInv'
<1> SUFFICES ASSUME TypeInv, [Next]_vars PROVE TypeInv'
  OBVIOUS
<1>1. CASE (BridgeStep \/ Arrive \/ Restart) /\ UNCHANGED driverVars
  <2>1. DriverTypeOK' /\ SenderKnown'
    BY <1>1 DEF TypeInv, TypeOK, DriverTypeOK, SenderKnown, InSend, driverVars, hwState,
                listState, sentHist
  <2>2. QED BY <1>1, <2>1, BridgeTyped DEF TypeInv, TypeOK
<1>2. CASE (ServerStep \/ Interrupt \/ ClientWrite \/ ClientRequest) /\ UNCHANGED avrVars
  <2>1. BridgeTypeOK'
    BY <1>2 DEF TypeInv, TypeOK, BridgeTypeOK, avrVars, loopState, chipState, avrHist
  <2>2. QED BY <1>2, <2>1, DriverTyped DEF TypeInv, TypeOK
<1>3. CASE UNCHANGED vars
  BY <1>3 DEF TypeInv, TypeOK, PortTypeOK, BridgeTypeOK, DriverTypeOK, SenderKnown, InSend, vars,
              port, avrVars, loopState, chipState, avrHist, driverVars, hwState, listState, sentHist
<1> QED
  BY <1>1, <1>2, <1>3 DEF Next, AvrStep, AmigaTask, AmigaInterrupt, Environment

\* Types, and that whoever sends has something to send.
LEMMA TypeInvariance == Spec => []TypeInv
  BY TypeInit, TypeNext, PTL DEF Spec

\* The state of bridge.c, of its controller's ring and of the server task stays well typed
\* whatever arrives, fails, or is asked for: the ring is never fuller than it can be.
THEOREM BridgeTypeCorrect == Spec => []TypeOK
<1>1. TypeInv => TypeOK
  BY DEF TypeInv
<1> QED
  BY <1>1, TypeInvariance, PTL
----------------------------------------------------------------------------
(* Requests are heard *)

\* The initial state: the driver has no port and the bridge asked for nothing.
LEMMA RequestInit == Init => RequestInv
  BY DEF Init, PortInit, BridgeInit, DriverInit, RequestInv, OnlyOnline, PortOwned, InCommand,
         RecvAnswered, RequestHeard

\* A request that is made is a pulse, one that is ignored was one.
LEMMA PulseHeard ==
  ASSUME RequestHeard, TriggerRequest, UNCHANGED recvPending
  PROVE  RequestHeard'
  BY Zenon DEF RequestHeard, TriggerRequest

\* The steps of the bridge: a request is a pulse, and there is none during a receive.
LEMMA BridgeRequests ==
  ASSUME TypeInv, RequestInv, BridgeStep \/ Arrive \/ Restart, UNCHANGED driverVars
  PROVE  RequestInv'
<1> USE DEF RequestInv, PortOwned, InCommand, RecvAnswered, RequestHeard, port, loopState, chipState
<1>1. /\ reqPending \in BOOLEAN /\ flg \in BOOLEAN /\ recvPending \in BOOLEAN
      /\ phase \in Phases /\ apc \in AvrPcs /\ xop \in {"send", "recv"}
  BY DEF TypeInv, TypeOK, PortTypeOK, BridgeTypeOK, DriverTypeOK
<1>2. UNCHANGED <<dpc, caller, offline, recvPending, owned, request, requests, writes>>
  BY DEF driverVars, hwState, listState
<1>3. owned' \in {0, 3} /\ OnlyOnline'
  BY <1>2 DEF OnlyOnline
<1>4. CASE Worker
  BY <1>1, <1>2, <1>3, <1>4 DEF Worker
<1>5. CASE HandleNoCall
  BY <1>1, <1>2, <1>3, <1>5 DEF HandleNoCall
<1>6. CASE HandleCall
  BY <1>1, <1>2, <1>3, <1>6 DEF HandleCall, FillPkt
<1>7. CASE MoveFrame
  BY <1>1, <1>2, <1>3, <1>7 DEF MoveFrame
<1>8. CASE EndCommand
  <2>1. phase' = "free" /\ apc' = "poll" /\ phase \in {"left", "over"} /\ UNCHANGED xop
    BY <1>8 DEF EndCommand
  <2>2. owned # 0 /\ owned' # 0
    BY <1>2, <2>1
  <2>3. RequestHeard'
    <3>1. CASE UNCHANGED <<reqPending, flg>>
      BY <1>2, <3>1
    <3>2. CASE TriggerRequest
      BY <1>2, <3>2, PulseHeard
    <3>3. QED
      BY <1>8, <3>1, <3>2
      DEF EndCommand, ProcPkt, MagicOnline, MagicOffline, MagicLoopback, SendPacket
  <2>4. dpc \notin {"receiving", "recv_exit", "drop_sel"}
    BY <2>1
  <2>5. QED BY <1>2, <1>3, <2>1, <2>2, <2>3, <2>4
<1>9. CASE Poll
  <2>1. apc' = "flow" /\ apc = "poll" /\ UNCHANGED <<online, phase, xop>>
    BY <1>9 DEF Poll
  <2>2. CASE UNCHANGED <<reqPending, flg>>
    BY <1>1, <1>2, <1>3, <2>1, <2>2
  <2>3. CASE online /\ TriggerRequest
    <3>1. RequestHeard'
      BY <1>2, <2>3, PulseHeard
    <3>2. owned # 0
      BY <2>3
    <3>3. QED BY <1>1, <1>2, <1>3, <2>1, <3>1, <3>2
  <2>4. QED BY <1>9, <2>2, <2>3 DEF Poll
<1>10. CASE Flow
  BY <1>1, <1>2, <1>3, <1>10 DEF Flow
<1>11. CASE Arrive
  BY <1>1, <1>2, <1>3, <1>11 DEF Arrive
<1>12. CASE Restart
  BY <1>1, <1>2, <1>3, <1>12 DEF Restart, PioInit
<1> QED
  BY <1>4, <1>5, <1>6, <1>7, <1>8, <1>9, <1>10, <1>11, <1>12 DEF BridgeStep

\* The only request there may be is S2_ONLINE.
LEMMA OneRequest ==
  ASSUME OnlyOnline, requests # <<>>
  PROVE  Head(requests).op = "online" /\ Tail(requests) = <<>>
<1>1. PICK m \in Macs : requests = <<[op |-> "online", mac |-> m]>>
  BY DEF OnlyOnline
<1> QED
  BY <1>1

\* The steps of the driver: its flag is cleared after a receive that answered the bridge.
LEMMA DriverRequests ==
  ASSUME Untroubled, TypeInv, RequestInv,
         ServerStep \/ Interrupt \/ ClientWrite \/ ClientRequest, UNCHANGED avrVars
  PROVE  RequestInv'
<1> USE DEF RequestInv, OnlyOnline, PortOwned, InCommand, RecvAnswered, RequestHeard, Untroubled,
            MayTimeOut, Attached, InterruptDue, port, hwState, listState, sentHist, SendFor, Sent
<1>1. /\ {reqPending, flg, recvPending, offline, online} \subseteq BOOLEAN
      /\ phase \in Phases /\ dpc \in DriverPcs
  BY DEF TypeInv, TypeOK, PortTypeOK, BridgeTypeOK, DriverTypeOK
<1>2. UNCHANGED <<apc, online, reqPending>>
  BY DEF avrVars, loopState
<1>3. CASE LoopHead
  BY <1>1, <1>2, <1>3 DEF LoopHead
<1>4. CASE Wait
  BY <1>1, <1>2, <1>4 DEF Wait
<1>5. CASE CheckReceive
  BY <1>1, <1>2, <1>5 DEF CheckReceive
<1>6. CASE RaiseSend
  BY <1>1, <1>2, <1>6 DEF RaiseSend
<1>7. CASE SendReturns
  BY <1>1, <1>2, <1>7 DEF SendReturns, Released
<1>8. CASE RaiseRecv
  BY <1>1, <1>2, <1>8 DEF RaiseRecv
<1>9. CASE RecvEnds
  BY <1>1, <1>2, <1>9 DEF RecvEnds
<1>10. CASE RecvExit
  BY <1>1, <1>2, <1>10 DEF RecvExit
<1>11. CASE DropSelectRecv
  BY <1>1, <1>2, <1>11 DEF DropSelectRecv, Released
<1>12. CASE Received
  BY <1>1, <1>2, <1>12 DEF Received
<1>13. CASE Answered
  BY <1>1, <1>2, <1>13 DEF Answered
<1>14. CASE NextWrite
  BY <1>1, <1>2, <1>14 DEF NextWrite
<1>15. CASE WriteBufferError
  BY <1>1, <1>2, <1>15 DEF WriteBufferError
<1>16. CASE Written
  BY <1>1, <1>2, <1>16 DEF Written
<1>17. CASE NoRequest
  BY <1>1, <1>2, <1>17 DEF NoRequest
<1>18. CASE RequestDropped
  <2>1. requests' = <<>>
    BY <1>18, OneRequest DEF RequestDropped
  <2>2. QED BY <1>1, <1>2, <1>18, <2>1 DEF RequestDropped
<1>19. CASE TakeRequest
  <2>1. requests' = <<>> /\ Head(requests).op = "online"
    BY <1>19, OneRequest DEF TakeRequest
  <2>2. /\ dpc' \in {"port", "attach"} /\ request' \in {"none", "online"}
        /\ UNCHANGED <<writes, caller, offline, recvPending, owned, phase, xop, flg>>
    BY <1>19, <2>1 DEF TakeRequest
  <2>3. QED BY <1>1, <1>2, <2>1, <2>2
<1>20. CASE Attach
  BY <1>1, <1>2, <1>20 DEF Attach
<1>21. CASE AttachFails
  BY <1>1, <1>2, <1>21 DEF AttachFails
<1>22. CASE AttachReturns
  BY <1>1, <1>2, <1>22 DEF AttachReturns
<1>23. CASE DetachBegins
  BY <1>1, <1>2, <1>23 DEF DetachBegins
<1>24. CASE Detached
  BY <1>1, <1>2, <1>24 DEF Detached
<1>25. CASE Interrupt
  <2>1. owned # 0 /\ recvPending'
    BY <1>25 DEF Interrupt, InterruptSignals
  <2>2. UNCHANGED <<dpc, caller, offline, owned, request, requests, writes, phase, xop>>
    BY <1>25 DEF Interrupt
  <2>3. QED BY <1>1, <1>2, <2>1, <2>2
<1>26. CASE ClientWrite
  BY <1>1, <1>2, <1>26 DEF ClientWrite
<1>27. CASE ClientRequest
  BY <1>1, <1>2, <1>27 DEF ClientRequest, AllRequests
<1> QED
  BY <1>3, <1>4, <1>5, <1>6, <1>7, <1>8, <1>9, <1>10, <1>11, <1>12, <1>13, <1>14, <1>15, <1>16, <1>17,
     <1>18, <1>19, <1>20, <1>21, <1>22, <1>23, <1>24, <1>25, <1>26, <1>27 DEF ServerStep

\* Every step of the composed system, in the untroubled setting.
LEMMA RequestNext == Untroubled /\ TypeInv /\ RequestInv /\ [Next]_vars => RequestInv'
<1> SUFFICES ASSUME Untroubled, TypeInv, RequestInv, [Next]_vars PROVE RequestInv'
  OBVIOUS
<1>1. CASE Next
  BY <1>1, BridgeRequests, DriverRequests DEF Next, AvrStep, AmigaTask, AmigaInterrupt, Environment
<1>2. CASE UNCHANGED vars
  BY <1>2 DEF vars, port, avrVars, loopState, driverVars, hwState, listState, RequestInv, OnlyOnline,
              PortOwned, InCommand, RecvAnswered, RequestHeard
<1> QED
  BY <1>1, <1>2

\* What bridge.c's req_is_pending and the driver's HWB_RECV_PENDING have to do with each other:
\* as long as no transfer fails and S2_OFFLINE is not asked for, a request the bridge waits
\* for is pending in the driver or in the interrupt register, restarts of the bridge included.
THEOREM RequestsHeard == ASSUME Untroubled PROVE Spec => []RequestHeard
<1>1. Init => TypeInv /\ RequestInv
  BY TypeInit, RequestInit
<1>2. TypeInv /\ RequestInv /\ [Next]_vars => (TypeInv /\ RequestInv)'
  BY TypeNext, RequestNext
<1>3. TypeInv /\ RequestInv => RequestHeard
  BY DEF RequestInv
<1> QED
  BY <1>1, <1>2, <1>3, PTL DEF Spec
----------------------------------------------------------------------------
(* The transfer and who is in it *)

\* The initial state: there is none.
LEMMA TransferInit == Init => TransferInv
  BY DEF Init, PortInit, BridgeInit, DriverInit, TransferInv, InCommand

\* The steps of the bridge take the frame, move it, and see its end.
LEMMA BridgeTransfers ==
  ASSUME TypeInv, TransferInv, BridgeStep \/ Arrive \/ Restart, UNCHANGED driverVars
  PROVE  TransferInv'
<1> USE DEF TransferInv, InCommand, port
<1>1. phase \in Phases /\ apc \in AvrPcs /\ xop \in {"send", "recv"}
  BY DEF TypeInv, TypeOK, PortTypeOK, BridgeTypeOK
<1>2. UNCHANGED <<dpc, caller, writes, cfgMac>>
  BY DEF driverVars, listState
<1>3. UNCHANGED frame => FrameToSend' = FrameToSend
  BY <1>2 DEF FrameToSend
<1>4. CASE Worker \/ HandleNoCall \/ Flow \/ Arrive \/ Restart
  BY <1>2, <1>3, <1>4 DEF Worker, HandleNoCall, Flow, Arrive, Restart
<1>5. CASE HandleCall
  BY <1>1, <1>2, <1>3, <1>5 DEF HandleCall, FillPkt
<1>6. CASE MoveFrame
  BY <1>1, <1>2, <1>3, <1>6 DEF MoveFrame
<1>7. CASE EndCommand
  BY <1>1, <1>2, <1>3, <1>7 DEF EndCommand
<1>8. CASE Poll
  BY <1>1, <1>2, <1>3, <1>8 DEF Poll
<1> QED
  BY <1>4, <1>5, <1>6, <1>7, <1>8 DEF BridgeStep

\* The steps of the driver raise SELECT for a transfer and drop it at its end.
LEMMA DriverTransfers ==
  ASSUME TypeInv, TransferInv, ServerStep \/ Interrupt \/ ClientWrite \/ ClientRequest,
         UNCHANGED avrVars
  PROVE  TransferInv'
<1> USE DEF TransferInv, InCommand, port, hwState, listState, sentHist, SendFor, Sent
<1>1. phase \in Phases /\ dpc \in DriverPcs /\ UNCHANGED apc
  BY DEF TypeInv, TypeOK, PortTypeOK, DriverTypeOK, avrVars
<1>2. CASE RaiseSend
  <2>1. frame' = FrameToSend /\ UNCHANGED <<caller, writes, cfgMac>>
    BY <1>2 DEF RaiseSend
  <2>2. caller \in Callers
    BY <1>2 DEF RaiseSend, TypeInv, SenderKnown, InSend
  <2>3. FrameToSend' = FrameToSend
    BY <2>1, <2>2 DEF FrameToSend, Frame, Callers
  <2>4. QED BY <1>1, <1>2, <2>1, <2>3 DEF RaiseSend
<1>3. CASE SendReturns
  BY <1>1, <1>3 DEF SendReturns, Released
<1>4. CASE RaiseRecv
  BY <1>1, <1>4 DEF RaiseRecv
<1>5. CASE RecvEnds
  BY <1>1, <1>5 DEF RecvEnds
<1>6. CASE RecvExit
  BY <1>1, <1>6 DEF RecvExit
<1>7. CASE DropSelectRecv
  BY <1>1, <1>7 DEF DropSelectRecv, Released
<1>8. CASE Received \/ Answered
  BY <1>1, <1>8 DEF Received, Answered
<1>9. CASE LoopHead \/ Wait \/ CheckReceive
  BY <1>1, <1>9 DEF LoopHead, Wait, CheckReceive
<1>10. CASE NextWrite \/ WriteBufferError \/ Written
  BY <1>1, <1>10 DEF NextWrite, WriteBufferError, Written
<1>11. CASE NoRequest \/ RequestDropped
  BY <1>1, <1>11 DEF NoRequest, RequestDropped
<1>12. CASE TakeRequest
  <2>1. dpc = "port" /\ dpc' \in {"port", "attach", "detach"} /\ UNCHANGED <<phase, xop>>
    BY <1>12 DEF TakeRequest
  <2>2. QED BY <1>1, <2>1
<1>13. CASE Attach \/ AttachFails \/ AttachReturns
  BY <1>1, <1>13 DEF Attach, AttachFails, AttachReturns
<1>14. CASE DetachBegins \/ Detached
  BY <1>1, <1>14 DEF DetachBegins, Detached
<1>15. CASE Interrupt \/ ClientRequest
  <2>1. UNCHANGED <<dpc, caller, writes, cfgMac, frame, phase, xop>>
    BY <1>15 DEF Interrupt, ClientRequest
  <2>2. FrameToSend' = FrameToSend
    BY <2>1 DEF FrameToSend
  <2>3. QED BY <1>1, <2>1, <2>2
<1>16. CASE ClientWrite
  <2>1. UNCHANGED <<dpc, caller, cfgMac, frame, phase, xop>>
    BY <1>16 DEF ClientWrite
  <2>2. dpc = "sending" => caller \in {"answer", "attach", "detach"}
    BY <1>16 DEF ClientWrite, WriteListHeld, TypeInv, SenderKnown, InSend, Callers
  <2>3. dpc = "sending" => FrameToSend' = FrameToSend
    BY <2>1, <2>2 DEF FrameToSend
  <2>4. QED BY <1>1, <2>1, <2>3
<1> QED
  BY <1>2, <1>3, <1>4, <1>5, <1>6, <1>7, <1>8, <1>9, <1>10, <1>11, <1>12, <1>13, <1>14, <1>15,
     <1>16 DEF ServerStep

\* Every step of the composed system.
LEMMA TransferNext == TypeInv /\ TransferInv /\ [Next]_vars => TransferInv'
<1> SUFFICES ASSUME TypeInv, TransferInv, [Next]_vars PROVE TransferInv'
  OBVIOUS
<1>1. CASE Next
  BY <1>1, BridgeTransfers, DriverTransfers DEF Next, AvrStep, AmigaTask, AmigaInterrupt, Environment
<1>2. CASE UNCHANGED vars
  BY <1>2 DEF vars, port, avrVars, driverVars, listState, TransferInv, InCommand, FrameToSend
<1> QED
  BY <1>1, <1>2
----------------------------------------------------------------------------
(* Online at both ends, with one address *)

\* The initial state: the driver is offline.
LEMMA AgreeInit == Init => AgreeInv
  BY DEF Init, PortInit, DriverInit, BridgeInit, AgreeInv, WritesPlain, Settled, Sending,
         Reconfiguring

\* The frame of a client is no magic packet of the driver.
LEMMA PlainHead ==
  ASSUME TypeInv, WritesPlain, writes # <<>>
  PROVE  Head(writes).type \in {"data", "loopback"}
<1>1. writes \in Seq(AllFrames)
  BY DEF TypeInv, TypeOK, DriverTypeOK
<1>2. Len(writes) >= 1 /\ Head(writes) = writes[1]
  BY <1>1
<1> QED
  BY <1>1, <1>2 DEF WritesPlain

\* Neither are those behind it.
LEMMA PlainTail ==
  ASSUME TypeInv, WritesPlain, writes # <<>>, writes' = Tail(writes) \/ writes' = <<>>
  PROVE  WritesPlain'
<1>1. writes \in Seq(AllFrames)
  BY DEF TypeInv, TypeOK, DriverTypeOK
<1>2. CASE writes' = Tail(writes)
  <2>1. Len(writes') = Len(writes) - 1 /\ Len(writes) \in Nat
    BY <1>1, <1>2
  <2>2. \A i \in 1..Len(writes') : writes'[i] = writes[i + 1] /\ i + 1 \in 1..Len(writes)
    BY <1>1, <1>2, <2>1
  <2>3. QED BY <2>2 DEF WritesPlain
<1>3. CASE writes' = <<>>
  BY <1>3 DEF WritesPlain
<1> QED
  BY <1>2, <1>3

\* Nor the frame of a new request.
LEMMA PlainAppend ==
  ASSUME TypeInv, WritesPlain, NEW n \in Nat, NEW t \in {"data", "loopback"},
         writes' = Append(writes, Frame(t, n))
  PROVE  WritesPlain'
<1>1. writes \in Seq(AllFrames)
  BY DEF TypeInv, TypeOK, DriverTypeOK
<1>2. Len(writes') = Len(writes) + 1 /\ Len(writes) \in Nat
  BY <1>1
<1>3. \A i \in 1..Len(writes') :
        (i \in 1..Len(writes) /\ writes'[i] = writes[i]) \/ writes'[i] = Frame(t, n)
  BY <1>1, <1>2
<1> QED
  BY <1>3 DEF WritesPlain, Frame

\* The steps of the bridge.  A restart takes it offline, the driver's packet online.
LEMMA BridgeAgrees ==
  ASSUME TypeInv, TransferInv, AgreeInv, BridgeStep \/ Arrive \/ Restart, UNCHANGED driverVars
  PROVE  AgreeInv'
<1> USE DEF AgreeInv, Settled, Sending, Reconfiguring, OnlineUnderWay, port, loopState, avrHist
<1>1. /\ phase \in Phases /\ xop \in {"send", "recv"} /\ restarts \in Nat
      /\ frame.type \in FrameTypes
  BY DEF TypeInv, TypeOK, PortTypeOK, BridgeTypeOK, AllFrames
<1>2. UNCHANGED <<dpc, caller, rc, offline, writes, cfgMac>>
  BY DEF driverVars, listState
<1>3. WritesPlain'
  BY <1>2 DEF WritesPlain
<1>4. CASE Worker \/ HandleNoCall \/ Flow \/ Arrive
  BY <1>1, <1>2, <1>3, <1>4 DEF Worker, HandleNoCall, Flow, Arrive
<1>5. CASE Restart
  BY <1>1, <1>2, <1>3, <1>5 DEF Restart
<1>6. CASE HandleCall
  <2>1. CASE xop = "send"
    BY <1>1, <1>2, <1>3, <1>6, <2>1 DEF HandleCall
  <2>2. CASE xop = "recv"
    BY <1>1, <1>2, <1>3, <1>6, <2>2 DEF HandleCall, FillPkt
  <2>3. QED BY <1>1, <2>1, <2>2
<1>7. CASE MoveFrame
  BY <1>1, <1>2, <1>3, <1>7 DEF MoveFrame
<1>8. CASE EndCommand
  <2>1. phase' = "free" /\ UNCHANGED <<restarts, xop, frame>>
    BY <1>8 DEF EndCommand
  <2>2. CASE UNCHANGED loopState /\ ~(phase = "over" /\ xop = "send")
    BY <1>1, <1>2, <1>3, <2>1, <2>2
  <2>3. CASE phase = "over" /\ xop = "send" /\ ProcPkt
    <3>1. CASE frame.type = "online"
      BY <1>1, <1>2, <1>3, <2>1, <2>3, <3>1 DEF ProcPkt, MagicOnline
    <3>2. CASE frame.type = "offline"
      BY <1>1, <1>2, <1>3, <2>1, <2>3, <3>2 DEF ProcPkt, MagicOffline
    <3>3. CASE frame.type \in {"loopback", "data"}
      BY <1>1, <1>2, <1>3, <2>1, <2>3, <3>3 DEF ProcPkt, MagicLoopback, SendPacket
    <3>4. QED BY <2>3, <3>1, <3>2, <3>3 DEF ProcPkt
  <2>4. QED BY <1>8, <2>2, <2>3 DEF EndCommand
<1>9. CASE Poll
  BY <1>1, <1>2, <1>3, <1>9 DEF Poll
<1> QED
  BY <1>4, <1>5, <1>6, <1>7, <1>8, <1>9 DEF BridgeStep

\* The steps of the driver.  Its magic packet names its address, and it is online only once
\* the bridge has it.
LEMMA DriverAgrees ==
  ASSUME TypeInv, TransferInv, AgreeInv, ServerStep \/ Interrupt \/ ClientWrite \/ ClientRequest,
         UNCHANGED avrVars
  PROVE  AgreeInv'
<1> USE DEF AgreeInv, Settled, Sending, Reconfiguring, OnlineUnderWay, port, hwState, listState,
            sentHist, SendFor, Sent
<1>1. /\ phase \in Phases /\ dpc \in DriverPcs /\ rc \in BOOLEAN /\ offline \in BOOLEAN
      /\ frame.type \in FrameTypes
  BY DEF TypeInv, TypeOK, PortTypeOK, DriverTypeOK, AllFrames
<1>2. UNCHANGED <<mac, online, restarts>>
  BY DEF avrVars, loopState, avrHist
<1>3. UNCHANGED writes => WritesPlain'
  BY DEF WritesPlain
<1>4. CASE RaiseSend
  <2>1. /\ frame' = FrameToSend /\ phase' = "called" /\ xop' = "send" /\ phase = "free"
        /\ dpc = "send" /\ dpc' = "sending" /\ UNCHANGED <<caller, rc, offline, writes, cfgMac>>
    BY <1>4 DEF RaiseSend
  <2>2. caller \in Callers /\ (caller = "write" => writes # <<>>)
    BY <2>1 DEF TypeInv, SenderKnown, InSend
  <2>3. CASE caller = "write"
    <3>1. frame' = Head(writes)
      BY <2>1, <2>3 DEF FrameToSend
    <3>2. frame'.type \in {"data", "loopback"}
      BY <2>2, <2>3, <3>1, PlainHead
    <3>3. QED BY <1>1, <1>2, <1>3, <2>1, <2>3, <3>2
  <2>4. CASE caller \in {"answer", "attach"}
    <3>1. frame'.type = "loopback" \/ frame' = Frame("online", cfgMac)
      BY <2>1, <2>4 DEF FrameToSend
    <3>2. QED BY <1>1, <1>2, <1>3, <2>1, <2>4, <3>1 DEF Frame
  <2>5. CASE caller = "detach"
    BY <1>1, <1>2, <1>3, <2>1, <2>5
  <2>6. QED BY <2>2, <2>3, <2>4, <2>5 DEF Callers
<1>5. CASE SendReturns
  <2>1. /\ dpc \in {"send", "sending"} /\ dpc' = "sent" /\ phase' = Released
        /\ UNCHANGED <<caller, offline, writes, cfgMac, xop, frame>>
    BY <1>5 DEF SendReturns
  <2>2. CASE caller = "attach"
    <3>1. offline
      BY <2>1, <2>2
    <3>2. CASE rc'
      <4>1. dpc = "sending" /\ phase = "moved"
        BY <1>5, <3>2 DEF SendReturns
      <4>2. frame = Frame("online", cfgMac) /\ xop = "send"
        BY <2>2, <4>1 DEF TransferInv, FrameToSend
      <4>3. phase' = "over"
        BY <2>1, <4>1 DEF Released
      <4>4. QED BY <1>1, <1>2, <1>3, <2>1, <2>2, <3>1, <4>2, <4>3 DEF Frame
    <3>3. CASE ~rc'
      BY <1>1, <1>2, <1>3, <2>1, <2>2, <3>1, <3>3
    <3>4. QED BY <3>2, <3>3
  <2>3. CASE caller # "attach"
    BY <1>1, <1>2, <1>3, <2>1, <2>3 DEF Released
  <2>4. QED BY <2>2, <2>3
<1>6. CASE DropSelectRecv
  BY <1>1, <1>2, <1>3, <1>6 DEF DropSelectRecv, Released
<1>7. CASE RaiseRecv
  BY <1>1, <1>2, <1>3, <1>7 DEF RaiseRecv
<1>8. CASE RecvEnds \/ RecvExit
  BY <1>1, <1>2, <1>3, <1>8 DEF RecvEnds, RecvExit
<1>9. CASE Received \/ Answered
  BY <1>1, <1>2, <1>3, <1>9 DEF Received, Answered
<1>10. CASE LoopHead \/ Wait \/ CheckReceive
  BY <1>1, <1>2, <1>3, <1>10 DEF LoopHead, Wait, CheckReceive
<1>11. CASE NextWrite
  BY <1>1, <1>2, <1>3, <1>11 DEF NextWrite
<1>12. CASE WriteBufferError \/ Written
  <2>1. writes # <<>> /\ writes' = Tail(writes)
    BY <1>12 DEF WriteBufferError, Written, TypeInv, SenderKnown, InSend
  <2>2. WritesPlain'
    BY <2>1, PlainTail
  <2>3. QED BY <1>1, <1>2, <2>2, <1>12 DEF WriteBufferError, Written
<1>13. CASE NoRequest \/ RequestDropped
  BY <1>1, <1>2, <1>3, <1>13 DEF NoRequest, RequestDropped
<1>14. CASE TakeRequest
  <2>1. /\ dpc = "port" /\ UNCHANGED <<caller, rc, offline, phase, xop, frame>>
        /\ UNCHANGED writes \/ writes' = <<>>
        /\ \/ dpc' = "detach"
           \/ dpc' = "attach" /\ offline
           \/ dpc' = dpc /\ UNCHANGED cfgMac
    BY <1>14 DEF TakeRequest
  <2>2. WritesPlain'
    BY <1>3, <2>1 DEF WritesPlain
  <2>3. QED BY <1>1, <1>2, <2>1, <2>2
<1>15. CASE Attach \/ AttachFails
  BY <1>1, <1>2, <1>3, <1>15 DEF Attach, AttachFails
<1>16. CASE AttachReturns
  BY <1>1, <1>2, <1>3, <1>16 DEF AttachReturns
<1>17. CASE DetachBegins
  BY <1>1, <1>2, <1>3, <1>17 DEF DetachBegins
<1>18. CASE Detached
  <2>1. /\ dpc = "sent" /\ caller = "detach" /\ caller' = "none" /\ offline'
        /\ UNCHANGED writes \/ writes' = <<>>
        /\ dpc' \in {"port", "attach"} /\ UNCHANGED <<cfgMac, phase, xop, frame>>
    BY <1>18 DEF Detached
  <2>2. WritesPlain'
    BY <1>3, <2>1 DEF WritesPlain
  <2>3. QED BY <1>1, <1>2, <2>1, <2>2
<1>19. CASE Interrupt \/ ClientRequest
  BY <1>1, <1>2, <1>3, <1>19 DEF Interrupt, ClientRequest
<1>20. CASE ClientWrite
  <2>1. written' \in Nat /\ UNCHANGED <<dpc, caller, rc, offline, cfgMac, phase, xop, frame>>
    BY <1>20 DEF ClientWrite, TypeInv, TypeOK, DriverTypeOK
  <2>2. PICK t \in WriteTypes : writes' = Append(writes, Frame(t, written'))
    BY <1>20 DEF ClientWrite
  <2>3. t \in {"data", "loopback"}
    BY DriverAssumption
  <2>4. WritesPlain'
    BY <2>1, <2>2, <2>3, PlainAppend
  <2>5. QED BY <1>1, <1>2, <2>1, <2>4
<1> QED
  BY <1>4, <1>5, <1>6, <1>7, <1>8, <1>9, <1>10, <1>11, <1>12, <1>13, <1>14, <1>15, <1>16, <1>17,
     <1>18, <1>19, <1>20 DEF ServerStep

\* Every step of the composed system.
LEMMA AgreeNext == TypeInv /\ TransferInv /\ AgreeInv /\ [Next]_vars => AgreeInv'
<1> SUFFICES ASSUME TypeInv, TransferInv, AgreeInv, [Next]_vars PROVE AgreeInv'
  OBVIOUS
<1>1. CASE Next
  BY <1>1, BridgeAgrees, DriverAgrees DEF Next, AvrStep, AmigaTask, AmigaInterrupt, Environment
<1>2. CASE UNCHANGED vars
  BY <1>2 DEF vars, port, avrVars, loopState, avrHist, driverVars, listState, AgreeInv, WritesPlain,
              Settled, Sending, Reconfiguring, OnlineUnderWay
<1> QED
  BY <1>1, <1>2

\* The three together are inductive.
LEMMA Agreement == Spec => [](TypeInv /\ TransferInv /\ AgreeInv)
<1>1. Init => TypeInv /\ TransferInv /\ AgreeInv
  BY TypeInit, TransferInit, AgreeInit
<1>2. TypeInv /\ TransferInv /\ AgreeInv /\ [Next]_vars => (TypeInv /\ TransferInv /\ AgreeInv)'
  BY TypeNext, TransferNext, AgreeNext
<1> QED
  BY <1>1, <1>2, PTL DEF Spec

\* Both ends use one address: when the driver is online, the magic packet it sent has reached
\* bridge.c's magic_online or waits to be read, and no packet of another address can follow,
\* whatever fails, however often S2_CONFIGINTERFACE changes it.
THEOREM OneAddress == Spec => []MacAgreed
<1>1. AgreeInv => MacAgreed
  BY DEF AgreeInv, MacAgreed, Settled
<1> QED
  BY <1>1, Agreement, PTL

\* Without a restart of the bridge a driver that is online has a bridge that is online, or is
\* about to be: a send of attach that timed out leaves the driver offline.
THEOREM OnlineTogether == ASSUME MaxRestarts = 0 PROVE Spec => []OnlineAgree
<1>1. Init => restarts = 0
  BY DEF Init, BridgeInit
<1>2. restarts = 0 /\ [Next]_vars => (restarts = 0)'
  <2> SUFFICES ASSUME restarts = 0, [Next]_vars PROVE restarts' = 0
    OBVIOUS
  <2>1. CASE UNCHANGED avrVars
    BY <2>1 DEF avrVars, avrHist
  <2>2. CASE BridgeStep \/ Arrive
    BY <2>2 DEF BridgeStep, Worker, HandleNoCall, HandleCall, MoveFrame, EndCommand, Poll, Flow,
                Arrive, avrHist
  <2>3. ~Restart
    BY DEF Restart
  <2>4. QED
    BY <2>1, <2>2, <2>3 DEF Next, AvrStep, AmigaTask, AmigaInterrupt, Environment, vars
<1>3. AgreeInv /\ restarts = 0 => OnlineAgree
  BY DEF AgreeInv, OnlineAgree, Settled
<1> QED
  BY <1>1, <1>2, <1>3, Agreement, PTL DEF Spec
----------------------------------------------------------------------------
(* Writes on their way to the network *)

\* The initial state: there are none.
LEMMA WireInit == Init => WireInv /\ OkInv
  BY DEF Init, PortInit, BridgeInit, DriverInit, WireInv, OkInv, Increasing, Ahead, WriteUnderWay

\* What the types say of the numbers.
LEMMA NumbersTyped ==
  ASSUME TypeInv
  PROVE  /\ written \in Nat /\ frame.val \in Nat /\ Len(wire) \in Nat /\ Len(writes) \in Nat
         /\ \A i \in 1..Len(wire) : wire[i] \in Nat
         /\ \A j \in 1..Len(writes) : writes[j] \in AllFrames /\ writes[j].val \in Nat
         /\ writes # <<>> => Head(writes) = writes[1] /\ 1 \in 1..Len(writes)
<1>1. written \in Nat /\ frame \in AllFrames /\ wire \in Seq(Nat) /\ writes \in Seq(AllFrames)
  BY DEF TypeInv, TypeOK, PortTypeOK, BridgeTypeOK, DriverTypeOK
<1>2. /\ Len(wire) \in Nat /\ Len(writes) \in Nat
      /\ \A i \in 1..Len(wire) : wire[i] \in Nat
      /\ \A j \in 1..Len(writes) : writes[j] \in AllFrames
      /\ writes # <<>> => Head(writes) = writes[1] /\ 1 \in 1..Len(writes)
  BY <1>1
<1>3. \A f \in AllFrames : f.val \in Nat
  BY DEF AllFrames
<1> QED
  BY <1>1, <1>2, <1>3

\* The list without its first write.
LEMMA WritesShorter ==
  ASSUME TypeInv, writes # <<>>, writes' = Tail(writes)
  PROVE  \A j \in 1..Len(writes') :
           j \in Nat /\ j > 0 /\ j + 1 \in 1..Len(writes) /\ writes'[j] = writes[j + 1]
<1>1. writes \in Seq(AllFrames)
  BY DEF TypeInv, TypeOK, DriverTypeOK
<1>2. Len(writes') = Len(writes) - 1 /\ Len(writes) \in Nat
  BY <1>1
<1> QED
  BY <1>1, <1>2

\* The list with one more.
LEMMA WritesLonger ==
  ASSUME TypeInv, NEW f \in AllFrames, writes' = Append(writes, f)
  PROVE  /\ Len(writes') = Len(writes) + 1 /\ writes'[Len(writes) + 1] = f
         /\ \A j \in 1..Len(writes) : writes'[j] = writes[j]
<1>1. writes \in Seq(AllFrames)
  BY DEF TypeInv, TypeOK, DriverTypeOK
<1> QED
  BY <1>1

\* The network with one more.
LEMMA WireLonger ==
  ASSUME TypeInv, wire' = Append(wire, frame.val)
  PROVE  /\ Len(wire') = Len(wire) + 1 /\ wire'[Len(wire) + 1] = frame.val
         /\ \A i \in 1..Len(wire) : wire'[i] = wire[i]
<1>1. wire \in Seq(Nat)
  BY DEF TypeInv, TypeOK, BridgeTypeOK
<1> QED
  BY <1>1

\* A step that changes no numbers, sends nothing and does not end a send.
LEMMA WireKept ==
  ASSUME WireInv, UNCHANGED <<wire, writes, written, frame>>, WriteUnderWay' => WriteUnderWay,
         dpc = "sent" /\ caller = "write" => dpc' = "sent" /\ caller' = "write",
         WriteUnderWay' /\ dpc \in {"sending", "sent"} /\ caller = "write" =>
           dpc' \in {"sending", "sent"} /\ caller' = "write"
  PROVE  WireInv'
<1>1. Increasing(wire)'
  BY DEF WireInv, Increasing
<1>2. \A i \in 1..Len(wire') :
        wire'[i] <= written' /\ Ahead(wire[i], dpc = "sent" /\ caller = "write")'
  BY DEF WireInv, Ahead
<1>3. /\ \A i, j \in 1..Len(writes') : i < j => writes'[i].val < writes'[j].val
      /\ \A j \in 1..Len(writes') : writes'[j].val <= written'
  BY DEF WireInv
<1>4. ASSUME WriteUnderWay'
      PROVE  /\ frame'.val <= written'
             /\ \A i \in 1..Len(wire') : wire'[i] < frame'.val
             /\ Ahead(frame.val, dpc \in {"sending", "sent"} /\ caller = "write")'
  BY <1>4 DEF WireInv, Ahead
<1> QED
  BY <1>1, <1>2, <1>3, <1>4 DEF WireInv

\* A step that empties the list instead keeps the order as well.
LEMMA WireEmptied ==
  ASSUME TypeInv, WireInv, UNCHANGED <<wire, written, frame>>, writes' = <<>>,
         WriteUnderWay' => WriteUnderWay
  PROVE  WireInv'
<1>1. Len(writes') = 0
  OBVIOUS
<1> QED
  BY <1>1 DEF WireInv, Ahead, Increasing

\* The steps of the bridge: the frame in transfer goes to the network.
LEMMA BridgeWire ==
  ASSUME TypeInv, TransferInv, WireInv, BridgeStep \/ Arrive \/ Restart, UNCHANGED driverVars
  PROVE  WireInv'
<1>1. UNCHANGED <<dpc, caller, writes, written>>
  BY DEF driverVars, listState, sentHist
<1>2. CASE Worker \/ HandleNoCall \/ Flow \/ Arrive \/ Restart \/ MoveFrame \/ Poll
  <2>1. UNCHANGED <<wire, frame>> /\ (WriteUnderWay' => WriteUnderWay)
    BY <1>2
    DEF Worker, HandleNoCall, Flow, Arrive, Restart, MoveFrame, Poll, port, avrHist, WriteUnderWay
  <2>2. QED BY <1>1, <2>1, WireKept
<1>3. CASE HandleCall /\ xop = "send"
  <2>1. UNCHANGED <<wire, frame>> /\ (WriteUnderWay' => WriteUnderWay)
    BY <1>3 DEF HandleCall, WriteUnderWay
  <2>2. QED BY <1>1, <2>1, WireKept
<1>4. CASE HandleCall /\ xop # "send"
  <2>1. UNCHANGED wire /\ ~WriteUnderWay'
    BY <1>4 DEF HandleCall, FillPkt, WriteUnderWay
  <2>2. QED BY <1>1, <2>1 DEF WireInv, Increasing, Ahead
<1>5. CASE EndCommand
  <2>1. phase' = "free" /\ UNCHANGED frame /\ ~WriteUnderWay'
    BY <1>5 DEF EndCommand, WriteUnderWay
  <2>2. CASE UNCHANGED wire
    BY <1>1, <2>1, <2>2, WireKept
  <2>3. CASE SendPacket /\ frame.type = "data" /\ phase = "over" /\ xop = "send"
    <3>1. WriteUnderWay /\ dpc # "sending"
      BY <2>3 DEF WriteUnderWay, TransferInv
    <3>2. wire' = Append(wire, frame.val)
      BY <2>3 DEF SendPacket
    <3>3. \A i \in 1..Len(wire') : \/ i \in 1..Len(wire) /\ wire'[i] = wire[i]
                                   \/ i = Len(wire) + 1 /\ wire'[i] = frame.val
      <4>1. /\ Len(wire') = Len(wire) + 1 /\ wire'[Len(wire) + 1] = frame.val
            /\ \A i \in 1..Len(wire) : wire'[i] = wire[i]
        BY <3>2, WireLonger
      <4>2. QED BY <4>1, NumbersTyped
    <3>4. Increasing(wire)'
      BY <3>1, <3>3, NumbersTyped DEF WireInv, Increasing
    <3>5. \A i \in 1..Len(wire') : wire'[i] <= written' /\ wire'[i] \in Nat
      BY <1>1, <3>1, <3>3, NumbersTyped DEF WireInv
    <3>6. \A i \in 1..Len(wire') : Ahead(wire[i], dpc = "sent" /\ caller = "write")'
      BY <1>1, <3>1, <3>3, NumbersTyped DEF WireInv, Ahead
    <3>7. QED BY <1>1, <2>1, <3>4, <3>5, <3>6 DEF WireInv
  <2>4. QED
    BY <1>5, <2>2, <2>3
    DEF EndCommand, ProcPkt, MagicOnline, MagicOffline, MagicLoopback
<1> QED
  BY <1>2, <1>3, <1>4, <1>5 DEF BridgeStep

\* The steps of the driver: the first of the list is sent, replied, and leaves the list;
\* a new write has the highest number.
LEMMA DriverWire ==
  ASSUME TypeInv, TransferInv, WireInv, ServerStep \/ Interrupt \/ ClientWrite \/ ClientRequest,
         UNCHANGED avrVars
  PROVE  WireInv'
<1>1. UNCHANGED wire
  BY DEF avrVars, avrHist
<1>2. dpc \in DriverPcs /\ phase \in Phases
  BY DEF TypeInv, TypeOK, PortTypeOK, DriverTypeOK
<1>3. CASE RaiseSend
  <2>1. /\ frame' = FrameToSend /\ xop' = "send" /\ dpc = "send" /\ dpc' = "sending"
        /\ UNCHANGED <<caller, writes, written>>
    BY <1>3 DEF RaiseSend, listState, sentHist
  <2>2. caller \in Callers /\ (caller = "write" => writes # <<>>)
    BY <2>1 DEF TypeInv, SenderKnown, InSend
  <2>3. /\ Increasing(wire)'
        /\ \A i \in 1..Len(wire') :
             wire'[i] <= written' /\ Ahead(wire[i], dpc = "sent" /\ caller = "write")'
        /\ \A i, j \in 1..Len(writes') : i < j => writes'[i].val < writes'[j].val
        /\ \A j \in 1..Len(writes') : writes'[j].val <= written'
    BY <1>1, <2>1 DEF WireInv, Increasing, Ahead
  <2>4. CASE caller = "write"
    <3>1. frame' = writes[1] /\ 1 \in 1..Len(writes)
      BY <2>1, <2>2, <2>4, NumbersTyped DEF FrameToSend
    <3>2. frame'.val <= written' /\ \A i \in 1..Len(wire') : wire'[i] < frame'.val
      BY <1>1, <2>1, <3>1 DEF WireInv, Ahead
    <3>3. \A j \in 1..Len(writes) : j = 1 \/ 1 < j
      BY NumbersTyped
    <3>4. Ahead(frame.val, dpc \in {"sending", "sent"} /\ caller = "write")'
      BY <2>1, <2>4, <3>1, <3>3 DEF WireInv, Ahead
    <3>5. QED BY <2>3, <3>2, <3>4 DEF WireInv
  <2>5. CASE caller # "write"
    <3>1. frame'.type # "data"
      BY <2>1, <2>2, <2>5 DEF FrameToSend, Frame, Callers
    <3>2. ~WriteUnderWay'
      BY <3>1 DEF WriteUnderWay
    <3>3. QED BY <2>3, <3>2 DEF WireInv
  <2>6. QED BY <2>4, <2>5
<1>4. CASE SendReturns
  <2>1. /\ UNCHANGED <<caller, writes, written, frame, xop>> /\ phase' = Released
        /\ dpc \in {"send", "sending"} /\ dpc' = "sent"
    BY <1>4 DEF SendReturns, listState, sentHist
  <2>2. WriteUnderWay' => WriteUnderWay
    BY <1>2, <2>1 DEF WriteUnderWay, Released
  <2>3. QED BY <1>1, <2>1, <2>2, WireKept
<1>5. CASE DropSelectRecv
  <2>1. /\ UNCHANGED <<caller, writes, written, frame, xop>> /\ phase' = Released
        /\ dpc = "drop_sel"
    BY <1>5 DEF DropSelectRecv, listState, sentHist
  <2>2. WriteUnderWay' => WriteUnderWay
    BY <1>2, <2>1 DEF WriteUnderWay, Released
  <2>3. QED BY <1>1, <2>1, <2>2, WireKept
<1>6. CASE RaiseRecv
  <2>1. UNCHANGED <<caller, writes, written, frame>> /\ dpc = "recv" /\ ~WriteUnderWay'
    BY <1>6 DEF RaiseRecv, listState, sentHist, WriteUnderWay
  <2>2. QED BY <1>1, <2>1, WireKept
<1>7. CASE Written \/ WriteBufferError
  <2>1. /\ writes # <<>> /\ writes' = Tail(writes) /\ dpc' = "writes"
        /\ UNCHANGED <<written, frame, phase, xop>>
    BY <1>7 DEF Written, WriteBufferError, Sent, sentHist, port, TypeInv, SenderKnown, InSend
  <2>2. \A j \in 1..Len(writes') :
          j \in Nat /\ j > 0 /\ j + 1 \in 1..Len(writes) /\ writes'[j] = writes[j + 1]
    BY <2>1, WritesShorter
  <2>3. \A n : \A first : Ahead(n, first) => \A j \in 1..Len(writes') : n < writes'[j].val
    BY <2>2 DEF Ahead
  <2>4. \A j \in 1..Len(writes') : writes'[j].val <= written'
    BY <2>1, <2>2 DEF WireInv
  <2>5. \A i, j \in 1..Len(writes') : i < j => writes'[i].val < writes'[j].val
    BY <2>2 DEF WireInv
  <2>6. \A i \in 1..Len(wire') :
          wire'[i] <= written' /\ Ahead(wire[i], dpc = "sent" /\ caller = "write")'
    <3>1. \A i \in 1..Len(wire) :
            wire[i] <= written /\ \A j \in 1..Len(writes') : wire[i] < writes'[j].val
      BY <2>3 DEF WireInv
    <3>2. QED BY <1>1, <2>1, <3>1 DEF Ahead
  <2>7. ASSUME WriteUnderWay'
        PROVE  /\ frame'.val <= written'
               /\ \A i \in 1..Len(wire') : wire'[i] < frame'.val
               /\ Ahead(frame.val, dpc \in {"sending", "sent"} /\ caller = "write")'
    <3>1. WriteUnderWay
      BY <2>1, <2>7 DEF WriteUnderWay
    <3>2. /\ frame.val <= written
          /\ \A i \in 1..Len(wire) : wire[i] < frame.val
          /\ \A j \in 1..Len(writes') : frame.val < writes'[j].val
      BY <2>3, <3>1 DEF WireInv
    <3>3. QED BY <1>1, <2>1, <3>2 DEF Ahead
  <2>8. Increasing(wire)'
    BY <1>1 DEF WireInv, Increasing
  <2>9. QED BY <2>4, <2>5, <2>6, <2>7, <2>8 DEF WireInv
<1>8. CASE TakeRequest \/ Detached
  <2>1. /\ UNCHANGED writes \/ writes' = <<>>
        /\ UNCHANGED <<written, frame, phase, xop>>
        /\ ~(dpc \in {"sending", "sent"} /\ caller = "write")
    BY <1>8 DEF TakeRequest, Detached, Sent, sentHist, port
  <2>2. WriteUnderWay' => WriteUnderWay
    BY <2>1 DEF WriteUnderWay
  <2>3. QED BY <1>1, <2>1, <2>2, WireKept, WireEmptied
<1>9. CASE ClientWrite
  <2>1. /\ written' = written + 1
        /\ ~(dpc \in {"sending", "sent"} /\ caller = "write")
        /\ UNCHANGED <<dpc, caller, frame, phase, xop>>
    BY <1>9 DEF ClientWrite, WriteListHeld, port
  <2>2. PICK t \in WriteTypes : writes' = Append(writes, Frame(t, written'))
    BY <1>9 DEF ClientWrite
  <2>3. Frame(t, written') \in AllFrames /\ Frame(t, written').val = written + 1
    <3>1. written' \in Nat
      BY <2>1, NumbersTyped
    <3>2. QED BY <2>1, <3>1, FramesTyped, DriverAssumption DEF Frame
  <2>4. \A j \in 1..Len(writes') : \/ j \in 1..Len(writes) /\ writes'[j] = writes[j]
                                   \/ j = Len(writes) + 1 /\ writes'[j].val = written + 1
    BY <2>2, <2>3, WritesLonger, NumbersTyped
  <2>5. \A n \in Nat : \A first, other :
          n <= written /\ Ahead(n, first) /\ ~first => Ahead(n, other)'
    BY <2>4, NumbersTyped DEF Ahead
  <2>6. \A j \in 1..Len(writes') : writes'[j].val <= written'
    BY <2>1, <2>4, NumbersTyped DEF WireInv
  <2>7. \A i, j \in 1..Len(writes') : i < j => writes'[i].val < writes'[j].val
    <3>1. \A i \in 1..Len(writes) : writes[i].val < written + 1
      BY NumbersTyped DEF WireInv
    <3>2. \A i, j \in 1..Len(writes') : i < j => i \in 1..Len(writes)
      BY <2>4, NumbersTyped
    <3>3. SUFFICES ASSUME NEW i \in 1..Len(writes'), NEW j \in 1..Len(writes'), i < j
                   PROVE  writes'[i].val < writes'[j].val
      OBVIOUS
    <3>4. i \in 1..Len(writes) /\ writes'[i] = writes[i]
      BY <2>4, <3>2, <3>3, NumbersTyped
    <3>5. CASE j \in 1..Len(writes)
      <4>1. writes'[j] = writes[j]
        BY <2>4, <3>5, NumbersTyped
      <4>2. QED BY <3>3, <3>4, <3>5, <4>1 DEF WireInv
    <3>6. CASE j \notin 1..Len(writes)
      BY <2>4, <3>1, <3>4, <3>6
    <3>7. QED BY <3>5, <3>6
  <2>8. \A i \in 1..Len(wire') : wire'[i] <= written'
    BY <1>1, <2>1, NumbersTyped DEF WireInv
  <2>9. \A i \in 1..Len(wire') : Ahead(wire[i], dpc = "sent" /\ caller = "write")'
    BY <1>1, <2>1, <2>4, NumbersTyped DEF WireInv, Ahead
  <2>10. ASSUME WriteUnderWay'
         PROVE  /\ frame'.val <= written'
                /\ \A i \in 1..Len(wire') : wire'[i] < frame'.val
                /\ Ahead(frame.val, dpc \in {"sending", "sent"} /\ caller = "write")'
    <3>1. WriteUnderWay
      BY <2>1, <2>10 DEF WriteUnderWay
    <3>2. QED BY <1>1, <2>1, <2>4, <3>1, NumbersTyped DEF WireInv, Ahead
  <2>11. Increasing(wire)'
    BY <1>1 DEF WireInv, Increasing
  <2>12. QED BY <2>6, <2>7, <2>8, <2>9, <2>10, <2>11 DEF WireInv
<1>10. CASE \/ LoopHead \/ Wait \/ CheckReceive \/ RecvEnds \/ RecvExit \/ Received \/ Answered
            \/ NextWrite \/ NoRequest \/ RequestDropped \/ Attach \/ AttachFails \/ AttachReturns
            \/ DetachBegins \/ Interrupt \/ ClientRequest
  <2>1. UNCHANGED <<writes, written, frame, phase, xop>>
    BY <1>10
    DEF LoopHead, Wait, CheckReceive, RecvEnds, RecvExit, Received, Answered, NextWrite, NoRequest,
        RequestDropped, Attach, AttachFails, AttachReturns, DetachBegins, Interrupt, ClientRequest,
        listState, sentHist, port
  <2>2. \/ UNCHANGED <<dpc, caller>>
        \/ ~(dpc \in {"sending", "sent"} /\ caller = "write")
    BY <1>10
    DEF LoopHead, Wait, CheckReceive, RecvEnds, RecvExit, Received, Answered, NextWrite, NoRequest,
        RequestDropped, Attach, AttachFails, AttachReturns, DetachBegins, Interrupt, ClientRequest,
        Sent
  <2>3. WriteUnderWay' => WriteUnderWay
    BY <2>1 DEF WriteUnderWay
  <2>4. QED BY <1>1, <2>1, <2>2, <2>3, WireKept
<1> QED
  BY <1>3, <1>4, <1>5, <1>6, <1>7, <1>8, <1>9, <1>10 DEF ServerStep

\* Every step of the composed system keeps the numbers in order.
LEMMA WireNext == TypeInv /\ TransferInv /\ WireInv /\ [Next]_vars => WireInv'
<1> SUFFICES ASSUME TypeInv, TransferInv, WireInv, [Next]_vars PROVE WireInv'
  OBVIOUS
<1>1. CASE Next
  BY <1>1, BridgeWire, DriverWire DEF Next, AvrStep, AmigaTask, AmigaInterrupt, Environment
<1>2. CASE UNCHANGED vars
  <2>1. UNCHANGED <<wire, writes, written, frame, phase, xop, dpc, caller>>
    BY <1>2 DEF vars, port, avrVars, avrHist, driverVars, listState, sentHist
  <2>2. WriteUnderWay' => WriteUnderWay
    BY <2>1 DEF WriteUnderWay
  <2>3. QED BY <2>1, <2>2, WireKept
<1> QED
  BY <1>1, <1>2
----------------------------------------------------------------------------
(* Writes that were replied without an error *)

\* What the bridge has it keeps, or hands to the network.
LEMMA DeliveredKept ==
  ASSUME UNCHANGED wire, phase = "over" => phase' = "over" /\ UNCHANGED <<xop, frame>>, NEW n,
         Delivered(n)
  PROVE  Delivered(n)'
  BY DEF Delivered, OnWire

\* The write just sent is the only one that is not replied yet.
LEMMA OkKept ==
  ASSUME OkInv, UNCHANGED okWrites, \A n : Delivered(n) => Delivered(n)',
         dpc' = "sent" /\ caller' = "write" /\ rc' =>
           dpc = "sent" /\ caller = "write" /\ rc /\ UNCHANGED writes
  PROVE  OkInv'
<1>1. \A i \in 1..Len(okWrites') : Delivered(okWrites[i])'
  BY DEF OkInv
<1>2. ASSUME dpc' = "sent", caller' = "write", rc', Head(writes').type = "data"
      PROVE  Delivered(Head(writes).val)'
  BY <1>2 DEF OkInv
<1> QED
  BY <1>1, <1>2 DEF OkInv

\* The steps of the bridge.
LEMMA BridgeOk ==
  ASSUME TypeInv, OkInv, BridgeStep \/ Arrive \/ Restart, UNCHANGED driverVars
  PROVE  OkInv'
<1>1. UNCHANGED <<dpc, caller, rc, writes, okWrites>>
  BY DEF driverVars, listState, sentHist
<1>2. CASE \/ Worker \/ HandleNoCall \/ Flow \/ Arrive \/ Restart \/ MoveFrame \/ Poll
           \/ HandleCall
  <2>1. UNCHANGED wire /\ (phase = "over" => phase' = "over" /\ UNCHANGED <<xop, frame>>)
    BY <1>2
    DEF Worker, HandleNoCall, Flow, Arrive, Restart, MoveFrame, Poll, HandleCall, FillPkt, port,
        avrHist
  <2>2. QED BY <1>1, <2>1, DeliveredKept, OkKept
<1>3. CASE EndCommand
  <2>1. CASE UNCHANGED wire /\ ~(phase = "over" /\ xop = "send" /\ frame.type = "data")
    <3>1. \A n : Delivered(n) => Delivered(n)'
      BY <2>1 DEF Delivered, OnWire, Frame
    <3>2. QED BY <1>1, <3>1, OkKept
  <2>2. CASE wire' = Append(wire, frame.val)
    <3>1. /\ Len(wire') = Len(wire) + 1 /\ wire'[Len(wire) + 1] = frame.val
          /\ \A i \in 1..Len(wire) : wire'[i] = wire[i]
          /\ Len(wire) \in Nat
      BY <2>2, WireLonger, NumbersTyped
    <3>2. \A n : OnWire(n) => OnWire(n)'
      BY <3>1 DEF OnWire
    <3>3. OnWire(frame.val)'
      <4>1. frame' = frame
        BY <1>3 DEF EndCommand
      <4>2. QED BY <3>1, <4>1 DEF OnWire
    <3>4. \A n : Delivered(n) => OnWire(n) \/ n = frame.val
      BY DEF Delivered, Frame
    <3>5. \A n : Delivered(n) => Delivered(n)'
      <4>1. frame' = frame
        BY <1>3 DEF EndCommand
      <4>2. QED BY <3>1, <3>2, <3>4, <4>1 DEF Delivered, OnWire
    <3>6. QED BY <1>1, <3>5, OkKept
  <2>3. QED
    BY <1>3, <2>1, <2>2
    DEF EndCommand, ProcPkt, MagicOnline, MagicOffline, MagicLoopback, SendPacket
<1> QED
  BY <1>2, <1>3 DEF BridgeStep

\* The steps of the driver: a send that returns TRUE left its frame with the bridge.
LEMMA DriverOk ==
  ASSUME TypeInv, TransferInv, OkInv, ServerStep \/ Interrupt \/ ClientWrite \/ ClientRequest,
         UNCHANGED avrVars
  PROVE  OkInv'
<1>1. UNCHANGED wire
  BY DEF avrVars, avrHist
<1>2. /\ dpc \in DriverPcs /\ phase \in Phases /\ okWrites \in Seq(Nat)
      /\ writes \in Seq(AllFrames)
  BY DEF TypeInv, TypeOK, PortTypeOK, DriverTypeOK
<1>3. CASE SendReturns
  <2>1. /\ UNCHANGED <<caller, writes, okWrites, frame, xop>> /\ phase' = Released
        /\ dpc' = "sent"
        /\ rc' => dpc = "sending" /\ phase = "moved"
    BY <1>3 DEF SendReturns, listState, sentHist
  <2>2. phase = "over" => phase' = "over"
    BY <2>1 DEF Released
  <2>3. \A n : Delivered(n) => Delivered(n)'
    BY <1>1, <2>1, <2>2, DeliveredKept
  <2>4. ASSUME caller = "write", rc', Head(writes).type = "data"
        PROVE  Delivered(Head(writes).val)'
    <3>1. phase' = "over" /\ xop' = "send" /\ frame' = Head(writes) /\ writes # <<>>
      BY <2>1, <2>4 DEF Released, TransferInv, FrameToSend, TypeInv, SenderKnown, InSend
    <3>2. Head(writes) \in AllFrames
      BY <1>2, <3>1, QueueTyped
    <3>3. frame' = Frame("data", Head(writes).val)
      BY <2>4, <3>1, <3>2 DEF AllFrames, Frame
    <3>4. QED BY <2>1, <3>1, <3>3 DEF Delivered
  <2>5. QED BY <2>1, <2>3, <2>4 DEF OkInv
<1>4. CASE Written
  <2>1. dpc = "sent" /\ caller = "write" /\ dpc' = "writes" /\ UNCHANGED port
    BY <1>4 DEF Written, Sent
  <2>2. \A n : Delivered(n) => Delivered(n)'
    BY <1>1, <2>1, DeliveredKept DEF port
  <2>3. CASE UNCHANGED okWrites
    BY <2>1, <2>2, <2>3, OkKept
  <2>4. CASE /\ rc /\ Head(writes).type = "data"
             /\ okWrites' = Append(okWrites, Head(writes).val)
    <3>1. Head(writes).val \in Nat
      <4>1. writes # <<>>
        BY <2>1 DEF TypeInv, SenderKnown, InSend
      <4>2. QED BY <4>1, NumbersTyped
    <3>2. \A i \in 1..Len(okWrites') : \/ i \in 1..Len(okWrites) /\ okWrites'[i] = okWrites[i]
                                       \/ okWrites'[i] = Head(writes).val
      BY <1>2, <2>4, <3>1
    <3>3. Delivered(Head(writes).val)
      BY <2>1, <2>4 DEF OkInv
    <3>4. \A i \in 1..Len(okWrites') : Delivered(okWrites[i])'
      BY <2>2, <3>2, <3>3 DEF OkInv
    <3>5. QED BY <2>1, <3>4 DEF OkInv
  <2>5. QED BY <1>4, <2>3, <2>4 DEF Written
<1>5. CASE RaiseSend \/ RaiseRecv \/ DropSelectRecv
  <2>1. /\ UNCHANGED <<caller, rc, writes, okWrites>> /\ dpc' # "sent"
        /\ phase = "over" => phase' = "over" /\ UNCHANGED <<xop, frame>>
    BY <1>5 DEF RaiseSend, RaiseRecv, DropSelectRecv, Released, listState, sentHist
  <2>2. QED BY <1>1, <2>1, DeliveredKept, OkKept
<1>6. CASE \/ LoopHead \/ Wait \/ CheckReceive \/ RecvEnds \/ RecvExit \/ Received \/ Answered
           \/ NextWrite \/ WriteBufferError \/ NoRequest \/ RequestDropped \/ TakeRequest \/ Attach
           \/ AttachFails \/ AttachReturns \/ DetachBegins \/ Detached \/ Interrupt \/ ClientRequest
           \/ ClientWrite
  <2>1. UNCHANGED <<okWrites, frame, phase, xop>>
    BY <1>6
    DEF LoopHead, Wait, CheckReceive, RecvEnds, RecvExit, Received, Answered, NextWrite,
        WriteBufferError, NoRequest, RequestDropped, TakeRequest, Attach, AttachFails, AttachReturns,
        DetachBegins, Detached, Interrupt, ClientRequest, ClientWrite, sentHist, port
  <2>2. CASE dpc' # "sent"
    BY <1>1, <2>1, <2>2, DeliveredKept, OkKept
  <2>3. CASE dpc' = "sent"
    <3>1. Interrupt \/ ClientRequest \/ ClientWrite
      BY <1>6, <2>3
      DEF LoopHead, Wait, CheckReceive, RecvEnds, RecvExit, Received, Answered, NextWrite,
          WriteBufferError, NoRequest, RequestDropped, TakeRequest, Attach, AttachFails,
          AttachReturns, DetachBegins, Detached, SendFor, Sent
    <3>2. UNCHANGED <<dpc, caller, rc>> /\ (caller' = "write" => UNCHANGED writes)
      BY <2>3, <3>1 DEF Interrupt, ClientRequest, ClientWrite, WriteListHeld, listState
    <3>3. QED BY <1>1, <2>1, <3>2, DeliveredKept, OkKept
  <2>4. QED BY <2>2, <2>3
<1> QED
  BY <1>3, <1>4, <1>5, <1>6 DEF ServerStep

\* Every step of the composed system.
LEMMA OkNext == TypeInv /\ TransferInv /\ OkInv /\ [Next]_vars => OkInv'
<1> SUFFICES ASSUME TypeInv, TransferInv, OkInv, [Next]_vars PROVE OkInv'
  OBVIOUS
<1>1. CASE Next
  BY <1>1, BridgeOk, DriverOk DEF Next, AvrStep, AmigaTask, AmigaInterrupt, Environment
<1>2. CASE UNCHANGED vars
  <2>1. UNCHANGED <<wire, frame, phase, xop, dpc, caller, rc, writes, okWrites>>
    BY <1>2 DEF vars, port, avrVars, avrHist, driverVars, listState, sentHist
  <2>2. QED BY <2>1, DeliveredKept, OkKept
<1> QED
  BY <1>1, <1>2

\* The order of the writes and what their replies say are inductive with the transfer.
LEMMA WritesInvariance == Spec => [](TypeInv /\ TransferInv /\ WireInv /\ OkInv)
<1>1. Init => TypeInv /\ TransferInv /\ WireInv /\ OkInv
  BY TypeInit, TransferInit, WireInit
<1>2. TypeInv /\ TransferInv /\ WireInv /\ OkInv /\ [Next]_vars
        => (TypeInv /\ TransferInv /\ WireInv /\ OkInv)'
  BY TypeNext, TransferNext, WireNext, OkNext
<1> QED
  BY <1>1, <1>2, PTL DEF Spec

\* The packets of the clients reach the network in the order of their writes and none of them
\* twice, for any mixture of time-outs, requests and restarts: dowritereqs never sends again a
\* frame that timed out, and the bridge reads the one it has before the next is called.
THEOREM WritesInOrder == Spec => []WireInOrder
<1>1. WireInv => WireInOrder
  BY DEF WireInv, WireInOrder
<1> QED
  BY <1>1, WritesInvariance, PTL

\* A write that was replied without an error is on the network, or the bridge has moved all of
\* it and is about to send it: hw_send_frame returns TRUE only then.
THEOREM NoFalseReply == Spec => []OkOnWire
<1>1. OkInv => OkOnWire
  BY DEF OkInv, OkOnWire, Delivered, OnWire
<1> QED
  BY <1>1, WritesInvariance, PTL
----------------------------------------------------------------------------
(* What a plain setting is like *)

\* The initial state.
LEMMA PlainInit == Init => PlainInv /\ GotInv
  BY DEF Init, PortInit, BridgeInit, DriverInit, PlainInv, PlainTraffic, PlainSend, OneReceive,
         RequestAlive, Receiving, FrameTaken, GotInv, Increasing, Earlier

\* What the types say of the packets in the controller.
LEMMA RxTyped ==
  ASSUME TypeInv
  PROVE  /\ arrived \in Nat /\ Len(rx) \in Nat
         /\ \A j \in 1..Len(rx) : rx[j] \in AllFrames /\ rx[j].val \in Nat
         /\ rx # <<>> => Head(rx) = rx[1] /\ 1 \in 1..Len(rx)
<1>1. arrived \in Nat /\ rx \in Seq(AllFrames)
  BY DEF TypeInv, TypeOK, BridgeTypeOK
<1>2. /\ Len(rx) \in Nat
      /\ \A j \in 1..Len(rx) : rx[j] \in AllFrames
      /\ rx # <<>> => Head(rx) = rx[1] /\ 1 \in 1..Len(rx)
  BY <1>1
<1>3. \A f \in AllFrames : f.val \in Nat
  BY DEF AllFrames
<1> QED
  BY <1>1, <1>2, <1>3

\* The controller with one packet less, or as it is if it has none.
LEMMA RxShorter ==
  ASSUME TypeInv, NextPkt
  PROVE  /\ \A j \in 1..Len(rx') :
              j \in Nat /\ j > 0
              /\ \/ j + 1 \in 1..Len(rx) /\ rx'[j] = rx[j + 1]
                 \/ rx = <<>> /\ j \in 1..Len(rx) /\ rx'[j] = rx[j]
         /\ rx # <<>> /\ ringOk => rx' = Tail(rx) /\ ringOk'
<1>1. rx \in Seq(AllFrames)
  BY DEF TypeInv, TypeOK, BridgeTypeOK
<1>2. CASE rx = <<>>
  BY <1>1, <1>2 DEF NextPkt
<1>3. CASE rx # <<>>
  <2>1. rx' = Tail(rx) /\ (ringOk => ringOk')
    BY <1>3 DEF NextPkt, Readable
  <2>2. Len(rx') = Len(rx) - 1 /\ Len(rx) \in Nat
    BY <1>1, <1>3, <2>1
  <2>3. \A j \in 1..Len(rx') : j \in Nat /\ j > 0 /\ j + 1 \in 1..Len(rx) /\ rx'[j] = rx[j + 1]
    BY <1>1, <2>1, <2>2
  <2>4. QED BY <1>3, <2>1, <2>3
<1> QED
  BY <1>2, <1>3

\* The controller with one packet more.
LEMMA RxLonger ==
  ASSUME TypeInv, NEW f \in AllFrames, rx' = Append(rx, f)
  PROVE  /\ Len(rx') = Len(rx) + 1 /\ rx' # <<>>
         /\ \A j \in 1..Len(rx') : \/ j \in 1..Len(rx) /\ rx'[j] = rx[j]
                                   \/ j = Len(rx) + 1 /\ rx'[j] = f
<1>1. rx \in Seq(AllFrames)
  BY DEF TypeInv, TypeOK, BridgeTypeOK
<1> QED
  BY <1>1

\* The packets of the network stay what they are.
LEMMA BridgeTraffic ==
  ASSUME Plain, TypeInv, PlainTraffic, BridgeStep \/ Arrive \/ Restart, UNCHANGED driverVars
  PROVE  PlainTraffic'
<1>1. UNCHANGED <<requests, request, writes, offline>>
  BY DEF driverVars, listState
<1>2. \A i \in 1..Len(rx') : rx'[i].type = "data"
  <2>1. CASE UNCHANGED rx
    BY <2>1 DEF PlainTraffic
  <2>2. CASE rx' = <<>>
    BY <2>2
  <2>3. CASE NextPkt
    BY <2>3, RxShorter DEF PlainTraffic
  <2>4. CASE Arrive
    <3>1. arrived' \in Nat
      BY <2>4, RxTyped DEF Arrive
    <3>2. CASE \E t \in NetTypes : rx' = Append(rx, Frame(t, arrived'))
      <4>1. rx' = Append(rx, Frame("data", arrived'))
        BY <3>2 DEF Plain
      <4>2. Frame("data", arrived') \in AllFrames /\ Frame("data", arrived').type = "data"
        BY <3>1, FramesTyped DEF Frame
      <4>3. QED BY <4>1, <4>2, RxLonger DEF PlainTraffic
    <3>3. QED BY <2>1, <2>4, <3>2 DEF Arrive
  <2>5. QED
    BY <2>1, <2>2, <2>3, <2>4
    DEF BridgeStep, Worker, HandleNoCall, HandleCall, FillPkt, TakePacket, MoveFrame, EndCommand,
        ProcPkt, MagicOnline, MagicOffline, MagicLoopback, SendPacket, Poll, Flow, Restart,
        PioInit, chipState
<1> QED
  BY <1>1, <1>2 DEF PlainTraffic

\* The requests and writes of the clients: S2_OFFLINE rejects the writes in the list.
LEMMA DriverTraffic ==
  ASSUME Plain, TypeInv, AgreeInv, PlainTraffic,
         ServerStep \/ Interrupt \/ ClientWrite \/ ClientRequest, UNCHANGED avrVars
  PROVE  PlainTraffic'
<1>1. UNCHANGED rx
  BY DEF avrVars, chipState
<1>2. requests \in Seq(AllRequests)
  BY DEF TypeInv, TypeOK, DriverTypeOK
<1>3. CASE Written \/ WriteBufferError
  <2>1. writes # <<>> /\ writes' = Tail(writes) /\ UNCHANGED <<requests, request, offline>>
    BY <1>3 DEF Written, WriteBufferError, Sent, TypeInv, SenderKnown, InSend
  <2>2. \A i \in 1..Len(writes') : writes'[i].type = "data"
    BY <2>1, WritesShorter DEF PlainTraffic
  <2>3. QED BY <1>1, <2>1, <2>2 DEF PlainTraffic
<1>4. CASE ClientWrite
  <2>1. written' \in Nat /\ ~offline /\ UNCHANGED <<offline, requests, request>>
    BY <1>4, NumbersTyped DEF ClientWrite
  <2>2. writes' = Append(writes, Frame("data", written'))
    BY <1>4 DEF ClientWrite, Plain
  <2>3. Frame("data", written') \in AllFrames /\ Frame("data", written').type = "data"
    BY <2>1, FramesTyped DEF Frame
  <2>4. \A i \in 1..Len(writes') : writes'[i].type = "data"
    <3>1. /\ Len(writes') = Len(writes) + 1
          /\ writes'[Len(writes) + 1] = Frame("data", written')
          /\ \A j \in 1..Len(writes) : writes'[j] = writes[j]
      BY <2>2, <2>3, WritesLonger
    <3>2. QED BY <2>3, <3>1, NumbersTyped DEF PlainTraffic
  <2>5. QED BY <1>1, <2>1, <2>4 DEF PlainTraffic
<1>5. CASE ClientRequest
  <2>1. PICK r \in AllRequests : r.op \in Requests /\ requests' = <<r>>
    BY <1>5 DEF ClientRequest
  <2>2. \A i \in 1..Len(requests') : requests'[i].op # "config"
    BY <2>1 DEF Plain
  <2>3. UNCHANGED <<request, offline, writes>>
    BY <1>5 DEF ClientRequest
  <2>4. QED BY <1>1, <2>2, <2>3 DEF PlainTraffic
<1>6. CASE TakeRequest \/ RequestDropped
  <2>1. requests # <<>> /\ requests' = Tail(requests)
    BY <1>6 DEF TakeRequest, RequestDropped
  <2>2. Head(requests).op # "config"
    BY <1>2, <2>1 DEF PlainTraffic
  <2>3. \A i \in 1..Len(requests') : i + 1 \in 1..Len(requests) /\ requests'[i] = requests[i + 1]
    BY <1>2, <2>1
  <2>4. /\ UNCHANGED offline /\ (UNCHANGED writes \/ writes' = <<>>)
        /\ request' \in {request, "online", "offline"}
    BY <1>6, <2>2 DEF TakeRequest, RequestDropped
  <2>5. QED BY <1>1, <2>3, <2>4 DEF PlainTraffic
<1>7. CASE AttachReturns
  <2>1. offline /\ writes = <<>>
    BY <1>7 DEF AttachReturns, Sent, AgreeInv, Sending, PlainTraffic
  <2>2. UNCHANGED <<requests, writes>> /\ request' = "none"
    BY <1>7 DEF AttachReturns, listState
  <2>3. QED BY <1>1, <2>1, <2>2 DEF PlainTraffic
<1>8. CASE Detached
  <2>1. writes' = <<>> /\ request' = "none" /\ UNCHANGED requests
    BY <1>8 DEF Detached, PlainTraffic
  <2>2. QED BY <1>1, <2>1 DEF PlainTraffic
<1>9. CASE \/ LoopHead \/ Wait \/ CheckReceive \/ RaiseSend \/ SendReturns \/ RaiseRecv \/ RecvEnds
           \/ RecvExit \/ DropSelectRecv \/ Received \/ Answered \/ NextWrite \/ NoRequest \/ Attach
           \/ AttachFails \/ DetachBegins \/ Interrupt
  <2>1. UNCHANGED <<requests, offline, writes>> /\ request' \in {request, "none"}
    BY <1>9
    DEF LoopHead, Wait, CheckReceive, RaiseSend, SendReturns, RaiseRecv, RecvEnds, RecvExit,
        DropSelectRecv, Received, Answered, NextWrite, NoRequest, Attach, AttachFails, DetachBegins,
        Interrupt, listState
  <2>2. QED BY <1>1, <2>1 DEF PlainTraffic
<1> QED
  BY <1>3, <1>4, <1>5, <1>6, <1>7, <1>8, <1>9 DEF ServerStep

\* A driver that writes has a bridge that is online, unless the packet of attach waits.
LEMMA PlainOnline ==
  ASSUME AgreeInv, restarts = 0, ~offline, Sending("write")
  PROVE  online \/ OnlineUnderWay
  BY DEF AgreeInv, Settled, Reconfiguring, Sending

\* The steps of the bridge, which has not restarted: every receive it serves it asked for.
LEMMA BridgePlain ==
  ASSUME Plain, TypeInv, TransferInv, PlainInv, BridgeStep \/ Arrive \/ Restart,
         UNCHANGED driverVars, restarts' = 0
  PROVE  /\ restarts = 0
         /\ ~sendMagic' /\ ringOk' /\ caller' # "answer"
         /\ PlainSend' /\ OneReceive' /\ (FrameTaken' => frame'.type \in {"data", "junk"})
<1> USE DEF PlainSend, OneReceive, RequestAlive, Detaching, Sending, Receiving, FrameTaken, port,
            loopState, chipState, avrHist
<1>1. /\ phase \in Phases /\ xop \in {"send", "recv"} /\ restarts \in Nat /\ apc \in AvrPcs
      /\ {reqPending, flg, recvPending, online, offline} \subseteq BOOLEAN
  BY DEF TypeInv, TypeOK, PortTypeOK, BridgeTypeOK, DriverTypeOK
<1>2. UNCHANGED <<dpc, caller, rc, offline, recvPending, owned, cfgMac>>
  BY DEF driverVars, hwState, listState
<1>3. restarts = 0 /\ ~Restart
  <2>1. Restart => restarts' = restarts + 1
    BY DEF Restart
  <2>2. ~Restart
    BY <1>1, <2>1
  <2>3. BridgeStep \/ Arrive => UNCHANGED restarts
    BY DEF BridgeStep, Worker, HandleNoCall, HandleCall, MoveFrame, EndCommand, Poll, Flow, Arrive
  <2>4. QED BY <2>2, <2>3
<1>4. /\ ~sendMagic /\ ringOk /\ caller # "answer"
      /\ PlainSend /\ OneReceive /\ (FrameTaken => frame.type \in {"data", "junk"})
  BY <1>3 DEF PlainInv
<1>5. CASE Worker \/ HandleNoCall \/ Flow
  <2>1. UNCHANGED <<online, sendMagic, reqPending, mac, rx, ringOk, port>>
    BY <1>5 DEF Worker, HandleNoCall, Flow
  <2>2. QED BY <1>1, <1>2, <1>3, <1>4, <2>1
<1>6. CASE Arrive
  <2>1. rx # <<>> => rx' # <<>>
    <3>1. CASE \E t \in NetTypes : rx' = Append(rx, Frame(t, arrived'))
      <4>1. PICK t \in NetTypes : rx' = Append(rx, Frame(t, arrived'))
        BY <3>1
      <4>2. Frame(t, arrived') \in AllFrames
        BY <1>6, RxTyped, FramesTyped, BridgeAssumption DEF Arrive
      <4>3. QED BY <4>1, <4>2, RxLonger
    <3>2. QED BY <1>6, <3>1 DEF Arrive
  <2>2. UNCHANGED <<loopState, ringOk, port>>
    BY <1>6 DEF Arrive
  <2>3. QED BY <1>1, <1>2, <1>3, <1>4, <2>1, <2>2
<1>7. CASE HandleCall /\ xop = "send"
  <2>1. /\ phase = "called" /\ phase' = "taken"
        /\ UNCHANGED <<loopState, chipState, frame, flg, xop>>
    BY <1>7 DEF HandleCall
  <2>2. dpc = "sending"
    BY <1>7, <2>1 DEF TransferInv
  <2>3. QED BY <1>1, <1>2, <1>3, <1>4, <1>7, <2>1, <2>2
<1>8. CASE HandleCall /\ xop = "recv"
  <2>1. /\ phase = "called" /\ phase' = "taken" /\ ~reqPending'
        /\ UNCHANGED <<online, sendMagic, mac, flg, xop>> /\ TakePacket
    BY <1>4, <1>8 DEF HandleCall, FillPkt
  <2>2. dpc \in {"receiving", "recv_exit", "drop_sel"}
    BY <1>8, <2>1 DEF TransferInv
  <2>3. reqPending /\ ~flg /\ rx # <<>>
    BY <1>4, <1>8, <2>1, <2>2
  <2>4. frame' \in {Head(rx), Junk} /\ ringOk'
    <3>1. NextPkt /\ frame' \in PacketRead
      BY <2>1 DEF TakePacket
    <3>2. ringOk'
      BY <1>4, <2>3, <3>1, RxShorter
    <3>3. QED BY <1>4, <2>3, <3>1, <3>2 DEF PacketRead, Readable
  <2>5. frame'.type \in {"data", "junk"}
    <3>1. Head(rx).type = "data"
      BY <2>3, RxTyped DEF PlainInv, PlainTraffic
    <3>2. QED BY <2>4, <3>1 DEF Junk, Frame
  <2>6. QED BY <1>1, <1>2, <1>3, <1>4, <1>8, <2>1, <2>2, <2>3, <2>4, <2>5
<1>9. CASE MoveFrame
  BY <1>1, <1>2, <1>3, <1>4, <1>9 DEF MoveFrame
<1>10. CASE EndCommand
  <2>1. phase \in {"left", "over"} /\ phase' = "free" /\ UNCHANGED <<xop, frame>>
    BY <1>10 DEF EndCommand
  <2>2. recvPending => reqPending
    BY <1>4, <2>1
  <2>3. CASE UNCHANGED <<loopState, chipState, flg>>
    BY <1>1, <1>2, <1>3, <1>4, <2>1, <2>2, <2>3
  <2>4. CASE phase = "over" /\ xop = "send" /\ ProcPkt
    <3>1. frame.type \in {"data", "online", "offline"}
      BY <1>4, <2>4
    <3>2. CASE frame.type = "data"
      <4>1. UNCHANGED <<online, sendMagic, reqPending, mac, chipState, flg>>
        BY <1>4, <2>4, <3>2 DEF ProcPkt, SendPacket
      <4>2. QED BY <1>1, <1>2, <1>3, <1>4, <2>1, <2>2, <4>1
    <3>3. CASE frame.type = "online"
      <4>1. /\ online' /\ mac' = cfgMac /\ UNCHANGED <<sendMagic, reqPending, flg>>
            /\ IF online THEN UNCHANGED chipState ELSE UNCHANGED chipState \/ PioInit
        BY <1>4, <2>4, <3>3 DEF ProcPkt, MagicOnline
      <4>2. ringOk' /\ (RequestAlive => rx' # <<>>)
        BY <1>4, <4>1 DEF PioInit
      <4>3. QED BY <1>1, <1>2, <1>3, <1>4, <2>1, <2>2, <4>1, <4>2
    <3>4. CASE frame.type = "offline"
      <4>1. ~online' /\ UNCHANGED <<sendMagic, reqPending, mac, chipState, flg>>
        BY <2>4, <3>4 DEF ProcPkt, MagicOffline
      <4>2. Detaching \/ owned # 3 \/ (~flg /\ ~recvPending)
        BY <1>4, <2>4, <3>4
      <4>3. QED BY <1>1, <1>2, <1>3, <1>4, <2>1, <2>2, <4>1, <4>2
    <3>5. QED BY <3>1, <3>2, <3>3, <3>4
  <2>5. QED BY <1>10, <2>3, <2>4 DEF EndCommand
<1>11. CASE Poll
  <2>1. apc = "poll" /\ UNCHANGED <<online, sendMagic, mac, phase, xop, frame>>
    BY <1>11 DEF Poll
  <2>2. phase \notin {"taken", "moved", "left", "over"}
    BY <2>1 DEF TransferInv, InCommand
  <2>3. CASE UNCHANGED <<reqPending, flg, rx, ringOk>>
    BY <1>1, <1>2, <1>3, <1>4, <2>1, <2>3
  <2>4. CASE rx # <<>> /\ online /\ TriggerRequest /\ UNCHANGED <<rx, ringOk>>
    <3>1. reqPending' /\ (reqPending => UNCHANGED <<reqPending, flg>>) /\ (~reqPending => flg')
      BY <1>1, <2>4 DEF TriggerRequest
    <3>2. CASE reqPending
      BY <1>1, <1>2, <1>3, <1>4, <2>1, <2>4, <3>1, <3>2
    <3>3. CASE ~reqPending
      <4>1. ~recvPending /\ ~flg /\ (xop = "recv" => phase # "called")
        BY <1>1, <1>4, <2>2, <3>3
      <4>2. QED BY <1>1, <1>2, <1>3, <1>4, <2>1, <2>2, <2>4, <3>1, <3>3, <4>1
    <3>4. QED BY <3>2, <3>3
  <2>5. CASE rx # <<>> /\ ~online /\ NextPkt /\ UNCHANGED <<reqPending, flg>>
    <3>1. ringOk' /\ ~RequestAlive
      BY <1>4, <2>5, RxShorter
    <3>2. QED BY <1>1, <1>2, <1>3, <1>4, <2>1, <2>5, <3>1
  <2>6. QED BY <1>11, <2>3, <2>4, <2>5 DEF Poll
<1> QED
  BY <1>1, <1>3, <1>5, <1>6, <1>7, <1>8, <1>9, <1>10, <1>11 DEF BridgeStep

\* The steps of the driver: a receive begins with a request of the bridge and forgets it, and
\* the driver lets go of the port with all that was asked of it.
LEMMA DriverPlain ==
  ASSUME Plain, TypeInv, TransferInv, AgreeInv, PlainInv,
         ServerStep \/ Interrupt \/ ClientWrite \/ ClientRequest, UNCHANGED avrVars,
         restarts = 0
  PROVE  /\ ~sendMagic' /\ ringOk' /\ caller' # "answer"
         /\ PlainSend' /\ OneReceive' /\ (FrameTaken' => frame'.type \in {"data", "junk"})
<1> USE DEF PlainSend, OneReceive, RequestAlive, Detaching, Sending, Receiving, FrameTaken, port,
            hwState, listState, sentHist, SendFor, Sent
<1>1. /\ phase \in Phases /\ xop \in {"send", "recv"} /\ dpc \in DriverPcs
      /\ {reqPending, flg, recvPending, online, offline, rc} \subseteq BOOLEAN
  BY DEF TypeInv, TypeOK, PortTypeOK, BridgeTypeOK, DriverTypeOK
<1>2. UNCHANGED <<online, sendMagic, reqPending, mac, rx, ringOk>>
  BY DEF avrVars, loopState, chipState
<1>3. /\ ~sendMagic /\ ringOk /\ caller # "answer"
      /\ PlainSend /\ OneReceive /\ (FrameTaken => frame.type \in {"data", "junk"})
  BY DEF PlainInv
<1>4. TransferInv /\ request # "config"
  BY DEF PlainInv, PlainTraffic
<1>5. CASE RaiseSend
  <2>1. /\ frame' = FrameToSend /\ phase = "free" /\ phase' = "called" /\ xop' = "send"
        /\ dpc = "send" /\ dpc' = "sending" /\ owned = 3
        /\ UNCHANGED <<caller, rc, offline, recvPending, owned, writes, cfgMac, flg>>
    BY <1>5 DEF RaiseSend, Attached
  <2>2. caller \in {"write", "attach", "detach"} /\ (caller = "write" => writes # <<>>)
    BY <1>3, <2>1 DEF TypeInv, SenderKnown, InSend, Callers
  <2>3. CASE caller = "write"
    <3>1. frame' = writes[1] /\ 1 \in 1..Len(writes) /\ ~offline
      BY <2>1, <2>2, <2>3, NumbersTyped DEF FrameToSend, PlainInv, PlainTraffic
    <3>2. frame'.type = "data"
      BY <3>1 DEF PlainInv, PlainTraffic
    <3>3. online
      BY <2>1, <2>3, <3>1, PlainOnline DEF OnlineUnderWay
    <3>4. QED BY <1>1, <1>2, <1>3, <2>1, <2>3, <3>1, <3>2, <3>3
  <2>4. CASE caller = "attach"
    <3>1. frame'.type = "online" /\ frame'.val = cfgMac
      BY <2>1, <2>4 DEF FrameToSend, Frame
    <3>2. QED BY <1>1, <1>2, <1>3, <2>1, <2>4, <3>1
  <2>5. CASE caller = "detach"
    <3>1. frame'.type = "offline"
      BY <2>1, <2>5 DEF FrameToSend, Frame
    <3>2. QED BY <1>1, <1>2, <1>3, <2>1, <2>5, <3>1
  <2>6. QED BY <2>2, <2>3, <2>4, <2>5
<1>6. CASE SendReturns
  <2>1. /\ dpc \in {"send", "sending"} /\ dpc' = "sent" /\ phase' = Released
        /\ UNCHANGED <<caller, offline, recvPending, owned, cfgMac, frame, xop, flg>>
    BY <1>6 DEF SendReturns
  <2>2. phase \in {"called", "taken", "moved"} => xop = "send"
    BY <1>4, <2>1 DEF TransferInv
  <2>3. /\ phase \in {"called", "taken", "moved"} => phase' \in {"free", "left", "over"}
        /\ phase \in {"free", "left", "over"} => phase' = phase
        /\ phase' = "over" => phase \in {"moved", "over"}
    BY <2>1 DEF Released
  <2>4. QED BY <1>1, <1>2, <1>3, <2>1, <2>2, <2>3 DEF Phases
<1>7. CASE RaiseRecv
  <2>1. recvPending /\ reqPending /\ ~flg
    BY <1>1, <1>3, <1>7 DEF RaiseRecv
  <2>2. QED BY <1>1, <1>2, <1>3, <1>7, <2>1 DEF RaiseRecv, Attached
<1>8. CASE RecvEnds
  <2>1. /\ dpc \in {"recv", "receiving"} /\ dpc' = "recv_exit"
        /\ rc' => dpc = "receiving" /\ phase = "moved"
        /\ UNCHANGED <<caller, offline, recvPending, owned, cfgMac, phase, xop, frame, flg>>
    BY <1>8 DEF RecvEnds
  <2>2. QED BY <1>1, <1>2, <1>3, <2>1
<1>9. CASE RecvExit
  BY <1>1, <1>2, <1>3, <1>9 DEF RecvExit
<1>10. CASE DropSelectRecv
  <2>1. /\ dpc = "drop_sel" /\ dpc' = "received" /\ phase' = Released
        /\ UNCHANGED <<caller, rc, offline, recvPending, owned, cfgMac, xop, frame, flg>>
    BY <1>10 DEF DropSelectRecv
  <2>2. phase \in {"called", "taken", "moved"} => xop = "recv"
    BY <1>4, <2>1 DEF TransferInv
  <2>3. /\ phase \in {"called", "taken", "moved"} => phase' \in {"free", "left", "over"}
        /\ phase \in {"free", "left", "over"} => phase' = phase
        /\ phase' = "over" => phase \in {"moved", "over"}
    BY <2>1 DEF Released
  <2>4. QED BY <1>1, <1>2, <1>3, <2>1, <2>2, <2>3 DEF Phases
<1>11. CASE Received
  BY <1>1, <1>2, <1>3, <1>11 DEF Received
<1>12. CASE LoopHead \/ Wait \/ CheckReceive
  <2>1. /\ dpc \in {"head", "wait", "check"} /\ dpc' \in {"wait", "check", "recv", "writes"}
        /\ dpc' = "recv" => recvPending
        /\ UNCHANGED <<caller, rc, offline, recvPending, owned, cfgMac, phase, xop, frame, flg>>
    BY <1>12 DEF LoopHead, Wait, CheckReceive
  <2>2. QED BY <1>1, <1>2, <1>3, <2>1
<1>13. CASE NextWrite \/ WriteBufferError \/ Written \/ NoRequest \/ RequestDropped
  <2>1. /\ dpc \in {"writes", "sent", "port"} /\ dpc' \in {"writes", "port", "send", "head"}
        /\ dpc = "sent" => caller = "write"
        /\ dpc' = "send" => caller' = "write"
        /\ caller' \in {caller, "none", "write"}
        /\ UNCHANGED <<offline, recvPending, owned, cfgMac, phase, xop, frame, flg>>
    BY <1>13 DEF NextWrite, WriteBufferError, Written, NoRequest, RequestDropped
  <2>2. QED BY <1>1, <1>2, <1>3, <2>1
<1>14. CASE TakeRequest
  <2>1. requests # <<>> /\ Head(requests).op # "config"
    <3>1. requests \in Seq(AllRequests) /\ requests # <<>>
      BY <1>14 DEF TakeRequest, TypeInv, TypeOK, DriverTypeOK
    <3>2. QED BY <3>1 DEF PlainInv, PlainTraffic
  <2>2. /\ dpc = "port" /\ dpc' \in {"port", "attach", "detach"} /\ ~recvPending
        /\ UNCHANGED <<caller, rc, offline, recvPending, owned, cfgMac, phase, xop, frame, flg>>
    BY <1>14, <2>1 DEF TakeRequest
  <2>3. QED BY <1>1, <1>2, <1>3, <2>2
<1>15. CASE Attach
  BY <1>1, <1>2, <1>3, <1>15 DEF Attach
<1>16. CASE AttachFails
  <2>1. /\ dpc = "attach" /\ dpc' = "port" /\ (owned' # owned => owned' # 3)
        /\ UNCHANGED <<caller, rc, offline, recvPending, cfgMac, phase, xop, frame, flg>>
    BY <1>16 DEF AttachFails
  <2>2. phase \in {"called", "taken", "moved"} => FALSE
    BY <1>4, <2>1 DEF TransferInv
  <2>3. QED BY <1>1, <1>2, <1>3, <2>1, <2>2
<1>17. CASE AttachReturns
  <2>1. /\ dpc = "sent" /\ caller = "attach" /\ dpc' = "port" /\ caller' = "none"
        /\ UNCHANGED <<recvPending, owned, cfgMac, phase, xop, frame, flg>>
    BY <1>17 DEF AttachReturns
  <2>2. QED BY <1>1, <1>2, <1>3, <2>1
<1>18. CASE DetachBegins
  <2>1. /\ dpc = "detach" /\ dpc' = "send" /\ caller' = "detach"
        /\ UNCHANGED <<recvPending, owned, cfgMac, phase, xop, frame, flg>>
    BY <1>18 DEF DetachBegins
  <2>2. QED BY <1>1, <1>2, <1>3, <2>1
<1>19. CASE Detached
  <2>1. /\ dpc = "sent" /\ dpc' = "port" /\ caller' = "none" /\ owned' = 0 /\ ~flg'
        /\ UNCHANGED <<recvPending, cfgMac, phase, xop, frame>>
    BY <1>4, <1>19 DEF Detached
  <2>2. phase \in {"called", "taken", "moved"} => FALSE
    BY <1>4, <2>1 DEF TransferInv
  <2>3. QED BY <1>1, <1>2, <1>3, <2>1, <2>2
<1>20. CASE Interrupt
  <2>1. flg /\ ~flg' /\ recvPending' /\ owned = 3
        /\ UNCHANGED <<dpc, caller, rc, offline, owned, cfgMac, phase, xop, frame>>
    BY <1>20 DEF Interrupt, InterruptDue, InterruptSignals, Attached
  <2>2. dpc = "drop_sel" => phase \notin {"called", "taken", "moved"}
    BY <1>3, <1>4, <2>1 DEF TransferInv
  <2>3. QED BY <1>1, <1>2, <1>3, <2>1, <2>2
<1>21. CASE ClientWrite \/ ClientRequest
  <2>1. UNCHANGED <<dpc, caller, rc, offline, recvPending, owned, cfgMac, phase, xop, frame, flg>>
    BY <1>21 DEF ClientWrite, ClientRequest
  <2>2. QED BY <1>1, <1>2, <1>3, <2>1
<1>22. CASE Answered
  BY <1>3, <1>22 DEF Answered
<1> QED
  BY <1>5, <1>6, <1>7, <1>8, <1>9, <1>10, <1>11, <1>12, <1>13, <1>14, <1>15, <1>16, <1>17, <1>18,
     <1>19, <1>20, <1>21, <1>22 DEF ServerStep

\* Every step of the composed system, in a plain setting.
LEMMA PlainNext ==
  Plain /\ TypeInv /\ TransferInv /\ AgreeInv /\ PlainInv /\ [Next]_vars => PlainInv'
<1> SUFFICES ASSUME Plain, TypeInv, TransferInv, AgreeInv, PlainInv, [Next]_vars PROVE PlainInv'
  OBVIOUS
<1>1. CASE (BridgeStep \/ Arrive \/ Restart) /\ UNCHANGED driverVars
  BY <1>1, BridgeTraffic, BridgePlain DEF PlainInv
<1>2. CASE (ServerStep \/ Interrupt \/ ClientWrite \/ ClientRequest) /\ UNCHANGED avrVars
  <2>1. UNCHANGED restarts
    BY <1>2 DEF avrVars, avrHist
  <2>2. QED BY <1>2, <2>1, DriverTraffic, DriverPlain DEF PlainInv
<1>3. CASE UNCHANGED vars
  BY <1>3 DEF vars, port, avrVars, loopState, chipState, avrHist, driverVars, hwState, listState,
              PlainInv, PlainTraffic, PlainSend, OneReceive, RequestAlive, Detaching, Sending,
              Receiving, FrameTaken
<1> QED
  BY <1>1, <1>2, <1>3 DEF Next, AvrStep, AmigaTask, AmigaInterrupt, Environment
----------------------------------------------------------------------------
(* The order of the packets received *)

\* What the types say of the readers' packets.
LEMMA GotTyped ==
  ASSUME TypeInv
  PROVE  Len(got) \in Nat /\ (\A i \in 1..Len(got) : got[i] \in Nat) /\ frame.val \in Nat
<1>1. got \in Seq(Nat)
  BY DEF TypeInv, TypeOK, DriverTypeOK
<1> QED
  BY <1>1, NumbersTyped

\* A step that changes no packets and takes no frame.
LEMMA GotKept ==
  ASSUME GotInv, UNCHANGED <<rx, got, arrived>>, restarts' = 0 => restarts = 0,
         FrameTaken' => FrameTaken /\ UNCHANGED frame
  PROVE  GotInv'
  BY DEF GotInv, Increasing, Earlier

\* A step that empties the controller.
LEMMA GotEmptied ==
  ASSUME GotInv, UNCHANGED <<got, arrived>>, rx' = <<>>, restarts' = 0 => restarts = 0,
         FrameTaken' => FrameTaken /\ UNCHANGED frame
  PROVE  GotInv'
<1>1. Len(rx') = 0
  OBVIOUS
<1> QED
  BY <1>1 DEF GotInv, Increasing, Earlier

\* Dropping the first packet leaves those behind it in order.
LEMMA RxDropped ==
  ASSUME TypeInv, GotInv, NextPkt, UNCHANGED arrived
  PROVE  /\ \A j \in 1..Len(rx') : rx'[j].val <= arrived'
         /\ \A i, j \in 1..Len(rx') : i < j => rx'[i].val < rx'[j].val
         /\ \A n : Earlier(n) => Earlier(n)'
         /\ rx # <<>> => \A j \in 1..Len(rx') : rx[1].val < rx'[j].val
<1>1. \A j \in 1..Len(rx') :
        j \in Nat /\ j > 0
        /\ \/ j + 1 \in 1..Len(rx) /\ rx'[j] = rx[j + 1]
           \/ rx = <<>> /\ j \in 1..Len(rx) /\ rx'[j] = rx[j]
  BY RxShorter
<1>2. \A j \in 1..Len(rx') : rx'[j].val <= arrived'
  BY <1>1 DEF GotInv
<1>3. \A i, j \in 1..Len(rx') : i < j => rx'[i].val < rx'[j].val
  BY <1>1 DEF GotInv
<1>4. \A n : Earlier(n) => Earlier(n)'
  BY <1>1 DEF Earlier
<1>5. ASSUME rx # <<>>, NEW j \in 1..Len(rx') PROVE rx[1].val < rx'[j].val
  <2>1. j \in Nat /\ j > 0 /\ j + 1 \in 1..Len(rx) /\ rx'[j] = rx[j + 1]
    BY <1>1, <1>5
  <2>2. 1 \in 1..Len(rx) /\ 1 < j + 1
    BY <1>5, <2>1, RxTyped
  <2>3. QED BY <2>1, <2>2 DEF GotInv
<1> QED
  BY <1>2, <1>3, <1>4, <1>5

\* The steps of the bridge and the network: packets arrive with a higher number than all, and
\* the first of the controller is given to the driver.
LEMMA BridgeGot ==
  ASSUME Plain, TypeInv, TransferInv, PlainInv, GotInv, BridgeStep \/ Arrive \/ Restart,
         UNCHANGED driverVars
  PROVE  GotInv'
<1>1. UNCHANGED <<dpc, rc, got>>
  BY DEF driverVars, sentHist
<1>2. CASE Worker \/ HandleNoCall \/ Flow \/ MoveFrame
  <2>1. UNCHANGED <<rx, arrived, restarts, frame>> /\ (FrameTaken' => FrameTaken)
    BY <1>1, <1>2
    DEF Worker, HandleNoCall, Flow, MoveFrame, chipState, avrHist, port, FrameTaken
  <2>2. QED BY <1>1, <2>1, GotKept
<1>3. CASE Restart
  <2>1. restarts' # 0 /\ UNCHANGED arrived /\ rx' = <<>>
    <3>1. restarts \in Nat
      BY DEF TypeInv, TypeOK, BridgeTypeOK
    <3>2. QED BY <1>3, <3>1 DEF Restart, PioInit
  <2>2. Len(rx') = 0
    BY <2>1
  <2>3. QED BY <2>1, <2>2 DEF GotInv
<1>4. CASE Arrive
  <2>1. /\ arrived' = arrived + 1 /\ arrived' \in Nat
        /\ UNCHANGED <<restarts, frame>> /\ (FrameTaken' => FrameTaken)
    BY <1>1, <1>4, RxTyped DEF Arrive, port, FrameTaken
  <2>2. \A j \in 1..Len(rx') : \/ j \in 1..Len(rx) /\ rx'[j] = rx[j]
                               \/ j = Len(rx) + 1 /\ rx'[j].val = arrived + 1
    <3>1. CASE UNCHANGED rx
      BY <3>1
    <3>2. CASE \E t \in NetTypes : rx' = Append(rx, Frame(t, arrived'))
      <4>1. PICK t \in NetTypes : rx' = Append(rx, Frame(t, arrived'))
        BY <3>2
      <4>2. Frame(t, arrived') \in AllFrames /\ Frame(t, arrived').val = arrived + 1
        BY <2>1, FramesTyped, BridgeAssumption DEF Frame
      <4>3. QED BY <4>1, <4>2, RxLonger
    <3>3. QED BY <1>4, <3>1, <3>2 DEF Arrive
  <2>3. \A j \in 1..Len(rx') : rx'[j].val <= arrived'
    BY <2>1, <2>2, RxTyped DEF GotInv
  <2>4. ASSUME NEW i \in 1..Len(rx'), NEW j \in 1..Len(rx'), i < j
        PROVE  rx'[i].val < rx'[j].val
    <3>1. i \in 1..Len(rx) /\ rx'[i] = rx[i]
      <4>1. j <= Len(rx) + 1
        BY <2>2, RxTyped
      <4>2. QED BY <2>2, <2>4, <4>1, RxTyped
    <3>2. CASE j \in 1..Len(rx)
      <4>1. rx'[j] = rx[j]
        BY <2>2, <3>2, RxTyped
      <4>2. QED BY <2>4, <3>1, <3>2, <4>1 DEF GotInv
    <3>3. CASE j \notin 1..Len(rx)
      <4>1. rx'[j].val = arrived + 1 /\ rx[i].val <= arrived
        BY <2>2, <3>1, <3>3 DEF GotInv
      <4>2. QED BY <3>1, <4>1, RxTyped
    <3>4. QED BY <3>2, <3>3
  <2>5. \A n \in Nat : n <= arrived /\ Earlier(n) => n <= arrived' /\ Earlier(n)'
    BY <2>1, <2>2, RxTyped DEF Earlier
  <2>6. ASSUME restarts' = 0
        PROVE  /\ Increasing(got)'
               /\ \A i \in 1..Len(got') : got'[i] <= arrived' /\ Earlier(got[i])'
    <3>1. \A i \in 1..Len(got) : got[i] \in Nat /\ got[i] <= arrived /\ Earlier(got[i])
      BY <2>1, <2>6, GotTyped DEF GotInv
    <3>2. \A i \in 1..Len(got) : got[i] <= arrived' /\ \A j \in 1..Len(rx') : got[i] < rx'[j].val
      BY <2>5, <3>1 DEF Earlier
    <3>3. QED BY <1>1, <2>1, <2>6, <3>2 DEF GotInv, Increasing, Earlier
  <2>7. ASSUME restarts' = 0, FrameTaken', frame'.type = "data"
        PROVE  /\ frame'.val <= arrived'
               /\ \A i \in 1..Len(got') : got'[i] < frame'.val
               /\ Earlier(frame.val)'
    <3>1. /\ frame.val \in Nat /\ frame.val <= arrived /\ Earlier(frame.val)
          /\ \A i \in 1..Len(got) : got[i] < frame.val
      BY <2>1, <2>7, GotTyped DEF GotInv
    <3>2. frame.val <= arrived' /\ \A j \in 1..Len(rx') : frame.val < rx'[j].val
      BY <2>5, <3>1 DEF Earlier
    <3>3. QED BY <1>1, <2>1, <3>1, <3>2 DEF Earlier
  <2>8. QED BY <2>3, <2>4, <2>6, <2>7 DEF GotInv
<1>5. CASE HandleCall /\ xop = "send"
  <2>1. /\ phase = "called" /\ phase' = "taken"
        /\ UNCHANGED <<rx, arrived, restarts, frame>>
    BY <1>5 DEF HandleCall, chipState
  <2>2. dpc = "sending"
    BY <1>5, <2>1 DEF TransferInv
  <2>3. QED BY <1>1, <2>1, <2>2, GotKept DEF FrameTaken
<1>6. CASE HandleCall /\ xop # "send" /\ restarts # 0
  <2>1. UNCHANGED <<arrived, restarts>> /\ FillPkt
    BY <1>6 DEF HandleCall
  <2>2. CASE UNCHANGED rx
    BY <1>6, <2>1, <2>2 DEF GotInv
  <2>3. CASE NextPkt
    BY <1>6, <2>1, <2>3, RxDropped DEF GotInv
  <2>4. QED BY <2>1, <2>2, <2>3 DEF FillPkt, TakePacket
<1>7. CASE HandleCall /\ xop # "send" /\ restarts = 0
  <2>1. /\ phase = "called" /\ xop = "recv" /\ ~sendMagic /\ reqPending /\ rx # <<>> /\ ringOk
    BY <1>7 DEF HandleCall, PlainInv, OneReceive, RequestAlive, Detaching, Sending, TransferInv
  <2>2. UNCHANGED <<arrived, restarts>> /\ NextPkt /\ frame' \in {rx[1], Junk}
    BY <1>7, <2>1, RxTyped DEF HandleCall, FillPkt, TakePacket, PacketRead, Readable
  <2>3. /\ \A j \in 1..Len(rx') : rx'[j].val <= arrived'
        /\ \A i, j \in 1..Len(rx') : i < j => rx'[i].val < rx'[j].val
        /\ \A n : Earlier(n) => Earlier(n)'
        /\ \A j \in 1..Len(rx') : rx[1].val < rx'[j].val
    BY <2>1, <2>2, RxDropped
  <2>4. /\ Increasing(got)'
        /\ \A i \in 1..Len(got') : got'[i] <= arrived' /\ Earlier(got[i])'
    <3>1. \A i \in 1..Len(got) : got[i] <= arrived /\ Earlier(got[i])
      BY <1>7 DEF GotInv
    <3>2. \A i \in 1..Len(got) : got[i] <= arrived' /\ \A j \in 1..Len(rx') : got[i] < rx'[j].val
      BY <2>2, <2>3, <3>1 DEF Earlier
    <3>3. QED BY <1>1, <1>7, <3>2 DEF GotInv, Increasing, Earlier
  <2>5. ASSUME frame'.type = "data"
        PROVE  /\ frame'.val <= arrived'
               /\ \A i \in 1..Len(got') : got'[i] < frame'.val
               /\ Earlier(frame.val)'
    <3>1. frame' = rx[1] /\ 1 \in 1..Len(rx)
      BY <2>1, <2>2, <2>5, RxTyped DEF Junk, Frame
    <3>2. rx[1].val <= arrived /\ \A i \in 1..Len(got) : got[i] < rx[1].val
      BY <1>7, <3>1 DEF GotInv, Earlier
    <3>3. QED BY <1>1, <2>2, <2>3, <3>1, <3>2 DEF Earlier
  <2>6. QED BY <2>3, <2>4, <2>5 DEF GotInv
<1>8. CASE EndCommand
  <2>1. UNCHANGED <<arrived, restarts, frame>> /\ phase' = "free" /\ (UNCHANGED rx \/ rx' = <<>>)
    BY <1>8
    DEF EndCommand, ProcPkt, MagicOnline, MagicOffline, MagicLoopback, SendPacket, PioInit, chipState
  <2>2. FrameTaken' => FrameTaken
    BY <1>1, <2>1 DEF FrameTaken
  <2>3. QED BY <1>1, <2>1, <2>2, GotKept, GotEmptied
<1>9. CASE Poll
  <2>1. UNCHANGED <<arrived, restarts, frame, phase>>
    BY <1>9 DEF Poll, avrHist
  <2>2. FrameTaken' => FrameTaken
    BY <1>1, <2>1 DEF FrameTaken
  <2>3. CASE UNCHANGED rx
    BY <1>1, <2>1, <2>2, <2>3, GotKept
  <2>4. CASE NextPkt
    <3>1. /\ \A j \in 1..Len(rx') : rx'[j].val <= arrived'
          /\ \A i, j \in 1..Len(rx') : i < j => rx'[i].val < rx'[j].val
          /\ \A n : Earlier(n) => Earlier(n)'
      BY <2>1, <2>4, RxDropped
    <3>2. ASSUME restarts = 0
          PROVE  /\ Increasing(got)'
                 /\ \A i \in 1..Len(got') : got'[i] <= arrived' /\ Earlier(got[i])'
      <4>1. \A i \in 1..Len(got) : got[i] <= arrived /\ Earlier(got[i])
        BY <3>2 DEF GotInv
      <4>2. \A i \in 1..Len(got) : \A j \in 1..Len(rx') : got[i] < rx'[j].val
        BY <3>1, <4>1 DEF Earlier
      <4>3. QED BY <1>1, <2>1, <3>2, <4>1, <4>2 DEF GotInv, Increasing, Earlier
    <3>3. ASSUME restarts = 0, FrameTaken, frame.type = "data"
          PROVE  /\ frame'.val <= arrived'
                 /\ \A i \in 1..Len(got') : got'[i] < frame'.val
                 /\ Earlier(frame.val)'
      <4>1. /\ frame.val <= arrived /\ Earlier(frame.val)
            /\ \A i \in 1..Len(got) : got[i] < frame.val
        BY <3>3 DEF GotInv
      <4>2. \A j \in 1..Len(rx') : frame.val < rx'[j].val
        BY <3>1, <4>1 DEF Earlier
      <4>3. QED BY <1>1, <2>1, <4>1, <4>2 DEF Earlier
    <3>4. QED BY <2>1, <2>2, <3>1, <3>2, <3>3 DEF GotInv
  <2>5. QED BY <1>9, <2>3, <2>4 DEF Poll
<1> QED
  BY <1>2, <1>3, <1>4, <1>5, <1>6, <1>7, <1>8, <1>9 DEF BridgeStep

\* The steps of the driver: the frame it took goes to a reader, once.
LEMMA DriverGot ==
  ASSUME TypeInv, GotInv, ServerStep \/ Interrupt \/ ClientWrite \/ ClientRequest,
         UNCHANGED avrVars
  PROVE  GotInv'
<1>1. UNCHANGED <<rx, arrived, restarts>>
  BY DEF avrVars, chipState, avrHist
<1>2. dpc \in DriverPcs /\ phase \in Phases
  BY DEF TypeInv, TypeOK, PortTypeOK, DriverTypeOK
<1>3. CASE Received
  <2>1. dpc = "received" /\ ~FrameTaken' /\ UNCHANGED frame
    BY <1>3 DEF Received, SendFor, FrameTaken, port
  <2>2. CASE UNCHANGED got
    BY <1>1, <2>1, <2>2, GotKept
  <2>3. CASE rc /\ frame.type = "data" /\ got' = Append(got, frame.val)
    <3>1. \A i \in 1..Len(got') : \/ i \in 1..Len(got) /\ got'[i] = got[i]
                                  \/ i = Len(got) + 1 /\ got'[i] = frame.val
      <4>1. got \in Seq(Nat) /\ frame.val \in Nat
        BY GotTyped DEF TypeInv, TypeOK, DriverTypeOK
      <4>2. QED BY <2>3, <4>1
    <3>2. ASSUME restarts = 0
          PROVE  /\ frame.val <= arrived /\ Earlier(frame.val)
                 /\ \A i \in 1..Len(got) : got[i] < frame.val /\ got[i] <= arrived /\ Earlier(got[i])
      BY <2>1, <2>3, <3>2 DEF GotInv, FrameTaken
    <3>3. restarts = 0 => Increasing(got)'
      BY <3>1, <3>2, GotTyped DEF GotInv, Increasing
    <3>4. restarts = 0 => \A i \in 1..Len(got') : got'[i] <= arrived' /\ Earlier(got[i])'
      BY <1>1, <3>1, <3>2 DEF Earlier
    <3>5. QED BY <1>1, <2>1, <3>3, <3>4 DEF GotInv
  <2>4. QED BY <1>3, <2>2, <2>3 DEF Received
<1>4. CASE RaiseSend \/ RaiseRecv
  <2>1. UNCHANGED got /\ ~FrameTaken'
    BY <1>4 DEF RaiseSend, RaiseRecv, FrameTaken, sentHist
  <2>2. QED BY <1>1, <2>1, GotKept
<1>5. CASE RecvEnds \/ RecvExit \/ DropSelectRecv
  <2>1. UNCHANGED <<got, frame>> /\ (FrameTaken' => FrameTaken)
    BY <1>2, <1>5 DEF RecvEnds, RecvExit, DropSelectRecv, FrameTaken, sentHist, port
  <2>2. QED BY <1>1, <2>1, GotKept
<1>6. CASE \/ LoopHead \/ Wait \/ CheckReceive \/ SendReturns \/ Answered \/ NextWrite
           \/ WriteBufferError \/ Written \/ NoRequest \/ RequestDropped \/ TakeRequest \/ Attach
           \/ AttachFails \/ AttachReturns \/ DetachBegins \/ Detached
  <2>1. /\ UNCHANGED <<got, frame>>
        /\ dpc' \notin {"receiving", "recv_exit", "drop_sel", "received"}
    BY <1>6
    DEF LoopHead, Wait, CheckReceive, SendReturns, Answered, NextWrite, WriteBufferError, Written,
        NoRequest, RequestDropped, TakeRequest, Attach, AttachFails, AttachReturns, DetachBegins,
        Detached, SendFor, Sent, sentHist, port
  <2>2. QED BY <1>1, <2>1, GotKept DEF FrameTaken
<1>7. CASE Interrupt \/ ClientWrite \/ ClientRequest
  <2>1. UNCHANGED <<got, frame, dpc, rc, phase>>
    BY <1>7 DEF Interrupt, ClientWrite, ClientRequest, sentHist, port
  <2>2. QED BY <1>1, <2>1, GotKept DEF FrameTaken
<1> QED
  BY <1>3, <1>4, <1>5, <1>6, <1>7 DEF ServerStep

\* Every step of the composed system, in a plain setting.
LEMMA GotNext ==
  Plain /\ TypeInv /\ TransferInv /\ PlainInv /\ GotInv /\ [Next]_vars => GotInv'
<1> SUFFICES ASSUME Plain, TypeInv, TransferInv, PlainInv, GotInv, [Next]_vars PROVE GotInv'
  OBVIOUS
<1>1. CASE Next
  BY <1>1, BridgeGot, DriverGot DEF Next, AvrStep, AmigaTask, AmigaInterrupt, Environment
<1>2. CASE UNCHANGED vars
  <2>1. UNCHANGED <<rx, got, arrived, restarts, frame, phase, dpc, rc>>
    BY <1>2 DEF vars, port, avrVars, chipState, avrHist, driverVars, sentHist
  <2>2. QED BY <2>1, GotKept DEF FrameTaken
<1> QED
  BY <1>1, <1>2

\* Packets reach the readers in the order of their arrival and none of them twice, as long as
\* the bridge did not restart: a receive of the driver is one that the bridge asked for, with
\* a packet in its ring, even when transfers time out and the driver goes offline and online
\* again.  It takes a setting without loopback packets, after which the driver receives unasked,
\* and without S2_CONFIGINTERFACE, which takes a request over to the bridge's next time online.
THEOREM PacketsInOrder == ASSUME Plain PROVE Spec => []GotInOrder
<1>1. Init => TypeInv /\ TransferInv /\ AgreeInv /\ PlainInv /\ GotInv
  BY TypeInit, TransferInit, AgreeInit, PlainInit
<1>2. TypeInv /\ TransferInv /\ AgreeInv /\ PlainInv /\ GotInv /\ [Next]_vars
        => (TypeInv /\ TransferInv /\ AgreeInv /\ PlainInv /\ GotInv)'
  BY TypeNext, TransferNext, AgreeNext, PlainNext, GotNext
<1>3. GotInv => GotInOrder
  BY DEF GotInv, GotInOrder
<1> QED
  BY <1>1, <1>2, <1>3, PTL DEF Spec
=============================================================================
