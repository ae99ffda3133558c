------------------------------ MODULE PBProto ------------------------------
(***************************************************************************)
(* The AVR end of the plipbox protocol: pb_proto.c.                        *)
(*                                                                         *)
(* pb_proto_handle is called from the main loop of every run mode.  One     *)
(* call is a walk through "stage": it accepts a command, runs cmd_send,     *)
(* cmd_recv, cmd_send_burst or cmd_recv_burst, waits for the end of SELECT  *)
(* and hands a received frame to proc_func.  Sampling REQ, testing SELECT   *)
(* and acting on a match are separate steps, as they are separate reads of  *)
(* the port in wait_req, so the Amiga may move in between.                  *)
(***************************************************************************)
EXTENDS ParPort, Integers, Sequences

CONSTANTS BufSize,   \* pb_buf_size
          Frames,    \* the frames fill_func may put into pb_buf
          AvrFaults  \* \subseteq {"timeout", "fill"}: what may go wrong here

VARIABLES stage,     \* where pb_proto_handle is
          seen,      \* the last sample of REQ in a wait: "none", "hit" or "miss"
          cmd,       \* the command byte
          size,      \* the size word
          buf,       \* pb_buf
          got,       \* bytes of pb_buf transferred
          status,    \* result of the command
          delivered  \* history: frames given to proc_func since the last trigger

avrState == <<stage, seen, cmd, size, buf, got, status, delivered>>

CmdSend      == 17  \* 0x11
CmdRecv      == 34  \* 0x22
CmdSendBurst == 51  \* 0x33
CmdRecvBurst == 68  \* 0x44

SendCmds  == {CmdSend, CmdSendBurst}
RecvCmds  == {CmdRecv, CmdRecvBurst}
BurstCmds == {CmdSendBurst, CmdRecvBurst}

ASSUME BufAssumption ==
  /\ BufSize \in Word
  /\ BufSize % 2 = 0
ASSUME FramesAssumption == Frames \subseteq Seq(Byte) /\ \A f \in Frames : Len(f) <= BufSize

\* Stages that end in wait_req, which gives up after pb_proto_timeout, and those of
\* the burst loops, which look at REQ and SELECT only.
SizeStages  == {"size_hi", "size_lo"}
DataStages  == {"even", "odd"}
ExitStages  == {"exit1", "exit2"}
WaitStages  == SizeStages \cup DataStages \cup {"last", "go"} \cup ExitStages
Stages      == WaitStages \cup {"idle", "command", "confirm", "first", "end"}

\* The statuses of pb_proto.h without their stage flags, which only label a log line.
Statuses == {"OK", "TIMEOUT", "LOST_SELECT", "INVALID_CMD", "PACKET_TOO_LARGE", "ERROR"}

Burst == cmd \in BurstCmds

\* Round up to a whole number of words.
Rounded(n) == n + (n % 2)

\* A mutant for the runs: the size check is forgotten.
NoSizeCheck(n) == FALSE

TooLarge(n) == n > BufSize

\* The two bytes of a size word.  The mutant forgets the shift.
SizeHiUnshifted(n) == n
SizeHi(n) == n \div 256
SizeLo(n) == n % 256

\* The level of REQ the handler waits for.  In the mutant the last wait of cmd_recv
\* does not wait for the client to take the last byte.
WantReqNoLast ==
  CASE stage \in {"size_hi", "go"} -> TRUE
    [] stage = "size_lo" -> FALSE
    [] stage = "even"    -> cmd # CmdRecvBurst
    [] stage = "odd"     -> cmd = CmdRecvBurst
    [] stage = "exit1"   -> cmd = CmdSendBurst
    [] OTHER             -> cmd \notin {CmdSendBurst, CmdRecv}

WantReq ==
  CASE stage \in {"size_hi", "last", "go"} -> TRUE
    [] stage = "size_lo" -> FALSE
    [] stage = "even"    -> cmd # CmdRecvBurst
    [] stage = "odd"     -> cmd = CmdRecvBurst
    [] stage = "exit1"   -> cmd = CmdSendBurst
    [] OTHER             -> cmd # CmdSendBurst

\* RAK answers every byte of a plain transfer; within a burst it stays as it is.
\* In the mutant RAK never falls.
AckHigh(level) == rak' = IF Burst THEN rak ELSE TRUE
Ack(level) == rak' = IF Burst THEN rak ELSE level

\* par_low_data_out: the byte at index i of pb_buf.  The pad byte of an odd frame is
\* whatever an earlier frame left there.
\* The mutant starts one byte late.
BufBytesLate(i) == IF i < Len(buf) THEN {buf[i + 1]} ELSE Noise
BufBytes(i) == IF i <= Len(buf) THEN {buf[i]} ELSE Noise

Goto(s) == stage' = s /\ seen' = "none"

Finish(st) == Goto("end") /\ status' = st

ProtoTypeOK ==
  /\ stage \in Stages
  /\ seen \in {"none", "hit", "miss"}
  /\ cmd \in Byte
  /\ size \in Word
  /\ buf \in Seq(Byte)
  /\ got \in Nat
  /\ status \in Statuses
  /\ delivered \in Seq(Seq(Byte))

ProtoInit ==
  /\ stage = "idle"
  /\ seen = "none"
  /\ cmd = 0
  /\ size = 0
  /\ buf = <<>>
  /\ got = 0
  /\ status = "OK"
  /\ delivered = <<>>

----------------------------------------------------------------------------
(* pb_proto_handle: accepting a command *)

\* SELECT is high and REQ low: a client calls.  Anything else returns IDLE.
HandleIdle ==
  /\ stage = "idle"
  /\ sel
  /\ ~req
  /\ Goto("command")
  /\ UNCHANGED <<cmd, size, buf, got, status, delivered, avrLines>>

\* Read the command byte.
ReadCommand ==
  /\ stage = "command"
  /\ \E b \in BusValues : cmd' = b
  /\ Goto("confirm")
  /\ UNCHANGED <<size, buf, got, status, delivered, avrLines>>

\* Fill the buffer for a receive command and confirm with RAK = 1.
Confirm ==
  /\ stage = "confirm"
  /\ rak' = TRUE
  /\ got' = 0
  /\ \/ /\ cmd \in RecvCmds
        /\ \E f \in Frames : buf' = f /\ size' = Len(f)
        /\ Goto("size_hi")
        /\ UNCHANGED status
     \/ /\ cmd \in SendCmds
        /\ buf' = <<>>
        /\ size' = 0
        /\ Goto("size_hi")
        /\ UNCHANGED status
     \/ /\ cmd \notin RecvCmds \cup SendCmds
        /\ Finish("INVALID_CMD")
        /\ UNCHANGED <<buf, size>>
  /\ UNCHANGED <<cmd, delivered, avrOut, avrByte>>

\* fill_func refuses: the handler returns at once and never touches RAK.
FillFails ==
  /\ "fill" \in AvrFaults
  /\ stage = "confirm"
  /\ cmd \in RecvCmds
  /\ Goto("idle")
  /\ status' = "ERROR"
  /\ UNCHANGED <<cmd, size, buf, got, delivered, avrLines>>

----------------------------------------------------------------------------
(* wait_req and the wait loops of the bursts *)

PollReq ==
  /\ stage \in WaitStages
  /\ seen = "none"
  /\ seen' = IF req = WantReq THEN "hit" ELSE "miss"
  /\ UNCHANGED <<stage, cmd, size, buf, got, status, delivered, avrLines>>

\* The burst loops have no time limit.  In the mutant the data loops of the plain
\* commands have none either.
UntimedData == stage \in DataStages \cup ExitStages
Untimed == Burst /\ stage \in DataStages \cup ExitStages

\* cmd_recv releases the data lines behind its data loop, and only there.  The
\* mutant releases them in the loop but not after the last byte.
ReleasedInLoop(s) == cmd = CmdRecv /\ s \in DataStages
ReleasedBy(s) == cmd = CmdRecv /\ s \in DataStages \cup {"last"}

GiveUp(st) ==
  /\ Finish(st)
  /\ avrOut' = (avrOut /\ ~ReleasedBy(stage))
  /\ UNCHANGED <<cmd, size, buf, got, delivered, rak, avrByte>>

\* The level did not match: keep waiting while SELECT holds, otherwise give the
\* command up; a burst jumps to its exit label instead.
KeepWaiting ==
  /\ seen = "miss"
  /\ sel
  /\ seen' = "none"
  /\ UNCHANGED <<stage, cmd, size, buf, got, status, delivered, avrLines>>

LostSelect ==
  /\ seen = "miss"
  /\ ~sel
  /\ \/ /\ Untimed
        /\ Goto("exit1")
        /\ UNCHANGED <<cmd, size, buf, got, status, delivered, avrLines>>
     \/ /\ ~Untimed
        /\ GiveUp("LOST_SELECT")

WaitTimeout ==
  /\ "timeout" \in AvrFaults
  /\ seen = "miss"
  /\ sel
  /\ ~Untimed
  /\ GiveUp("TIMEOUT")

----------------------------------------------------------------------------
(* cmd_send, cmd_send_burst *)

SendSizeHi ==
  /\ stage = "size_hi" /\ seen = "hit" /\ cmd \in SendCmds
  /\ \E b \in BusValues : size' = 256 * b
  /\ rak' = FALSE
  /\ Goto("size_lo")
  /\ UNCHANGED <<cmd, buf, got, status, delivered, avrOut, avrByte>>

\* The burst command raises RAK only if the frame fits: that starts the burst.
SendSizeLo ==
  /\ stage = "size_lo" /\ seen = "hit" /\ cmd \in SendCmds
  /\ \E b \in BusValues :
       LET n == size + b IN
       /\ size' = n
       /\ rak' = ~(Burst /\ TooLarge(n))
       /\ \/ TooLarge(n) /\ Finish("PACKET_TOO_LARGE")
          \/ n > 0 /\ ~TooLarge(n) /\ Goto("even") /\ UNCHANGED status
          \/ n = 0 /\ Burst /\ Goto("exit1") /\ UNCHANGED status
          \/ n = 0 /\ ~Burst /\ Finish("OK")
  /\ UNCHANGED <<cmd, buf, got, delivered, avrOut, avrByte>>

\* *(ptr++) = par_low_data_in().  The mutant does not advance ptr.
StoreFirst ==
  /\ \E b \in BusValues : buf' = <<b>>
  /\ got' = got + 1
StoreByte ==
  /\ \E b \in BusValues : buf' = Append(buf, b)
  /\ got' = got + 1

SendEven ==
  /\ stage = "even" /\ seen = "hit" /\ cmd \in SendCmds
  /\ StoreByte
  /\ Ack(FALSE)
  /\ Goto("odd")
  /\ UNCHANGED <<cmd, size, status, delivered, avrOut, avrByte>>

SendOdd ==
  /\ stage = "odd" /\ seen = "hit" /\ cmd \in SendCmds
  /\ StoreByte
  /\ Ack(TRUE)
  /\ \/ got' < Rounded(size) /\ Goto("even") /\ UNCHANGED status
     \/ got' >= Rounded(size) /\ Burst /\ Goto("exit1") /\ UNCHANGED status
     \/ got' >= Rounded(size) /\ ~Burst /\ Finish("OK")
  /\ UNCHANGED <<cmd, size, delivered, avrOut, avrByte>>

----------------------------------------------------------------------------
(* cmd_recv, cmd_recv_burst *)

RecvSizeHi ==
  /\ stage = "size_hi" /\ seen = "hit" /\ cmd \in RecvCmds
  /\ avrOut' = TRUE
  /\ avrByte' = SizeHi(size)
  /\ rak' = FALSE
  /\ Goto("size_lo")
  /\ UNCHANGED <<cmd, size, buf, got, status, delivered>>

RecvSizeLo ==
  /\ stage = "size_lo" /\ seen = "hit" /\ cmd \in RecvCmds
  /\ avrByte' = SizeLo(size)
  /\ rak' = TRUE
  /\ \/ Burst /\ Goto("go")
     \/ ~Burst /\ size > 0 /\ Goto("even")
     \/ ~Burst /\ size = 0 /\ Goto("last")
  /\ UNCHANGED <<cmd, size, buf, got, status, delivered, avrOut>>

PutByte(i) == \E b \in BufBytes(i) : avrByte' = b

RecvEven ==
  /\ stage = "even" /\ seen = "hit" /\ cmd = CmdRecv
  /\ PutByte(got + 1)
  /\ rak' = FALSE
  /\ got' = got + 1
  /\ Goto("odd")
  /\ UNCHANGED <<cmd, size, buf, status, delivered, avrOut>>

RecvOdd ==
  /\ stage = "odd" /\ seen = "hit" /\ cmd = CmdRecv
  /\ PutByte(got + 1)
  /\ rak' = TRUE
  /\ got' = got + 1
  /\ Goto(IF got' < Rounded(size) THEN "even" ELSE "last")
  /\ UNCHANGED <<cmd, size, buf, status, delivered, avrOut>>

RecvLast ==
  /\ stage = "last" /\ seen = "hit"
  /\ avrOut' = (avrOut /\ ~ReleasedBy(stage))
  /\ Finish("OK")
  /\ UNCHANGED <<cmd, size, buf, got, delivered, rak, avrByte>>

\* RAK = 0 starts the burst; the first byte follows it.
RecvGo ==
  /\ stage = "go" /\ seen = "hit"
  /\ rak' = FALSE
  /\ Goto(IF size > 0 THEN "first" ELSE "exit1")
  /\ UNCHANGED <<cmd, size, buf, got, status, delivered, avrOut, avrByte>>

RecvFirst ==
  /\ stage = "first"
  /\ PutByte(1)
  /\ Goto("even")
  /\ UNCHANGED <<cmd, size, buf, got, status, delivered, rak, avrOut>>

\* The client took the even byte (REQ = 0): put the odd one.
BurstEven ==
  /\ stage = "even" /\ seen = "hit" /\ cmd = CmdRecvBurst
  /\ PutByte(got + 2)
  /\ Goto("odd")
  /\ UNCHANGED <<cmd, size, buf, got, status, delivered, rak, avrOut>>

\* The client took the odd byte (REQ = 1): next word, or the end of the loop.
BurstOdd ==
  /\ stage = "odd" /\ seen = "hit" /\ cmd = CmdRecvBurst
  /\ got' = got + 2
  /\ \/ got' < Rounded(size) /\ PutByte(got' + 1) /\ Goto("even")
     \/ got' >= Rounded(size) /\ Goto("exit1") /\ UNCHANGED avrByte
  /\ UNCHANGED <<cmd, size, buf, status, delivered, rak, avrOut>>

----------------------------------------------------------------------------
(* The exit labels of the bursts: two more toggles without a time limit *)

BurstExit1 ==
  /\ stage = "exit1" /\ seen = "hit"
  /\ rak' = (cmd = CmdRecvBurst)
  /\ Goto("exit2")
  /\ UNCHANGED <<cmd, size, buf, got, status, delivered, avrOut, avrByte>>

BurstExit2 ==
  /\ stage = "exit2" /\ seen = "hit"
  /\ rak' = (cmd = CmdSendBurst)
  /\ avrOut' = (avrOut /\ cmd = CmdSendBurst)
  /\ Finish(IF got < Rounded(size) THEN "TIMEOUT" ELSE "OK")
  /\ UNCHANGED <<cmd, size, buf, got, delivered, avrByte>>

----------------------------------------------------------------------------
(* pb_proto_handle: leaving *)

\* proc_func gets frames of the send commands that came in completely.  The mutant:
\* frames of one of the two commands only.
DeliverBurst == status = "OK" /\ cmd = CmdSendBurst
Deliverable == status = "OK" /\ cmd \in SendCmds

\* wait_sel(0), RAK = 0, and proc_func for a frame that was sent completely.
EndTransfer ==
  /\ stage = "end"
  /\ ~sel \/ "timeout" \in AvrFaults
  /\ rak' = FALSE
  /\ Goto("idle")
  /\ delivered' = IF Deliverable THEN Append(delivered, buf) ELSE delivered
  /\ UNCHANGED <<cmd, size, buf, got, status, avrOut, avrByte>>

ProtoStep ==
  \/ HandleIdle \/ ReadCommand \/ Confirm \/ FillFails
  \/ PollReq \/ KeepWaiting \/ LostSelect \/ WaitTimeout
  \/ SendSizeHi \/ SendSizeLo \/ SendEven \/ SendOdd
  \/ RecvSizeHi \/ RecvSizeLo \/ RecvEven \/ RecvOdd \/ RecvLast
  \/ RecvGo \/ RecvFirst \/ BurstEven \/ BurstOdd
  \/ BurstExit1 \/ BurstExit2
  \/ EndTransfer
=============================================================================
