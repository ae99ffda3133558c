----------------------------- MODULE PBLockstep ----------------------------
(***************************************************************************)
(* PBLink while nobody gives up and frames fit: the AVR's handler and the  *)
(* Amiga's routine go in step, byte by byte, and what either of them       *)
(* reports of a transfer is true of the other one.                         *)
(*                                                                         *)
(* The argument: of the bytes on the lines at most one is not taken, and   *)
(* the level of REQ says which end is next.  Lockstep puts that together   *)
(* with the places the two ends may be at, the lines they drive and what   *)
(* they have of the frame so far; each of its parts is named.  Below, one  *)
(* lemma per action keeps it, the AVR's first.  These lemmas need only     *)
(* Timely and say how a step may leave Lockstep, for use in PBAborts; that *)
(* nobody gives up comes in with the theorems.                             *)
(***************************************************************************)
EXTENDS PBLinkProofs

----------------------------------------------------------------------------
(* The setting: nobody gives up, frames fit *)

\* Bursts rely on the time their loops take, and are not used for frames without bytes.
Timely == Ops \subseteq {"send", "recv"} \/ (Timing # "none" /\ <<>> \notin Frames \cup Outgoing)

\* In addition nobody gives up and every frame fits the buffer it is meant for.
Smooth ==
  /\ Timely
  /\ AvrFaults = {} /\ AmigaFaults = {}
  /\ \A f \in Frames : Len(f) <= MaxFrame
  /\ \A f \in Outgoing : Len(f) <= BufSize

----------------------------------------------------------------------------
(* The invariant *)

\* The handler has accepted a command and not come back.
Commanded == stage \notin {"idle", "command", "confirm"}

\* As far as it has bytes, d has those of f.
Copied(d, f) == \A i \in 1..Len(d) : i <= Len(f) => d[i] = f[i]

\* Bytes of the command (size word included) the AVR took or put on the lines.
Moved ==
  CASE stage = "size_hi" -> 0
    [] stage = "size_lo" -> 1
    [] OTHER -> got + 2

\* Bytes the Amiga took.
Fetched ==
  CASE mpc = "size_hi" -> 0
    [] mpc = "size_lo" -> 1
    [] OTHER -> Len(rdata) + 2

\* The byte the AVR has on the lines when it moved n.
Offered(n) ==
  CASE n = 1 -> {SizeHi(size)}
    [] n = 2 -> {SizeLo(size)}
    [] OTHER -> BufBytes(n - 2)

\* SELECT is high from the trigger to the end of a routine.  While it is low, the AVR is in its
\* main loop or about to return there, and RAK keeps the next trigger until it did.
Quiet ==
  /\ op \in Ops
  /\ sel <=> mpc \notin {"idle", "rak1"}
  /\ ~sel => ~req /\ ~amOut /\ stage \in {"idle", "last", "end"}
  /\ mpc = "rak1" /\ ~rak => stage = "idle"

\* A place belongs to some of the routines only.
Routines ==
  /\ mpc = "final" => op = "send"
  /\ mpc \in {"even", "odd"} => op # "brecv"
  /\ mpc \in {"ack", "size_hi", "size_lo"} => op \notin SendOps
  /\ mpc \in {"go", "b_even", "b_odd", "b_end", "sync1", "sync2"} => op \in {"bsend", "brecv"}

\* Between two commands the AVR drives no line and RAK is low; behind a plain command RAK
\* stays high.  A sample of REQ that matched still does, but for the last one of cmd_recv.
Parked ==
  /\ ~Commanded => ~rak /\ ~avrOut
  /\ stage \in {"command", "confirm"} => sel
  /\ stage = "end" => ~avrOut
  /\ stage \in {"last", "end"} /\ ~Burst => rak
  /\ stage \in ExitStages => Burst
  /\ Commanded => cmd \in {CmdOf[o] : o \in Ops}
  /\ seen # "none" => stage \in WaitStages
  /\ seen = "hit" /\ stage # "last" => req = WantReq

\* The Amiga triggered, the AVR has not confirmed: the command byte is on the lines.
Calling ==
  sel /\ ~Commanded =>
    /\ mpc = IF op \in SendOps THEN "even" ELSE "ack"
    /\ pos = 0
    /\ amOut /\ ~req
    /\ amByte = CmdOf[op]
    /\ stage = "confirm" => cmd = CmdOf[op]

\* Where the Amiga is, to the places of the AVR in a send.
SendPlaces ==
  /\ stage = "size_hi" => mpc \in {"even", "odd"}
  /\ stage = "size_lo" => mpc \in {"odd", "even", IF op = "send" THEN "final" ELSE "go"}
  /\ stage \in DataStages =>
       mpc \in IF op = "send" THEN {"even", "odd", "final"} ELSE {"go", "b_even", "b_odd", "b_end"}
  /\ stage = "exit1" => op = "bsend" /\ mpc \in {"b_end", "sync1"}
  /\ stage = "exit2" => op = "bsend" /\ mpc \in {"sync1", "sync2"}
  /\ stage = "end" => mpc \in {IF op = "send" THEN "final" ELSE "sync2", "exit", "drop_sel"}
  /\ stage \in SizeStages \cup DataStages \cup ExitStages \cup {"end"}

\* The two ends in a send: of the bytes on the lines one at most is not taken, and REQ says so.
Sending ==
  sel /\ Commanded /\ op \in SendOps =>
    /\ SendPlaces
    /\ cmd = CmdOf[op]
    /\ ~avrOut /\ (amOut <=> mpc # "drop_sel")
    /\ req <=> mpc \in {"odd", "b_odd", "sync1"}
    /\ rak <=> stage \notin {"size_lo", "exit2"} /\ (stage = "odd" => Burst)
    /\ IF stage \in SizeStages \cup DataStages /\ req = WantReq
       THEN pos = Moved + 1 /\ amByte \in StreamBytes(Moved)
       ELSE pos = Moved
    /\ mpc \in {"even", "b_even"} => pos < StreamLen
    /\ op = "bsend" =>
         (mpc = "even" => pos = 0) /\ (mpc = "odd" => pos = 1) /\ (mpc = "go" => pos = 2)
    /\ mpc \in {"final", "b_end"} => pos >= StreamLen

\* What a send has brought so far.
Filling ==
  /\ sel /\ op \in SendOps => frame \in Outgoing
  /\ sel /\ op \in SendOps /\ stage = "size_lo" => size = 256 * (Len(frame) \div 256)
  /\ stage \notin SizeStages /\ Commanded /\ cmd \in SendCmds =>
       size = Len(frame) /\ Len(buf) = got /\ Copied(buf, frame)
  /\ stage \in ExitStages \cup {"end"} /\ cmd \in SendCmds => got = Rounded(size)
  /\ stage = "end" /\ cmd \in SendCmds => status = "OK"

\* Where the Amiga is, to the places of the AVR in a receive.
RecvPlaces ==
  /\ stage = "size_hi" => mpc \in {"ack", "size_hi"}
  /\ stage = "size_lo" => mpc \in {"size_hi", "size_lo"}
  /\ op = "recv" =>
       /\ stage \in DataStages => mpc \in {"size_lo", "even", "odd"}
       /\ stage = "last" => mpc \in {"size_lo", "odd", "exit", "drop_sel"}
       /\ stage = "last" /\ seen = "hit" => mpc \in {"exit", "drop_sel"}
       /\ stage = "end" => mpc \in {"exit", "drop_sel"}
  /\ op = "brecv" =>
       /\ stage = "go" => mpc \in {"size_lo", "go"}
       /\ stage = "first" => mpc \in {"go", "b_even"}
       /\ stage = "even" => mpc \in {"go", "b_even", "b_read_even", "b_odd"}
       /\ stage = "odd" => mpc \in {"b_odd", "b_read_odd", "b_even", "b_end"}
       /\ stage = "exit1" => mpc \in {"b_end", "sync1"}
       /\ stage = "exit2" => mpc \in {"sync1", "sync2"}
       /\ stage = "end" => mpc \in {"sync2", "exit", "drop_sel"}

\* The lines in a receive.
RecvLines ==
  /\ amOut <=> mpc = "ack"
  /\ avrOut <=> stage \notin {"size_hi", "end"}
  /\ req <=> mpc \in {"size_hi", "even", "go", "b_even", "b_read_odd", "b_end", "sync2", "exit"}
  /\ rak <=> stage \in {"size_hi", "go", "last", "exit2"} \/ (~Burst /\ stage \in {"even", "end"})

\* Of the bytes the AVR offers one at most is not fetched, and REQ says so.
Interlocked ==
  stage \in SizeStages \cup {"last", "go"} \cup (IF op = "recv" THEN DataStages ELSE {}) =>
    /\ mpc \in {"exit", "drop_sel"} => Fetched = Moved
    /\ mpc \notin {"ack", "exit", "drop_sel"} =>
         IF req = WantReq THEN Fetched = Moved
         ELSE Fetched = Moved - 1 /\ avrByte \in Offered(Moved)

\* In the loop of a burst the Amiga toggles REQ before it reads.
Paced ==
  op = "brecv" =>
    /\ stage = "first" => rdata = <<>>
    /\ stage = "even" =>
         /\ avrByte \in BufBytes(got + 1)
         /\ Len(rdata) = got + IF mpc = "b_odd" THEN 1 ELSE 0
    /\ stage = "odd" =>
         /\ avrByte \in BufBytes(got + 2)
         /\ Len(rdata) = got + IF mpc \in {"b_odd", "b_read_odd"} THEN 1 ELSE 2
    /\ mpc = "b_end" => Len(rdata) = Padded(rsize)
    /\ stage \in ExitStages \cup {"end"} => got = Rounded(size) /\ Len(rdata) = got

Receiving ==
  sel /\ Commanded /\ op \notin SendOps =>
    /\ RecvPlaces
    /\ cmd = CmdOf[op]
    /\ RecvLines
    /\ Interlocked
    /\ Paced

\* What a receive has brought so far.
Emptying ==
  /\ stage \in WaitStages \cup {"first", "end"} /\ cmd \in RecvCmds =>
       buf \in Frames /\ size = Len(buf)
  /\ stage = "last" => got = Rounded(size)
  /\ sel /\ op \notin SendOps =>
       /\ mpc = "size_lo" => rsize = 256 * SizeHi(size)
       /\ Commanded /\ mpc \notin {"ack", "size_hi", "size_lo"} =>
            rsize = size /\ Copied(rdata, buf)

\* A routine that has succeeded, and one whose toggles cmd_recv may still be waiting for.
Done ==
  /\ mpc \in {"exit", "drop_sel", "idle"} /\ rc = "ok" =>
       IF op \in SendOps
       THEN \/ stage = "end" /\ cmd \in SendCmds
            \/ stage = "idle" /\ delivered # <<>>
       ELSE rsize = Len(buf) /\ Len(rdata) = Padded(rsize) /\ Copied(rdata, buf)
  /\ stage = "last" /\ mpc \in {"exit", "drop_sel", "idle", "rak1"} =>
       rsize = size /\ Len(rdata) = Padded(rsize) /\ Copied(rdata, buf)

\* proc_func gets the frame of the last trigger only.
Handed ==
  delivered # <<>> =>
    stage = "idle" /\ ~sel /\ Len(delivered) = 1 /\ Arrived(delivered[1], frame)

Lockstep == /\ Quiet /\ Routines /\ Parked /\ Calling
            /\ Sending /\ Filling
            /\ Receiving /\ Emptying
            /\ Done /\ Handed
----------------------------------------------------------------------------
(* Commands, frames and bytes *)

\* The commands of the operations.
LEMMA Commands ==
  /\ CmdSend = 17 /\ CmdRecv = 34 /\ CmdSendBurst = 51 /\ CmdRecvBurst = 68
  /\ SendCmds = {17, 51} /\ RecvCmds = {34, 68} /\ BurstCmds = {51, 68}
  /\ SendOps = {"send", "bsend"} /\ AllOps = {"send", "recv", "bsend", "brecv"}
  /\ CmdOf["send"] = 17 /\ CmdOf["recv"] = 34 /\ CmdOf["bsend"] = 51 /\ CmdOf["brecv"] = 68
  BY DEF CmdSend, CmdRecv, CmdSendBurst, CmdRecvBurst, SendCmds, RecvCmds, BurstCmds, SendOps,
     AllOps, CmdOf

\* The command of an operation says which one it is.
LEMMA CommandOfOp ==
  ASSUME op \in AllOps, cmd = CmdOf[op]
  PROVE  /\ cmd \in SendCmds <=> op \in SendOps
         /\ cmd \in RecvCmds <=> op \notin SendOps
         /\ op = "send" <=> cmd = CmdSend
         /\ op = "recv" <=> cmd = CmdRecv
         /\ op = "bsend" <=> cmd = CmdSendBurst
         /\ op = "brecv" <=> cmd = CmdRecvBurst
         /\ Burst <=> op \in {"bsend", "brecv"}
<1> USE Commands DEF Burst
<1>1. CASE op = "send"
  BY <1>1
<1>2. CASE op = "recv"
  BY <1>2
<1>3. CASE op = "bsend"
  BY <1>3
<1>4. CASE op = "brecv"
  BY <1>4
<1> QED
  BY <1>1, <1>2, <1>3, <1>4

\* A copy that is continued.
LEMMA CopiedNext ==
  ASSUME NEW d \in Seq(Byte), NEW f \in Seq(Byte), NEW b \in Byte, Copied(d, f),
         Len(d) + 1 <= Len(f) => b = f[Len(d) + 1]
  PROVE  Copied(Append(d, b), f) /\ Len(Append(d, b)) = Len(d) + 1
<1>1. /\ Len(Append(d, b)) = Len(d) + 1 /\ Len(d) \in Nat /\ Len(f) \in Nat
      /\ \A i \in 1..Len(d) : Append(d, b)[i] = d[i]
      /\ Append(d, b)[Len(d) + 1] = b
  OBVIOUS
<1>2. ASSUME NEW i \in 1..Len(d) + 1, i <= Len(f)
      PROVE  Append(d, b)[i] = f[i]
  <2>1. CASE i \in 1..Len(d)
    BY <2>1, <1>1, <1>2 DEF Copied
  <2>2. CASE i = Len(d) + 1
    BY <2>2, <1>1, <1>2
  <2> QED
    BY <2>1, <2>2, <1>1
<1> QED
  BY <1>1, <1>2 DEF Copied

\* A copy that is not begun.
LEMMA CopiedNothing == \A f : Copied(<<>>, f) /\ Len(<<>>) = 0
  BY DEF Copied

\* A size word is put together again.
LEMMA SizeWord ==
  ASSUME NEW n \in Word
  PROVE  256 * SizeHi(n) + SizeLo(n) = n /\ SizeHi(n) = n \div 256 /\ SizeLo(n) = n % 256
  BY DEF Word, SizeHi, SizeLo

\* The loop of hwburstsend sends whole words.
LEMMA BurstLength ==
  ASSUME NEW n \in Nat, n > 0, n <= 65535
  PROVE  2 * BurstWords(n) = Rounded(n)
<1>1. (n - 1) % 65536 = n - 1
  OBVIOUS
<1>2. 2 * ((n - 1) \div 2) + 2 = n + (n % 2)
  OBVIOUS
<1> QED
  BY <1>1, <1>2 DEF BurstWords, Rounded

\* What the driver sends is the size word and the whole words of the frame.
LEMMA StreamLength ==
  ASSUME Timely, op \in Ops, op \in SendOps, frame \in Outgoing
  PROVE  StreamLen = 2 + Rounded(Len(frame)) /\ Len(frame) \in Word
<1>1. Len(frame) \in Word /\ frame \in Seq(Byte)
  BY OutgoingFits
<1>2. CASE op = "bsend"
  <2>1. frame # <<>>
    BY <1>2 DEF Timely
  <2>2. Len(frame) > 0 /\ Len(frame) <= 65535 /\ Len(frame) \in Nat
    BY <1>1, <2>1 DEF Word
  <2> QED
    BY <2>2, <1>1, <1>2, BurstLength DEF StreamLen
<1>3. CASE op # "bsend"
  BY <1>1, <1>3 DEF StreamLen, Padded, Rounded
<1> QED
  BY <1>2, <1>3

\* Who drives the lines alone is read.
LEMMA Read ==
  /\ amOut /\ ~avrOut => BusValues = {amByte}
  /\ avrOut /\ ~amOut => BusValues = {avrByte}
  BY DEF BusValues

\* Both ends know which routine runs.
LEMMA Together ==
  ASSUME IInv, Lockstep, sel, Commanded
  PROVE  /\ cmd \in SendCmds <=> op \in SendOps
         /\ cmd \in RecvCmds <=> op \notin SendOps
         /\ op = "send" <=> cmd = CmdSend
         /\ op = "recv" <=> cmd = CmdRecv
         /\ op = "bsend" <=> cmd = CmdSendBurst
         /\ op = "brecv" <=> cmd = CmdRecvBurst
         /\ Burst <=> op \in {"bsend", "brecv"}
         /\ op \in AllOps /\ op \in Ops /\ cmd = CmdOf[op]
<1>1. op \in AllOps /\ op \in Ops /\ cmd = CmdOf[op]
  BY DEF Lockstep, Quiet, Sending, Receiving, IInv, TypeOK, AmigaTypeOK
<1> QED
  BY <1>1, CommandOfOp

\* In a receive, the stages of cmd_recv and those of cmd_recv_burst.
LEMMA ReceivePlaces ==
  ASSUME IInv, Lockstep, sel, op \notin SendOps, Commanded
  PROVE  /\ stage \in WaitStages \cup {"first", "end"} /\ op \in {"recv", "brecv"}
         /\ stage = "last" => op = "recv"
         /\ stage \in {"go", "first"} \cup ExitStages => op = "brecv"
<1>1. stage \in WaitStages \cup {"first", "end"}
  BY DEF IInv, TypeOK, ProtoTypeOK, Stages, Commanded
<1>2. /\ op \in {"recv", "brecv"} /\ (Burst <=> op = "brecv") /\ (cmd = CmdRecv <=> op = "recv")
      /\ cmd = CmdRecvBurst <=> op = "brecv"
  BY Together, Commands
<1> QED
  BY <1>1, <1>2 DEF IInv, StageOfCmd, Lockstep, Parked

\* While the handler waits for the Amiga or moves bytes, SELECT is high.
LEMMA Engaged ==
  ASSUME IInv, Lockstep, Commanded, stage \notin {"last", "end"}
  PROVE  /\ sel
         /\ cmd \in SendCmds <=> op \in SendOps
         /\ cmd \in RecvCmds <=> op \notin SendOps
         /\ op = "send" <=> cmd = CmdSend
         /\ op = "recv" <=> cmd = CmdRecv
         /\ op = "bsend" <=> cmd = CmdSendBurst
         /\ op = "brecv" <=> cmd = CmdRecvBurst
         /\ Burst <=> op \in {"bsend", "brecv"}
         /\ op \in AllOps /\ cmd = CmdOf[op]
<1>1. sel
  BY DEF Lockstep, Quiet, Commanded, IInv, TypeOK, LinesTypeOK
<1> QED
  BY <1>1, Together

----------------------------------------------------------------------------
(* Steps of the AVR in a send *)

\* What such a step does not touch.
LEMMA AvrSends ==
  ASSUME IInv, Lockstep, sel, op \in SendOps, Commanded, stage # "end", Commanded',
         stage' # "last",
         UNCHANGED <<amLines, amigaState, cmd, delivered>>
  PROVE  Quiet' /\ Routines' /\ Calling' /\ Receiving' /\ Emptying' /\ Done' /\ Handed'
<1> USE DEF amLines, amigaState
<1>1. Quiet' /\ Routines' /\ Calling' /\ Receiving'
  BY DEF Lockstep, Quiet, Routines, Calling, Receiving, Commanded
<1>2. mpc \notin {"exit", "drop_sel", "idle"}
  BY DEF Lockstep, Quiet, Sending, SendPlaces, SizeStages, DataStages, ExitStages
<1>3. Done' /\ Handed'
  BY <1>2 DEF Lockstep, Done, Handed, Commanded
<1>4. cmd \in SendCmds /\ cmd \notin RecvCmds
  <2>1. cmd = CmdOf[op] /\ op \in AllOps
    BY DEF Lockstep, Sending, IInv, TypeOK, AmigaTypeOK
  <2> QED
    BY <2>1, CommandOfOp
<1>5. Emptying'
  BY <1>4 DEF Emptying
<1> QED
  BY <1>1, <1>3, <1>5

\* cmd_send and cmd_send_burst read the high byte of the size.
LEMMA SendSizeHiStep ==
  ASSUME IInv, Lockstep, Timely, SendSizeHi, UNCHANGED <<amLines, amigaState>>
  PROVE  Lockstep'
<1> USE DEF SendSizeHi, Goto, SizeStages, DataStages, ExitStages, WaitStages
<1>1. /\ Commanded /\ Commanded' /\ stage' # "last"
      /\ sel /\ op \in SendOps /\ op \in AllOps /\ cmd = CmdOf[op]
  BY Engaged DEF Commanded
<1>2. Quiet' /\ Routines' /\ Calling' /\ Receiving' /\ Emptying' /\ Done' /\ Handed'
  BY <1>1, AvrSends
<1> USE DEF amLines, amigaState
<1>3. req = WantReq /\ req /\ rak /\ ~rak'
  BY <1>1 DEF Lockstep, Parked, WantReq, Sending, Burst
<1>4. pos = 1 /\ amByte \in StreamBytes(0) /\ mpc = "odd" /\ frame \in Outgoing
  <2>1. Moved = 0
    BY DEF Moved
  <2>2. pos = Moved + 1 /\ amByte \in StreamBytes(Moved)
    BY <1>1, <1>3 DEF Lockstep, Sending
  <2>3. mpc = "odd"
    BY <1>1, <1>3 DEF Lockstep, Sending, SendPlaces
  <2>4. frame \in Outgoing
    BY <1>1 DEF Lockstep, Filling
  <2> QED
    BY <2>1, <2>2, <2>3, <2>4
<1>5. WantReq' = FALSE
  BY DEF WantReq
<1>6. Parked'
  BY <1>1, <1>2 DEF Lockstep, Parked, Quiet, Burst, Commanded
<1>7. Sending'
  <2>1. StreamLen' = StreamLen
    BY DEF StreamLen
  <2>2. Moved' = 1
    BY DEF Moved
  <2>3. SendPlaces'
    BY <1>1, <1>4, <2>1 DEF Lockstep, Sending, SendPlaces
  <2> QED
    BY <1>1, <1>3, <1>4, <1>5, <2>1, <2>2, <2>3 DEF Lockstep, Sending, Burst
<1>8. Filling'
  <2>1. BusValues = {amByte} /\ amByte = Len(frame) \div 256
    BY <1>1, <1>4, Read DEF Lockstep, Sending, StreamBytes
  <2>2. size' = 256 * (Len(frame) \div 256)
    BY <2>1
  <2> QED
    BY <2>2, <1>1, <1>4 DEF Filling
<1> QED
  BY <1>2, <1>6, <1>7, <1>8 DEF Lockstep

\* The size word that comes in is the size of the frame.
LEMMA SizeComesIn ==
  ASSUME IInv, Lockstep, SendSizeLo
  PROVE  /\ Commanded /\ sel /\ op \in SendOps /\ frame \in Outgoing
         /\ pos = 2 /\ amByte \in StreamBytes(1) /\ mpc \in {"even", "final", "go"}
         /\ req = WantReq /\ ~req /\ ~rak
         /\ size' = Len(frame)
<1> USE DEF SendSizeLo, SizeStages, DataStages
<1>1. /\ Commanded /\ sel /\ op \in SendOps /\ op \in AllOps /\ cmd = CmdOf[op]
      /\ Burst <=> op = "bsend"
  BY Engaged, Commands DEF Commanded
<1>2. req = WantReq /\ ~req /\ ~rak
  BY <1>1 DEF Lockstep, Parked, WantReq, Sending
<1>3. pos = 2 /\ amByte \in StreamBytes(1) /\ mpc \in {"even", "final", "go"} /\ frame \in Outgoing
  <2>1. Moved = 1
    BY DEF Moved
  <2> QED
    BY <1>1, <1>2, <2>1 DEF Lockstep, Sending, SendPlaces, Filling
<1>4. size' = Len(frame)
  <2>1. BusValues = {amByte} /\ amByte = Len(frame) % 256 /\ size = 256 * (Len(frame) \div 256)
    BY <1>1, <1>3, Read DEF Lockstep, Sending, Filling, StreamBytes
  <2>2. Len(frame) \in Word
    BY <1>3, OutgoingFits
  <2> QED
    BY <2>1, <2>2, SizeWord
<1> QED
  BY <1>1, <1>2, <1>3, <1>4

\* They read the low byte and know the size, that of a frame that fits.
LEMMA SendSizeLoStep ==
  ASSUME IInv, Lockstep, Timely, SendSizeLo, ~TooLarge(size'), UNCHANGED <<amLines, amigaState>>
  PROVE  Lockstep'
<1> USE DEF SendSizeLo, Goto, SizeStages, DataStages, ExitStages, WaitStages
<1>1. /\ Commanded /\ Commanded' /\ stage' # "last"
      /\ sel /\ op \in SendOps /\ op \in AllOps /\ cmd = CmdOf[op]
      /\ Burst <=> op = "bsend"
  BY Engaged, Commands DEF Commanded, Finish
<1>2. Quiet' /\ Routines' /\ Calling' /\ Receiving' /\ Emptying' /\ Done' /\ Handed'
  BY <1>1, AvrSends
<1> USE DEF amLines, amigaState
<1>3. req = WantReq /\ ~req /\ ~rak
  BY SizeComesIn
<1>4. pos = 2 /\ amByte \in StreamBytes(1) /\ mpc \in {"even", "final", "go"} /\ frame \in Outgoing
  BY SizeComesIn
<1>5. StreamLen' = StreamLen /\ StreamLen = 2 + Rounded(Len(frame)) /\ Len(frame) \in Word
  BY <1>1, <1>4, StreamLength DEF StreamLen, Lockstep, Quiet
<1>6. size' = Len(frame)
  BY SizeComesIn
<1>7. rak' /\ got' = 0 /\ buf' = <<>> /\ Len(frame) \in Nat
  <2>1. Len(frame) \in Nat
    BY <1>5 DEF Word
  <2>2. got = 0 /\ buf = <<>>
    BY DEF IInv, WithinFrame, SizeChecked
  <2> QED
    BY <2>1, <2>2
<1>8. \/ Len(frame) > 0 /\ stage' = "even" /\ UNCHANGED status
      \/ Len(frame) = 0 /\ op = "send" /\ stage' = "end" /\ status' = "OK"
  <2>1. Len(frame) = 0 => op = "send"
    <3>1. frame \in Seq(Byte) /\ (Len(frame) = 0 => frame = <<>>)
      BY <1>4, OutgoingFits
    <3>2. op = "bsend" => <<>> \notin Outgoing
      BY DEF Timely, Lockstep, Quiet
    <3> QED
      BY <3>1, <3>2, <1>1, <1>4, Commands
  <2> QED
    <3>1. Len(frame) \in Nat /\ ~TooLarge(Len(frame))
      BY <1>6, <1>7
    <3> QED
      BY <3>1, <2>1, <1>1, <1>6 DEF Finish
<1>9. WantReq' = TRUE
  BY <1>1, <1>8, Commands DEF WantReq
<1>10. Parked'
  BY <1>1, <1>2, <1>7, <1>8 DEF Lockstep, Parked, Sending, Burst, Commanded, Finish
<1>11. Sending'
  <2>1. Moved' = 2
    BY <1>7, <1>8 DEF Moved
  <2>2. Len(frame) = 0 => StreamLen = 2
    BY <1>5 DEF Rounded
  <2>3. SendPlaces'
    BY <1>1, <1>4, <1>5, <1>8, <2>2, Commands DEF Lockstep, Sending, SendPlaces
  <2> QED
    BY <1>1, <1>3, <1>4, <1>5, <1>7, <1>8, <1>9, <2>1, <2>3 DEF Lockstep, Sending, Burst
<1>12. Filling'
  <2>1. Len(frame) = 0 => got' = Rounded(size')
    BY <1>6, <1>7 DEF Rounded
  <2> QED
    BY <2>1, <1>1, <1>4, <1>6, <1>7, <1>8, CopiedNothing DEF Filling
<1> QED
  BY <1>2, <1>10, <1>11, <1>12 DEF Lockstep

\* A byte on the lines that is not taken is the next one of the frame.
LEMMA NextByte ==
  ASSUME IInv, Lockstep, Timely, sel, op \in SendOps, stage \in DataStages, req = WantReq,
         StoreByte
  PROVE  /\ buf' \in Seq(Byte) /\ Len(buf') = got' /\ got' = got + 1 /\ got \in Nat
         /\ frame' = frame => Copied(buf', frame')
         /\ pos = got + 3 /\ frame \in Outgoing /\ size = Len(frame)
         /\ StreamLen = 2 + Rounded(Len(frame)) /\ Rounded(Len(frame)) \in Nat
<1>1. Commanded /\ cmd = CmdOf[op] /\ op \in AllOps /\ cmd \in SendCmds /\ stage \notin SizeStages
  BY Engaged, Commands DEF Commanded, DataStages, SizeStages
<1>2. Moved = got + 2
  BY DEF Moved, DataStages
<1>3. /\ size = Len(frame) /\ Len(buf) = got /\ Copied(buf, frame) /\ frame \in Outgoing
      /\ frame \in Seq(Byte) /\ Len(frame) \in Nat
  BY <1>1, OutgoingFits DEF Lockstep, Filling
<1>4. pos = Moved + 1 /\ amByte \in StreamBytes(Moved) /\ amOut /\ ~avrOut
  BY <1>1 DEF Lockstep, Sending, SendPlaces, DataStages
<1>5. buf \in Seq(Byte) /\ got \in Nat /\ amByte \in Byte
  BY DEF IInv, TypeOK, ProtoTypeOK, LinesTypeOK
<1>6. got + 1 <= Len(frame) => amByte = frame[got + 1]
  BY <1>2, <1>3, <1>4, <1>5 DEF StreamBytes
<1>7. buf' = Append(buf, amByte) /\ got' = got + 1
  BY <1>4, Read DEF StoreByte
<1>8. Copied(Append(buf, amByte), frame) /\ Len(Append(buf, amByte)) = got + 1
  BY <1>3, <1>5, <1>6, CopiedNext
<1>9. StreamLen = 2 + Rounded(Len(frame)) /\ Rounded(Len(frame)) \in Nat
  BY <1>3, StreamLength DEF Lockstep, Quiet, Rounded
<1> QED
  BY <1>2, <1>3, <1>4, <1>5, <1>7, <1>8, <1>9

\* They take an even byte.
LEMMA SendEvenStep ==
  ASSUME IInv, Lockstep, Timely, SendEven, UNCHANGED <<amLines, amigaState>>
  PROVE  Lockstep'
<1> USE DEF SendEven, Goto, SizeStages, DataStages, ExitStages, WaitStages
<1>1. /\ Commanded /\ Commanded' /\ stage' # "last"
      /\ sel /\ op \in SendOps /\ op \in AllOps /\ cmd = CmdOf[op]
      /\ Burst <=> op = "bsend"
  BY Engaged, Commands DEF Commanded
<1>2. Quiet' /\ Routines' /\ Calling' /\ Receiving' /\ Emptying' /\ Done' /\ Handed'
  BY <1>1, AvrSends
<1> USE DEF amLines, amigaState
<1>3. req = WantReq /\ req = TRUE /\ rak
  <2>1. WantReq = TRUE
    BY Commands DEF WantReq
  <2>2. req = WantReq
    BY DEF Lockstep, Parked
  <2>3. rak
    BY <1>1 DEF Lockstep, Sending
  <2> QED
    BY <2>1, <2>2, <2>3
<1>4. mpc \in {"odd", "b_odd"}
  BY <1>1, <1>3 DEF Lockstep, Sending, SendPlaces
<1>5. /\ Len(buf') = got' /\ got' = got + 1 /\ got \in Nat /\ Copied(buf', frame')
      /\ pos = got + 3 /\ frame \in Outgoing /\ size = Len(frame)
  BY <1>1, <1>3, NextByte
<1>6. WantReq' = FALSE /\ (rak' <=> Burst)
  <2>1. WantReq' = FALSE
    BY Commands DEF WantReq
  <2>2. rak' <=> Burst
    BY <1>3 DEF Ack, Burst
  <2> QED
    BY <2>1, <2>2
<1>7. Parked'
  BY <1>1, <1>2 DEF Lockstep, Parked, Sending, Burst, Commanded
<1>8. Sending'
  <2>1. StreamLen' = StreamLen
    BY DEF StreamLen
  <2>2. Moved' = got' + 2
    BY DEF Moved
  <2>3. SendPlaces'
    BY <1>1, <1>4, Commands DEF Lockstep, Sending, SendPlaces
  <2>4. Burst' <=> Burst
    BY DEF Burst
  <2>5. stage' = "odd" /\ req' = req /\ pos' = pos /\ mpc' = mpc /\ ~avrOut /\ avrOut' = avrOut
    BY <1>1 DEF Lockstep, Sending
  <2>6. pos' = Moved'
    BY <2>2, <2>5, <1>5
  <2>71. req' = TRUE
    BY <2>5, <1>3
  <2>72. WantReq' = FALSE
    BY <1>6
  <2>7. req' # WantReq'
    BY <2>71, <2>72
  <2> QED
    BY <1>1, <1>3, <1>4, <1>6, <2>1, <2>3, <2>4, <2>5, <2>6, <2>7 DEF Lockstep, Sending
<1>9. Filling'
  BY <1>1, <1>5 DEF Filling
<1> QED
  BY <1>2, <1>7, <1>8, <1>9 DEF Lockstep

\* They take an odd byte: the loop goes on as long as the frame does.
LEMMA SendOddStep ==
  ASSUME IInv, Lockstep, Timely, SendOdd, UNCHANGED <<amLines, amigaState>>
  PROVE  Lockstep'
<1> USE DEF SendOdd, Goto, SizeStages, DataStages, ExitStages, WaitStages
<1>1. /\ Commanded /\ Commanded' /\ stage' # "last"
      /\ sel /\ op \in SendOps /\ op \in AllOps /\ cmd = CmdOf[op]
      /\ cmd \in SendCmds /\ (Burst <=> op = "bsend")
  BY Engaged, Commands DEF Commanded, Finish
<1>2. Quiet' /\ Routines' /\ Calling' /\ Receiving' /\ Emptying' /\ Done' /\ Handed'
  BY <1>1, AvrSends
<1> USE DEF amLines, amigaState
<1>3. req = WantReq /\ ~req
  <2>1. WantReq = FALSE
    BY Commands DEF WantReq
  <2>2. req = WantReq
    BY DEF Lockstep, Parked
  <2> QED
    BY <2>1, <2>2
<1>4. mpc \in IF op = "send" THEN {"even", "final"} ELSE {"go", "b_even", "b_end"}
  BY <1>1, <1>3 DEF Lockstep, Sending, SendPlaces
<1>5. /\ Len(buf') = got' /\ got' = got + 1 /\ got \in Nat /\ Copied(buf', frame')
      /\ pos = got + 3 /\ frame \in Outgoing /\ size = Len(frame)
      /\ StreamLen = 2 + Rounded(Len(frame)) /\ Rounded(Len(frame)) \in Nat
  BY <1>1, <1>3, NextByte
<1>6. mpc # "go" /\ got < Rounded(size)
  <2>1. mpc = "go" => pos = 2
    BY <1>1, <1>4, Commands DEF Lockstep, Sending
  <2>2. got < Rounded(size)
    BY DEF IInv, WithinFrame
  <2> QED
    BY <2>1, <2>2, <1>5
<1>7. \/ got' < Rounded(size) /\ stage' = "even" /\ UNCHANGED status
         /\ mpc \in IF op = "send" THEN {"even"} ELSE {"b_even"}
      \/ got' = Rounded(size) /\ op = "send" /\ stage' = "end" /\ status' = "OK" /\ mpc = "final"
      \/ got' = Rounded(size) /\ op = "bsend" /\ stage' = "exit1" /\ UNCHANGED status /\ mpc = "b_end"
  <2>1. mpc \in {"even", "b_even"} => pos < StreamLen
    BY <1>1 DEF Lockstep, Sending
  <2>2. mpc \in {"final", "b_end"} => pos >= StreamLen
    BY <1>1 DEF Lockstep, Sending
  <2>3. got' < Rounded(size) <=> pos < StreamLen
    BY <1>5
  <2>4. ~(got' < Rounded(size)) => got' = Rounded(size)
    BY <1>5, <1>6
  <2>5. pos < StreamLen <=> ~(pos >= StreamLen)
    BY <1>5
  <2>6. op \in {"send", "bsend"}
    BY <1>1, Commands
  <2>7. CASE got' < Rounded(size)
    <3>1. mpc \notin {"final", "b_end"} /\ ~(got' >= Rounded(size))
      BY <2>7, <2>2, <2>3, <2>5, <1>5
    <3> QED
      BY <2>7, <2>6, <3>1, <1>4, <1>6
  <2>8. CASE ~(got' < Rounded(size))
    <3>1. got' >= Rounded(size)
      BY <2>8, <1>5
    <3>2. mpc \in {"final", "b_end"}
      BY <2>8, <2>1, <2>3, <2>6, <1>4, <1>6
    <3> QED
      BY <3>1, <3>2, <2>4, <2>6, <2>8, <1>1, <1>4 DEF Finish
  <2> QED
    BY <2>7, <2>8
<1>8. /\ rak' = TRUE /\ (stage' = "even" => WantReq' = TRUE)
  BY <1>1, Commands DEF WantReq, Ack, Lockstep, Sending
<1>9. Parked'
  <2>1. seen' = "none" /\ avrOut' = avrOut /\ ~avrOut /\ cmd' = cmd
    BY <1>1 DEF Lockstep, Sending, Finish
  <2>2. stage' \in ExitStages => Burst'
    BY <1>1, <1>7 DEF Burst
  <2> QED
    BY <2>1, <2>2, <1>1, <1>2, <1>7, <1>8 DEF Lockstep, Parked, Commanded
<1>10. Sending'
  <2>1. StreamLen' = StreamLen
    BY DEF StreamLen
  <2>2. Moved' = got' + 2
    BY <1>7 DEF Moved
  <2>3. SendPlaces'
    BY <1>1, <1>7, Commands DEF Lockstep, Sending, SendPlaces
  <2> QED
    BY <1>1, <1>3, <1>5, <1>7, <1>8, <2>1, <2>2, <2>3 DEF Lockstep, Sending, Burst
<1>11. Filling'
  BY <1>1, <1>5, <1>7 DEF Filling, Rounded
<1> QED
  BY <1>2, <1>9, <1>10, <1>11 DEF Lockstep

----------------------------------------------------------------------------
(* Steps of the AVR in a receive *)

\* What such a step does not touch.
LEMMA AvrRecvs ==
  ASSUME IInv, Lockstep, sel, op \notin SendOps, Commanded, stage # "end", Commanded',
         stage' = "last" => got' = Rounded(size),
         UNCHANGED <<amLines, amigaState, cmd, size, buf, delivered>>
  PROVE  Quiet' /\ Routines' /\ Calling' /\ Sending' /\ Filling' /\ Emptying' /\ Done' /\ Handed'
<1> USE DEF amLines, amigaState
<1>1. Quiet' /\ Routines' /\ Calling' /\ Sending'
  BY DEF Lockstep, Quiet, Routines, Calling, Sending, Commanded
<1>2. Done' /\ Handed'
  <2>1. stage = "last" \/ mpc \notin {"exit", "drop_sel", "idle", "rak1"}
    BY ReceivePlaces DEF Lockstep, Quiet, Receiving, RecvPlaces, Commanded, WaitStages, SizeStages,
       DataStages, ExitStages
  <2> QED
    BY <2>1 DEF Lockstep, Done, Handed, Commanded
<1>3. cmd \in RecvCmds /\ cmd \notin SendCmds
  <2>1. cmd = CmdOf[op] /\ op \in AllOps
    BY DEF Lockstep, Receiving, IInv, TypeOK, AmigaTypeOK
  <2> QED
    BY <2>1, CommandOfOp, Commands
<1>4. stage \in WaitStages \cup {"first", "end"}
  BY DEF IInv, TypeOK, ProtoTypeOK, Stages, Commanded
<1>5. Filling' /\ Emptying'
  BY <1>3, <1>4 DEF Lockstep, Filling, Emptying, Commanded
<1> QED
  BY <1>1, <1>2, <1>5

\* cmd_recv and cmd_recv_burst put the high byte of the size on the lines.
LEMMA RecvSizeHiStep ==
  ASSUME IInv, Lockstep, Timely, RecvSizeHi, UNCHANGED <<amLines, amigaState>>
  PROVE  Lockstep'
<1> USE DEF RecvSizeHi, Goto, SizeStages, DataStages, ExitStages, WaitStages
<1>1. Commanded /\ Commanded' /\ sel /\ op \notin SendOps /\ op \in AllOps /\ cmd = CmdOf[op]
  BY Engaged, Commands DEF Commanded
<1>2. Quiet' /\ Routines' /\ Calling' /\ Sending' /\ Filling' /\ Emptying' /\ Done' /\ Handed'
  BY <1>1, AvrRecvs
<1> USE DEF amLines, amigaState
<1>3. req = TRUE
  BY DEF Lockstep, Parked, WantReq
<1>4. mpc = "size_hi"
  BY <1>1, <1>3 DEF Lockstep, Receiving, RecvPlaces, RecvLines
<1>5. WantReq' = FALSE
  BY DEF WantReq
<1>6. Parked'
  BY <1>1, <1>2 DEF Lockstep, Parked, Burst, Commanded
<1>7. Receiving'
  <2>1. RecvPlaces'
    BY <1>4 DEF RecvPlaces
  <2>2. RecvLines'
    BY <1>1, <1>4 DEF Lockstep, Receiving, RecvLines
  <2>3. Moved' = 1 /\ Fetched' = 0
    BY <1>4 DEF Moved, Fetched
  <2>4. (avrByte \in Offered(Moved))'
    BY <2>3 DEF Offered, SizeHi
  <2>5. Fetched' = Moved' - 1 /\ mpc' = "size_hi"
    BY <1>4, <2>3
  <2>6. req' # WantReq'
    BY <1>3, <1>5
  <2>7. Interlocked'
    BY <2>4, <2>5, <2>6 DEF Interlocked
  <2>8. Paced'
    BY <1>4 DEF Paced
  <2> QED
    BY <1>1, <2>1, <2>2, <2>7, <2>8 DEF Receiving
<1> QED
  BY <1>2, <1>6, <1>7 DEF Lockstep

\* They put the low byte.
LEMMA RecvSizeLoStep ==
  ASSUME IInv, Lockstep, Timely, RecvSizeLo, UNCHANGED <<amLines, amigaState>>
  PROVE  Lockstep'
<1> USE DEF RecvSizeLo, Goto, SizeStages, DataStages, ExitStages, WaitStages
<1>1. /\ Commanded /\ Commanded' /\ sel /\ op \notin SendOps /\ op \in AllOps /\ cmd = CmdOf[op]
      /\ Burst <=> op = "brecv"
  BY Engaged, Commands DEF Commanded
<1>2. got = 0 /\ got' = 0 /\ size \in Nat /\ (size = 0 => Rounded(size) = 0)
  BY DEF IInv, WithinFrame, TypeOK, ProtoTypeOK, Word, Rounded
<1>3. \/ op = "brecv" /\ stage' = "go"
      \/ op = "recv" /\ stage' = "even"
      \/ op = "recv" /\ stage' = "last" /\ size = 0
  BY <1>1, Commands
<1>4. Quiet' /\ Routines' /\ Calling' /\ Sending' /\ Filling' /\ Emptying' /\ Done' /\ Handed'
  BY <1>1, <1>2, <1>3, AvrRecvs
<1> USE DEF amLines, amigaState
<1>5. req = FALSE
  BY DEF Lockstep, Parked, WantReq
<1>6. mpc = "size_lo"
  BY <1>1, <1>5 DEF Lockstep, Receiving, RecvPlaces, RecvLines
<1>7. WantReq' = TRUE
  BY <1>1, <1>3, Commands DEF WantReq
<1>8. Parked'
  BY <1>1, <1>4, <1>3 DEF Lockstep, Parked, Burst, Commanded
<1>9. Receiving'
  <2>1. RecvPlaces'
    BY <1>3, <1>6 DEF RecvPlaces
  <2>2. RecvLines'
    BY <1>1, <1>3, <1>6 DEF Lockstep, Receiving, RecvLines, Burst
  <2>3. Moved' = 2 /\ Fetched' = 1
    BY <1>2, <1>3, <1>6 DEF Moved, Fetched
  <2>4. (avrByte \in Offered(Moved))'
    BY <2>3 DEF Offered, SizeLo
  <2>5. Fetched' = Moved' - 1 /\ mpc' = "size_lo"
    BY <1>6, <2>3
  <2>6. req' # WantReq'
    BY <1>5, <1>7
  <2>7. Interlocked'
    BY <2>4, <2>5, <2>6 DEF Interlocked
  <2>8. Paced'
    BY <1>3, <1>6 DEF Paced
  <2> QED
    BY <1>1, <2>1, <2>2, <2>7, <2>8 DEF Receiving
<1> QED
  BY <1>4, <1>8, <1>9 DEF Lockstep

\* cmd_recv puts an even byte.
LEMMA RecvEvenStep ==
  ASSUME IInv, Lockstep, Timely, RecvEven, UNCHANGED <<amLines, amigaState>>
  PROVE  Lockstep'
<1> USE DEF RecvEven, Goto, SizeStages, DataStages, ExitStages, WaitStages
<1>1. /\ Commanded /\ Commanded' /\ sel /\ op = "recv" /\ op \notin SendOps
      /\ cmd = CmdOf[op] /\ ~Burst
  BY Engaged, Commands DEF Commanded
<1>2. Quiet' /\ Routines' /\ Calling' /\ Sending' /\ Filling' /\ Emptying' /\ Done' /\ Handed'
  BY <1>1, AvrRecvs
<1> USE DEF amLines, amigaState
<1>3. req = TRUE /\ req = WantReq
  <2>1. WantReq = TRUE
    BY Commands DEF WantReq
  <2>2. req = WantReq
    BY DEF Lockstep, Parked
  <2> QED
    BY <2>1, <2>2
<1>4. mpc = "even"
  BY <1>1, <1>3 DEF Lockstep, Receiving, RecvPlaces, RecvLines
<1>5. got \in Nat /\ got' = got + 1 /\ Moved = got + 2 /\ Moved' = got' + 2
  BY DEF Moved, IInv, TypeOK, ProtoTypeOK
<1>6. WantReq' = FALSE
  BY Commands DEF WantReq
<1>7. Parked'
  BY <1>1, <1>2 DEF Lockstep, Parked, Burst, Commanded
<1>8. Receiving'
  <2>1. RecvPlaces'
    BY <1>1, <1>4 DEF RecvPlaces
  <2>2. RecvLines'
    BY <1>1, <1>4 DEF Lockstep, Receiving, RecvLines
  <2>3. Fetched = Moved /\ Fetched' = Fetched
    BY <1>1, <1>3, <1>4 DEF Lockstep, Receiving, Interlocked, Fetched
  <2>4. (avrByte \in Offered(Moved))'
    BY <1>5 DEF PutByte, BufBytes, Offered
  <2>5. Fetched' = Moved' - 1 /\ mpc' = "even"
    BY <1>4, <1>5, <2>3
  <2>6. req' # WantReq'
    BY <1>3, <1>6
  <2>7. Interlocked'
    BY <2>4, <2>5, <2>6 DEF Interlocked
  <2>8. Paced'
    BY <1>1 DEF Paced
  <2> QED
    BY <1>1, <2>1, <2>2, <2>7, <2>8 DEF Receiving
<1> QED
  BY <1>2, <1>7, <1>8 DEF Lockstep

\* It puts an odd byte.
LEMMA RecvOddStep ==
  ASSUME IInv, Lockstep, Timely, RecvOdd, UNCHANGED <<amLines, amigaState>>
  PROVE  Lockstep'
<1> USE DEF RecvOdd, Goto, SizeStages, DataStages, ExitStages, WaitStages
<1>1. /\ Commanded /\ Commanded' /\ sel /\ op = "recv" /\ op \notin SendOps
      /\ cmd = CmdOf[op] /\ ~Burst
  BY Engaged, Commands DEF Commanded
<1>2. /\ got \in Nat /\ got' = got + 1 /\ Moved = got + 2 /\ Moved' = got' + 2
      /\ stage' = "last" => got' = Rounded(size)
  <2>1. got < Rounded(size) /\ got \in Nat /\ Rounded(size) \in Nat
    BY DEF IInv, TypeOK, ProtoTypeOK, WithinFrame, Word, Rounded
  <2>2. got' = got + 1 /\ (stage' = "last" => ~(got' < Rounded(size)))
    OBVIOUS
  <2> QED
    BY <2>1, <2>2 DEF Moved
<1>3. Quiet' /\ Routines' /\ Calling' /\ Sending' /\ Filling' /\ Emptying' /\ Done' /\ Handed'
  BY <1>1, <1>2, AvrRecvs
<1> USE DEF amLines, amigaState
<1>4. req = FALSE /\ req = WantReq
  <2>1. WantReq = FALSE
    BY Commands DEF WantReq
  <2>2. req = WantReq
    BY DEF Lockstep, Parked
  <2> QED
    BY <2>1, <2>2
<1>5. Fetched = Moved /\ Fetched' = Fetched /\ mpc = "odd"
  <2>1. mpc \in {"size_lo", "odd"}
    BY <1>1, <1>4 DEF Lockstep, Receiving, RecvPlaces, RecvLines
  <2>2. Fetched = Moved
    BY <1>1, <1>4, <2>1 DEF Lockstep, Receiving, Interlocked
  <2> QED
    BY <2>1, <2>2, <1>2 DEF Fetched
<1>6. WantReq' = TRUE /\ stage' \in {"even", "last"}
  BY Commands DEF WantReq
<1>7. Parked'
  BY <1>1, <1>3 DEF Lockstep, Parked, Burst, Commanded
<1>8. Receiving'
  <2>1. RecvPlaces'
    BY <1>1, <1>5, <1>6 DEF RecvPlaces
  <2>2. RecvLines'
    BY <1>1, <1>5, <1>6 DEF Lockstep, Receiving, RecvLines, Burst
  <2>3. (avrByte \in Offered(Moved))'
    BY <1>2 DEF PutByte, BufBytes, Offered
  <2>4. Fetched' = Moved' - 1 /\ mpc' = "odd"
    BY <1>2, <1>5
  <2>5. req' # WantReq'
    BY <1>4, <1>6
  <2>6. Interlocked'
    BY <2>3, <2>4, <2>5 DEF Interlocked
  <2>7. Paced'
    BY <1>1 DEF Paced
  <2> QED
    BY <1>1, <2>1, <2>2, <2>6, <2>7 DEF Receiving
<1> QED
  BY <1>3, <1>7, <1>8 DEF Lockstep

\* Where bursts are used, their loops are timed and no frame is empty.
LEMMA BurstsTimed ==
  ASSUME Timely, op \in Ops, op \in {"bsend", "brecv"}
  PROVE  Timing \in {"loops", "burst"} /\ <<>> \notin Frames \cup Outgoing
  BY TimingAssumption DEF Timely

\* cmd_recv_burst starts the burst.
LEMMA RecvGoStep ==
  ASSUME IInv, Lockstep, Timely, RecvGo, UNCHANGED <<amLines, amigaState>>
  PROVE  Lockstep'
<1> USE DEF RecvGo, Goto, SizeStages, DataStages, ExitStages, WaitStages
<1>1. /\ Commanded /\ sel /\ op = "brecv" /\ op \notin SendOps /\ op \in Ops
      /\ cmd = CmdOf[op] /\ cmd \in RecvCmds /\ Burst
  BY Engaged, Commands DEF Commanded, IInv, StageOfCmd, Lockstep, Quiet
<1>2. size > 0 /\ stage' = "first"
  <2>1. buf \in Frames /\ size = Len(buf) /\ buf \in Seq(Byte)
    BY <1>1 DEF Lockstep, Emptying, IInv, TypeOK, ProtoTypeOK
  <2>2. buf # <<>>
    BY <1>1, <2>1, BurstsTimed
  <2> QED
    BY <2>1, <2>2
<1>3. Quiet' /\ Routines' /\ Calling' /\ Sending' /\ Filling' /\ Emptying' /\ Done' /\ Handed'
  BY <1>1, <1>2, AvrRecvs DEF Commanded
<1> USE DEF amLines, amigaState
<1>4. req = TRUE
  BY DEF Lockstep, Parked, WantReq
<1>5. mpc = "go" /\ rdata = <<>>
  <2>1. mpc = "go"
    BY <1>1, <1>4 DEF Lockstep, Receiving, RecvPlaces, RecvLines
  <2> QED
    BY <2>1, <1>1 DEF IInv, ReadWithinFrame, AmigaReading
<1>6. Parked'
  BY <1>1, <1>2, <1>3 DEF Lockstep, Parked, Burst, Commanded
<1>7. Receiving'
  <2>1. RecvPlaces'
    BY <1>1, <1>2, <1>5 DEF RecvPlaces
  <2>2. RecvLines'
    BY <1>1, <1>2, <1>5 DEF Lockstep, Receiving, RecvLines, Burst
  <2>3. Interlocked'
    BY <1>1, <1>2 DEF Interlocked
  <2>4. Paced'
    BY <1>2, <1>5 DEF Paced
  <2> QED
    BY <1>1, <2>1, <2>2, <2>3, <2>4 DEF Receiving
<1> QED
  BY <1>3, <1>6, <1>7 DEF Lockstep

\* It puts the first byte.
LEMMA RecvFirstStep ==
  ASSUME IInv, Lockstep, Timely, RecvFirst, UNCHANGED <<amLines, amigaState>>
  PROVE  Lockstep'
<1> USE DEF RecvFirst, Goto, SizeStages, DataStages, ExitStages, WaitStages
<1>1. /\ Commanded /\ Commanded' /\ sel /\ op = "brecv" /\ op \notin SendOps
      /\ cmd = CmdOf[op] /\ cmd \in RecvCmds /\ Burst
  BY Engaged, Commands DEF Commanded, IInv, StageOfCmd
<1>2. Quiet' /\ Routines' /\ Calling' /\ Sending' /\ Filling' /\ Emptying' /\ Done' /\ Handed'
  BY <1>1, AvrRecvs
<1> USE DEF amLines, amigaState
<1>3. mpc \in {"go", "b_even"} /\ rdata = <<>> /\ got = 0
  BY <1>1 DEF Lockstep, Receiving, RecvPlaces, Paced, IInv, WithinFrame
<1>4. Parked'
  BY <1>1, <1>2 DEF Lockstep, Parked, Burst, Commanded
<1>5. Receiving'
  <2>1. RecvPlaces'
    BY <1>1, <1>3 DEF RecvPlaces
  <2>2. RecvLines'
    BY <1>1, <1>3 DEF Lockstep, Receiving, RecvLines, Burst
  <2>3. Interlocked'
    BY <1>1 DEF Interlocked
  <2>4. avrByte' \in BufBytes(1) /\ Len(rdata) = 0
    BY <1>3 DEF PutByte
  <2>5. Paced'
    BY <1>3, <2>4 DEF Paced, BufBytes
  <2> QED
    BY <1>1, <2>1, <2>2, <2>3, <2>5 DEF Receiving
<1> QED
  BY <1>2, <1>4, <1>5 DEF Lockstep

\* It puts an odd byte when the Amiga has taken the even one.
LEMMA BurstEvenStep ==
  ASSUME IInv, Lockstep, Timely, BurstEven, UNCHANGED <<amLines, amigaState>>,
         Timing \in {"loops", "burst"} => ~AmigaReads
  PROVE  Lockstep'
<1> USE DEF BurstEven, Goto, SizeStages, DataStages, ExitStages, WaitStages
<1>1. /\ Commanded /\ Commanded' /\ sel /\ op = "brecv" /\ op \notin SendOps /\ op \in Ops
      /\ cmd = CmdOf[op] /\ cmd \in RecvCmds /\ Burst
  BY Engaged, Commands DEF Commanded, Lockstep, Quiet
<1>2. Quiet' /\ Routines' /\ Calling' /\ Sending' /\ Filling' /\ Emptying' /\ Done' /\ Handed'
  BY <1>1, AvrRecvs
<1> USE DEF amLines, amigaState
<1>3. req = FALSE
  <2>1. WantReq = FALSE
    BY DEF WantReq
  <2>2. req = WantReq
    BY DEF Lockstep, Parked
  <2> QED
    BY <2>1, <2>2
<1>4. mpc = "b_odd" /\ Len(rdata) = got + 1
  <2>1. mpc = "b_odd"
    BY <1>1, <1>3, BurstsTimed DEF Lockstep, Receiving, RecvPlaces, RecvLines, AmigaReads
  <2> QED
    BY <2>1, <1>1 DEF Lockstep, Receiving, Paced
<1>5. Parked'
  BY <1>1, <1>2 DEF Lockstep, Parked, Burst, Commanded
<1>6. Receiving'
  <2>1. RecvPlaces'
    BY <1>1, <1>4 DEF RecvPlaces
  <2>2. RecvLines'
    BY <1>1, <1>4 DEF Lockstep, Receiving, RecvLines, Burst
  <2>3. Interlocked'
    BY <1>1 DEF Interlocked
  <2>4. avrByte' \in BufBytes(got + 2)
    BY DEF PutByte
  <2>5. Paced'
    BY <1>4, <2>4 DEF Paced, BufBytes
  <2> QED
    BY <1>1, <2>1, <2>2, <2>3, <2>5 DEF Receiving
<1> QED
  BY <1>2, <1>5, <1>6 DEF Lockstep

\* It puts the next word or leaves the loop when the Amiga has taken the odd byte: both ends
\* count the same words.
LEMMA BurstOddStep ==
  ASSUME IInv, Lockstep, Timely, BurstOdd, UNCHANGED <<amLines, amigaState>>,
         Timing \in {"loops", "burst"} => ~AmigaReads
  PROVE  Lockstep'
<1> USE DEF BurstOdd, Goto, SizeStages, DataStages, ExitStages, WaitStages
<1>1. /\ Commanded /\ Commanded' /\ sel /\ op = "brecv" /\ op \notin SendOps /\ op \in Ops
      /\ cmd = CmdOf[op] /\ cmd \in RecvCmds /\ Burst /\ stage' # "last"
  BY Engaged, Commands DEF Commanded, Lockstep, Quiet
<1>2. Quiet' /\ Routines' /\ Calling' /\ Sending' /\ Filling' /\ Emptying' /\ Done' /\ Handed'
  BY <1>1, AvrRecvs
<1> USE DEF amLines, amigaState
<1>3. req = TRUE
  <2>1. WantReq = TRUE
    BY DEF WantReq
  <2>2. req = WantReq
    BY DEF Lockstep, Parked
  <2> QED
    BY <2>1, <2>2
<1>4. mpc \in {"b_even", "b_end"} /\ Len(rdata) = got + 2
  <2>1. mpc \in {"b_even", "b_end"}
    BY <1>1, <1>3, BurstsTimed DEF Lockstep, Receiving, RecvPlaces, RecvLines, AmigaReads
  <2> QED
    BY <2>1, <1>1 DEF Lockstep, Receiving, Paced
<1>5. got' = got + 2 /\ got \in Nat /\ Rounded(size) \in Nat
  BY DEF IInv, TypeOK, ProtoTypeOK, Word, Rounded
<1>6. mpc = "b_end" <=> got' = Rounded(size)
  <2>1. Padded(rsize) = Rounded(size)
    BY <1>1, <1>4 DEF Lockstep, Emptying, Padded, Rounded
  <2>2. mpc = "b_end" => Len(rdata) = Rounded(size)
    BY <1>1, <2>1 DEF Lockstep, Receiving, Paced
  <2>3. mpc = "b_even" => Len(rdata) < Rounded(size)
    BY <1>1, <2>1 DEF IInv, ReadWithinFrame, AmigaReading
  <2> QED
    BY <1>4, <1>5, <2>2, <2>3
<1>7. got' <= Rounded(size)
  <2>1. got % 2 = 0 /\ got < Rounded(size) /\ Rounded(size) % 2 = 0
    BY <1>1 DEF IInv, WithinFrame, TypeOK, ProtoTypeOK, Word, Rounded
  <2> QED
    BY <2>1, <1>5
<1>8. \/ mpc = "b_even" /\ stage' = "even" /\ avrByte' \in BufBytes(got' + 1)
      \/ mpc = "b_end" /\ stage' = "exit1" /\ got' = Rounded(size)
  BY <1>4, <1>5, <1>6, <1>7 DEF PutByte
<1>9. Parked'
  BY <1>1, <1>2 DEF Lockstep, Parked, Burst, Commanded
<1>10. Receiving'
  <2>1. RecvPlaces'
    BY <1>1, <1>8 DEF RecvPlaces
  <2>2. RecvLines'
    BY <1>1, <1>8 DEF Lockstep, Receiving, RecvLines, Burst
  <2>3. Interlocked'
    BY <1>1, <1>8 DEF Interlocked
  <2>4. (mpc = "b_end" => Len(rdata) = Padded(rsize))' /\ Len(rdata) = got'
    BY <1>1, <1>4, <1>5 DEF Lockstep, Receiving, Paced
  <2>5. Paced'
    BY <1>8, <2>4 DEF Paced, BufBytes
  <2> QED
    BY <1>1, <2>1, <2>2, <2>3, <2>5 DEF Receiving
<1> QED
  BY <1>2, <1>9, <1>10 DEF Lockstep

\* The first toggle behind a burst.
LEMMA BurstExit1Step ==
  ASSUME IInv, Lockstep, Timely, BurstExit1, UNCHANGED <<amLines, amigaState>>
  PROVE  Lockstep'
<1> USE DEF BurstExit1, Goto, SizeStages, DataStages, ExitStages, WaitStages
<1>1. /\ Commanded /\ Commanded' /\ sel /\ op \in {"bsend", "brecv"} /\ op \in AllOps
      /\ cmd = CmdOf[op] /\ Burst
  BY Engaged DEF Commanded, Lockstep, Parked
<1>2. req = WantReq
  BY DEF Lockstep, Parked
<1>3. CASE op = "bsend"
  <2>1. op \in SendOps /\ cmd = CmdSendBurst
    BY <1>1, <1>3, Commands
  <2>2. Quiet' /\ Routines' /\ Calling' /\ Receiving' /\ Emptying' /\ Done' /\ Handed'
    BY <1>1, <2>1, AvrSends
  <2> USE DEF amLines, amigaState
  <2>3. WantReq = TRUE
    BY <2>1 DEF WantReq
  <2>4. mpc = "sync1"
    BY <1>1, <1>2, <2>1, <2>3 DEF Lockstep, Sending, SendPlaces
  <2>5. rak' = FALSE
    <3>1. cmd # CmdRecvBurst
      BY <2>1, Commands
    <3> QED
      BY <3>1
  <2>6. Parked'
    BY <1>1, <2>2 DEF Lockstep, Parked, Burst, Commanded
  <2>7. Sending'
    <3>1. StreamLen' = StreamLen /\ Moved' = Moved /\ pos = Moved
      BY <1>1, <2>1 DEF StreamLen, Moved, Lockstep, Sending
    <3>2. SendPlaces'
      BY <1>1, <1>3, <2>4 DEF Lockstep, Sending, SendPlaces
    <3> QED
      BY <1>1, <2>1, <2>4, <2>5, <3>1, <3>2 DEF Lockstep, Sending, Burst
  <2>8. Filling'
    BY <1>1, <2>1 DEF Lockstep, Filling, Commanded
  <2> QED
    BY <2>2, <2>6, <2>7, <2>8 DEF Lockstep
<1>4. CASE op = "brecv"
  <2>1. op \notin SendOps /\ cmd = CmdRecvBurst
    BY <1>1, <1>4, Commands
  <2>2. Quiet' /\ Routines' /\ Calling' /\ Sending' /\ Filling' /\ Emptying' /\ Done' /\ Handed'
    BY <1>1, <2>1, AvrRecvs
  <2> USE DEF amLines, amigaState
  <2>3. WantReq = FALSE
    BY <2>1, Commands DEF WantReq
  <2>4. mpc = "sync1"
    BY <1>1, <1>2, <1>4, <2>1, <2>3 DEF Lockstep, Receiving, RecvPlaces, RecvLines
  <2>5. rak' = TRUE
    BY <2>1
  <2>6. Parked'
    BY <1>1, <2>2 DEF Lockstep, Parked, Burst, Commanded
  <2>7. Receiving'
    <3>1. RecvPlaces'
      BY <1>4, <2>4 DEF RecvPlaces
    <3>2. RecvLines'
      BY <1>1, <2>1, <2>4, <2>5 DEF Lockstep, Receiving, RecvLines, Burst
    <3>3. Interlocked'
      BY <1>4 DEF Interlocked
    <3>4. Paced'
      BY <1>1, <2>1, <2>4 DEF Lockstep, Receiving, Paced
    <3> QED
      BY <1>1, <2>1, <3>1, <3>2, <3>3, <3>4 DEF Receiving
  <2> QED
    BY <2>2, <2>6, <2>7 DEF Lockstep
<1> QED
  BY <1>1, <1>3, <1>4

\* The second one: the handler accounts the whole frame.
LEMMA BurstExit2Step ==
  ASSUME IInv, Lockstep, Timely, BurstExit2, UNCHANGED <<amLines, amigaState>>
  PROVE  Lockstep'
<1> USE DEF BurstExit2, Finish, Goto, SizeStages, DataStages, ExitStages, WaitStages
<1>1. /\ Commanded /\ Commanded' /\ sel /\ op \in {"bsend", "brecv"} /\ op \in AllOps
      /\ cmd = CmdOf[op] /\ Burst
  BY Engaged DEF Commanded, Lockstep, Parked
<1>2. req = WantReq
  BY DEF Lockstep, Parked
<1>3. CASE op = "bsend"
  <2>1. op \in SendOps /\ cmd = CmdSendBurst /\ cmd \in SendCmds
    BY <1>1, <1>3, Commands
  <2>2. Quiet' /\ Routines' /\ Calling' /\ Receiving' /\ Emptying' /\ Done' /\ Handed'
    BY <1>1, <2>1, AvrSends
  <2> USE DEF amLines, amigaState
  <2>3. WantReq = FALSE
    BY <2>1 DEF WantReq
  <2>4. mpc = "sync2" /\ ~avrOut
    BY <1>1, <1>2, <1>3, <2>1, <2>3 DEF Lockstep, Sending, SendPlaces
  <2>5. rak' = TRUE /\ ~avrOut' /\ status' = "OK"
    <3>1. got = Rounded(size) /\ got \in Nat
      BY <1>1, <2>1 DEF Lockstep, Filling, IInv, TypeOK, ProtoTypeOK
    <3>2. ~(got < Rounded(size))
      BY <3>1
    <3>3. rak' = TRUE /\ ~avrOut'
      BY <2>1, <2>4
    <3> QED
      BY <3>2, <3>3
  <2>6. Parked'
    BY <1>1, <2>2, <2>5 DEF Lockstep, Parked, Burst, Commanded
  <2>7. Sending'
    <3>1. StreamLen' = StreamLen /\ Moved' = Moved /\ pos = Moved
      BY <1>1, <2>1 DEF StreamLen, Moved, Lockstep, Sending
    <3>2. SendPlaces'
      BY <1>1, <1>3, <2>4 DEF Lockstep, Sending, SendPlaces
    <3> QED
      BY <1>1, <2>1, <2>4, <2>5, <3>1, <3>2 DEF Lockstep, Sending, Burst
  <2>8. Filling'
    BY <1>1, <2>1, <2>5 DEF Lockstep, Filling, Commanded
  <2> QED
    BY <2>2, <2>6, <2>7, <2>8 DEF Lockstep
<1>4. CASE op = "brecv"
  <2>1. op \notin SendOps /\ cmd = CmdRecvBurst
    BY <1>1, <1>4, Commands
  <2>2. Quiet' /\ Routines' /\ Calling' /\ Sending' /\ Filling' /\ Emptying' /\ Done' /\ Handed'
    BY <1>1, <2>1, AvrRecvs
  <2> USE DEF amLines, amigaState
  <2>3. WantReq = TRUE
    BY <2>1, Commands DEF WantReq
  <2>4. mpc = "sync2"
    BY <1>1, <1>2, <1>4, <2>1, <2>3 DEF Lockstep, Receiving, RecvPlaces, RecvLines
  <2>5. rak' = FALSE /\ avrOut' = FALSE
    <3>1. cmd # CmdSendBurst
      BY <2>1, Commands
    <3> QED
      BY <3>1
  <2>6. Parked'
    BY <1>1, <2>2, <2>5 DEF Lockstep, Parked, Burst, Commanded
  <2>7. Receiving'
    <3>1. RecvPlaces'
      BY <1>4, <2>4 DEF RecvPlaces
    <3>2. RecvLines'
      BY <1>1, <2>1, <2>4, <2>5 DEF Lockstep, Receiving, RecvLines, Burst
    <3>3. Interlocked'
      BY <1>4 DEF Interlocked
    <3>4. Paced'
      BY <1>1, <2>1, <2>4 DEF Lockstep, Receiving, Paced
    <3> QED
      BY <1>1, <2>1, <3>1, <3>2, <3>3, <3>4 DEF Receiving
  <2> QED
    BY <2>2, <2>6, <2>7 DEF Lockstep
<1> QED
  BY <1>1, <1>3, <1>4

\* cmd_recv returns: it saw the last toggle, or SELECT fall behind it.
LEMMA LeaveRecv ==
  ASSUME IInv, Lockstep, stage = "last", sel => seen = "hit", stage' = "end", seen' = "none",
         avrOut' = FALSE,
         UNCHANGED <<cmd, size, buf, got, delivered, rak, avrByte, amLines, amigaState>>
  PROVE  Lockstep'
<1> USE DEF amLines, amigaState, SizeStages, DataStages, ExitStages, WaitStages
<1>1. /\ Commanded /\ Commanded' /\ cmd = CmdRecv /\ ~Burst /\ cmd \notin SendCmds /\ rak
  <2>1. cmd = CmdRecv
    BY DEF IInv, StageOfCmd
  <2>2. ~Burst /\ cmd \notin SendCmds
    BY <2>1, Commands DEF Burst
  <2> QED
    BY <2>1, <2>2 DEF Commanded, Lockstep, Parked
<1>2. Quiet' /\ Routines' /\ Calling' /\ Sending' /\ Handed'
  BY <1>1 DEF Lockstep, Quiet, Routines, Calling, Sending, SendPlaces, Handed, Commanded
<1>3. Parked'
  BY <1>1 DEF Lockstep, Parked, Burst, Commanded
<1>4. Filling' /\ Emptying' /\ Done'
  BY <1>1 DEF Lockstep, Filling, Emptying, Done, Commanded
<1>5. Receiving'
  <2> SUFFICES ASSUME sel, op \notin SendOps PROVE Receiving'
    BY DEF Receiving
  <2>1. op = "recv" /\ op # "brecv" /\ mpc \in {"exit", "drop_sel"} /\ cmd = CmdOf[op]
    <3>1. op \in AllOps /\ cmd = CmdOf[op]
      BY <1>1 DEF Lockstep, Receiving, IInv, TypeOK, AmigaTypeOK
    <3>2. op = "recv"
      BY <1>1, <3>1, CommandOfOp
    <3> QED
      BY <1>1, <3>1, <3>2 DEF Lockstep, Receiving, RecvPlaces
  <2>2. RecvPlaces'
    BY <2>1 DEF RecvPlaces
  <2>3. RecvLines'
    BY <1>1, <2>1 DEF Lockstep, Receiving, RecvLines, Burst
  <2>4. Interlocked' /\ Paced'
    BY <2>1 DEF Interlocked, Paced
  <2> QED
    BY <2>1, <2>2, <2>3, <2>4 DEF Receiving
<1> QED
  BY <1>2, <1>3, <1>4, <1>5 DEF Lockstep

\* wait_req gives up in one place only: behind the last byte of cmd_recv.
LEMMA LostSelectStep ==
  ASSUME IInv, Lockstep, Timely, LostSelect, UNCHANGED <<amLines, amigaState>>
  PROVE  Lockstep'
<1>1. stage = "last" /\ cmd = CmdRecv
  BY DEF LostSelect, Lockstep, Quiet, Parked, WaitStages, SizeStages, DataStages, ExitStages,
     IInv, StageOfCmd
<1>2. ~Untimed /\ ReleasedBy(stage)
  BY <1>1 DEF Untimed, ReleasedBy, DataStages, ExitStages
<1> QED
  BY <1>1, <1>2, LeaveRecv DEF LostSelect, GiveUp, Finish, Goto

\* It saw the toggle.
LEMMA RecvLastStep ==
  ASSUME IInv, Lockstep, Timely, RecvLast, UNCHANGED <<amLines, amigaState>>
  PROVE  Lockstep'
<1>1. ReleasedBy(stage)
  BY DEF RecvLast, ReleasedBy, IInv, StageOfCmd
<1> QED
  BY <1>1, LeaveRecv DEF RecvLast, Finish, Goto

----------------------------------------------------------------------------
(* Steps of the AVR outside a transfer, and samples of REQ *)

\* wait_sel(0) is over: the frame of a send goes to proc_func.
LEMMA EndTransferStep ==
  ASSUME IInv, Lockstep, "timeout" \notin AvrFaults, EndTransfer, UNCHANGED <<amLines, amigaState>>
  PROVE  Lockstep'
<1> USE DEF EndTransfer, Goto, SizeStages, DataStages, ExitStages, WaitStages
<1>1. ~sel /\ stage' = "idle" /\ seen' = "none" /\ ~Commanded' /\ Commanded
  BY DEF Commanded
<1> USE DEF amLines, amigaState
<1>2. Quiet' /\ Routines' /\ Calling' /\ Sending' /\ Receiving'
  BY <1>1 DEF Lockstep, Quiet, Routines, Calling, Sending, Receiving
<1>3. Parked'
  BY <1>1 DEF Lockstep, Parked
<1>4. Filling' /\ Emptying'
  BY <1>1 DEF Filling, Emptying
<1>5. delivered = <<>> /\ (cmd \in SendCmds => delivered' = <<buf>>)
  <2>1. delivered = <<>>
    BY DEF Lockstep, Handed
  <2>2. cmd \in SendCmds => status = "OK"
    BY DEF Lockstep, Filling
  <2> QED
    BY <2>1, <2>2 DEF Deliverable
<1>6. Done'
  BY <1>1, <1>5 DEF Lockstep, Done
<1>7. cmd \in SendCmds => Arrived(buf, frame)
  <2> SUFFICES ASSUME cmd \in SendCmds PROVE Arrived(buf, frame)
    OBVIOUS
  <2>1. /\ size = Len(frame) /\ Len(buf) = got /\ Copied(buf, frame) /\ got = Rounded(size)
        /\ frame \in Seq(Byte)
    BY <1>1 DEF Lockstep, Filling, IInv, TypeOK, AmigaTypeOK
  <2>2. Len(frame) \in Nat /\ Len(frame) <= Rounded(Len(frame)) /\ Rounded(Len(frame)) \in Nat
    BY <2>1 DEF Rounded
  <2> QED
    BY <2>1, <2>2 DEF Arrived, Copied
<1>8. Handed'
  <2>1. CASE cmd \in SendCmds
    BY <2>1, <1>1, <1>5, <1>7 DEF Handed, Arrived, Rounded
  <2>2. CASE cmd \notin SendCmds
    BY <2>2, <1>5 DEF Handed, Deliverable
  <2> QED
    BY <2>1, <2>2
<1> QED
  BY <1>2, <1>3, <1>4, <1>6, <1>8 DEF Lockstep

\* The handler notices a call.
LEMMA HandleIdleStep ==
  ASSUME IInv, Lockstep, HandleIdle, UNCHANGED <<amLines, amigaState>>
  PROVE  Lockstep'
<1> USE DEF HandleIdle, Goto, SizeStages, DataStages, ExitStages, WaitStages
<1>1. sel /\ ~Commanded /\ ~Commanded' /\ stage' = "command" /\ seen' = "none" /\ delivered = <<>>
  BY DEF Commanded, Lockstep, Handed
<1> USE DEF amLines, amigaState, avrLines
<1>2. Quiet' /\ Routines' /\ Calling' /\ Sending' /\ Receiving' /\ Parked'
  BY <1>1 DEF Lockstep, Quiet, Routines, Calling, Sending, Receiving, Parked
<1>3. Filling' /\ Emptying'
  BY <1>1 DEF Lockstep, Filling, Emptying
<1>4. Done' /\ Handed'
  BY <1>1 DEF Lockstep, Calling, Done, Handed
<1> QED
  BY <1>2, <1>3, <1>4 DEF Lockstep

\* It reads the command of the routine that called.
LEMMA ReadCommandStep ==
  ASSUME IInv, Lockstep, ReadCommand, UNCHANGED <<amLines, amigaState>>
  PROVE  Lockstep'
<1> USE DEF ReadCommand, Goto, SizeStages, DataStages, ExitStages, WaitStages
<1>1. sel /\ ~Commanded /\ ~Commanded' /\ stage' = "confirm" /\ seen' = "none" /\ delivered = <<>>
  BY DEF Commanded, Lockstep, Parked, Handed
<1>2. cmd' = CmdOf[op]
  <2>1. amOut /\ ~avrOut /\ amByte = CmdOf[op]
    BY <1>1 DEF Lockstep, Calling, Parked
  <2> QED
    BY <2>1, Read
<1> USE DEF amLines, amigaState, avrLines
<1>3. Quiet' /\ Routines' /\ Calling' /\ Sending' /\ Receiving' /\ Parked'
  BY <1>1, <1>2 DEF Lockstep, Quiet, Routines, Calling, Sending, Receiving, Parked
<1>4. Filling' /\ Emptying'
  BY <1>1 DEF Lockstep, Filling, Emptying
<1>5. Done' /\ Handed'
  BY <1>1 DEF Lockstep, Calling, Done, Handed
<1> QED
  BY <1>3, <1>4, <1>5 DEF Lockstep

\* It confirms the command.
LEMMA ConfirmStep ==
  ASSUME IInv, Lockstep, Timely, Confirm, UNCHANGED <<amLines, amigaState>>
  PROVE  Lockstep'
<1> USE DEF Confirm, Goto, SizeStages, DataStages, ExitStages, WaitStages
<1>1. /\ sel /\ ~Commanded /\ delivered = <<>> /\ cmd = CmdOf[op] /\ op \in Ops /\ op \in AllOps
      /\ mpc = (IF op \in SendOps THEN "even" ELSE "ack") /\ pos = 0 /\ amOut /\ req = FALSE
      /\ ~avrOut
  BY DEF Commanded, Lockstep, Quiet, Parked, Calling, Handed, IInv, TypeOK, AmigaTypeOK
<1>2. /\ stage' = "size_hi" /\ seen' = "none" /\ Commanded' /\ rak' = TRUE /\ got' = 0
      /\ UNCHANGED <<cmd, delivered, avrOut, avrByte, status>>
      /\ \/ op \in SendOps /\ cmd \in SendCmds /\ cmd \notin RecvCmds /\ buf' = <<>> /\ size' = 0
         \/ /\ op \notin SendOps /\ cmd \notin SendCmds /\ cmd \in RecvCmds
            /\ buf' \in Frames /\ size' = Len(buf')
  <2>1. (cmd \in SendCmds <=> op \in SendOps) /\ (cmd \in RecvCmds <=> op \notin SendOps)
    BY <1>1, CommandOfOp
  <2> QED
    BY <2>1 DEF Commanded
<1> USE DEF amLines, amigaState
<1>3. Quiet' /\ Routines' /\ Calling'
  BY <1>1, <1>2 DEF Lockstep, Quiet, Routines, Calling
<1>4. Parked'
  BY <1>1, <1>2 DEF Lockstep, Parked
<1>5. WantReq' = TRUE
  BY <1>2 DEF WantReq
<1>6. Sending'
  <2> SUFFICES ASSUME op \in SendOps PROVE Sending'
    BY DEF Sending
  <2>1. StreamLen' = StreamLen /\ Moved' = 0 /\ pos < StreamLen
    <3>1. frame \in Outgoing
      BY <1>1 DEF Lockstep, Filling
    <3>2. StreamLen = 2 + Rounded(Len(frame)) /\ Rounded(Len(frame)) \in Nat
      BY <1>1, <3>1, StreamLength DEF Word, Rounded
    <3>3. pos < StreamLen
      BY <1>1, <3>2
    <3> QED
      BY <1>2, <3>3 DEF StreamLen, Moved
  <2>2. SendPlaces'
    BY <1>1, <1>2 DEF SendPlaces
  <2>3. req' # WantReq'
    BY <1>1, <1>5
  <2> QED
    BY <1>1, <1>2, <2>1, <2>2, <2>3 DEF Sending
<1>7. Filling' /\ Emptying'
  BY <1>1, <1>2 DEF Lockstep, Filling, Emptying
<1>8. Receiving'
  <2> SUFFICES ASSUME op \notin SendOps PROVE Receiving'
    BY DEF Receiving
  <2>1. RecvPlaces' /\ RecvLines' /\ Interlocked' /\ Paced'
    BY <1>1, <1>2 DEF RecvPlaces, RecvLines, Interlocked, Paced
  <2> QED
    BY <1>1, <1>2, <2>1 DEF Receiving
<1>9. Done' /\ Handed'
  BY <1>1, <1>2 DEF Done, Handed
<1> QED
  BY <1>3, <1>4, <1>6, <1>7, <1>8, <1>9 DEF Lockstep

\* A sample of REQ changes nothing but what the handler knows.
LEMMA SampleStep ==
  ASSUME IInv, Lockstep, stage \in WaitStages,
         seen' \in {"none", "hit", "miss"}, seen' = "hit" => req = WantReq,
         UNCHANGED <<stage, cmd, size, buf, got, status, delivered, avrLines, amLines, amigaState>>
  PROVE  Lockstep'
<1> USE DEF amLines, amigaState, avrLines, SizeStages, DataStages, ExitStages, WaitStages
<1>1. WantReq' = WantReq /\ Moved' = Moved /\ Fetched' = Fetched /\ StreamLen' = StreamLen
  BY DEF WantReq, Moved, Fetched, StreamLen
<1>2. Quiet' /\ Routines' /\ Calling' /\ Filling' /\ Emptying' /\ Done' /\ Handed'
  BY DEF Lockstep, Quiet, Routines, Calling, Filling, Emptying, Done, Handed, Commanded
<1>3. Sending'
  BY <1>1 DEF Lockstep, Sending, SendPlaces, Commanded, Burst, StreamBytes
<1>4. Parked'
  BY <1>1 DEF Lockstep, Parked, Burst, Commanded
<1>5. Receiving'
  <2> SUFFICES ASSUME sel, Commanded, op \notin SendOps PROVE Receiving'
    BY DEF Receiving, Commanded
  <2>1. cmd = CmdOf[op] /\ RecvPlaces /\ RecvLines /\ Interlocked /\ Paced
    BY DEF Lockstep, Receiving
  <2>2. RecvPlaces'
    <3>1. op = "recv" /\ stage = "last" /\ seen' = "hit" => mpc \in {"exit", "drop_sel"}
      <4> SUFFICES ASSUME op = "recv", stage = "last", seen' = "hit"
                   PROVE  mpc \in {"exit", "drop_sel"}
        OBVIOUS
      <4>1. WantReq = TRUE
        BY DEF WantReq
      <4>2. req = TRUE
        BY <4>1
      <4> QED
        BY <4>2, <2>1 DEF RecvPlaces, RecvLines
    <3> QED
      BY <2>1, <3>1 DEF RecvPlaces
  <2>3. RecvLines' /\ Paced'
    BY <2>1 DEF RecvLines, Paced, Burst, BufBytes
  <2>4. Interlocked'
    BY <2>1, <1>1 DEF Interlocked, Offered, BufBytes
  <2> QED
    BY <2>1, <2>2, <2>3, <2>4 DEF Receiving
<1> QED
  BY <1>2, <1>3, <1>4, <1>5 DEF Lockstep

\* fill_func refuses: the handler is in its main loop again, and may hear the same call.
LEMMA FillFailsStep ==
  ASSUME IInv, Lockstep, FillFails, UNCHANGED <<amLines, amigaState>>
  PROVE  Lockstep'
<1> USE DEF FillFails, Goto, SizeStages, DataStages, ExitStages, WaitStages
<1>1. sel /\ ~Commanded /\ ~Commanded' /\ stage' = "idle" /\ seen' = "none" /\ delivered = <<>>
  BY DEF Commanded, Lockstep, Parked, Handed
<1> USE DEF amLines, amigaState, avrLines
<1>2. Quiet' /\ Routines' /\ Calling' /\ Sending' /\ Receiving' /\ Parked'
  BY <1>1 DEF Lockstep, Quiet, Routines, Calling, Sending, Receiving, Parked
<1>3. Filling' /\ Emptying'
  BY <1>1 DEF Lockstep, Filling, Emptying
<1>4. Done' /\ Handed'
  BY <1>1 DEF Lockstep, Calling, Done, Handed
<1> QED
  BY <1>2, <1>3, <1>4 DEF Lockstep

\* A step in which the AVR gives a command up, because the Amiga is late or its frame too large.
AvrBreaksOff ==
  \/ WaitTimeout
  \/ EndTransfer /\ "timeout" \in AvrFaults
  \/ SendSizeLo /\ TooLarge(size')

\* Every other step of the AVR keeps the two ends in step.
LEMMA AvrInStep ==
  ASSUME IInv, Lockstep, Timely, AvrStep, ~AvrBreaksOff
  PROVE  Lockstep'
<1>1. /\ UNCHANGED <<amLines, amigaState>> /\ (Timing \in {"loops", "burst"} => ~AmigaReads)
      /\ ProtoStep
  BY DEF AvrStep
<1>2. CASE HandleIdle \/ ReadCommand \/ Confirm \/ EndTransfer
  BY <1>1, <1>2, HandleIdleStep, ReadCommandStep, ConfirmStep, EndTransferStep DEF AvrBreaksOff
<1>3. CASE FillFails \/ WaitTimeout
  BY <1>1, <1>3, FillFailsStep DEF AvrBreaksOff
<1>4. CASE PollReq
  BY <1>1, <1>4, SampleStep DEF PollReq
<1>5. CASE KeepWaiting
  <2>1. stage \in WaitStages
    BY <1>5 DEF KeepWaiting, Lockstep, Parked
  <2> QED
    BY <1>1, <1>5, <2>1, SampleStep DEF KeepWaiting
<1>6. CASE LostSelect \/ RecvLast
  BY <1>1, <1>6, LostSelectStep, RecvLastStep
<1>7. CASE SendSizeHi \/ SendSizeLo \/ SendEven \/ SendOdd
  BY <1>1, <1>7, SendSizeHiStep, SendSizeLoStep, SendEvenStep, SendOddStep DEF AvrBreaksOff
<1>8. CASE RecvSizeHi \/ RecvSizeLo \/ RecvEven \/ RecvOdd
  BY <1>1, <1>8, RecvSizeHiStep, RecvSizeLoStep, RecvEvenStep, RecvOddStep
<1>9. CASE RecvGo \/ RecvFirst \/ BurstEven \/ BurstOdd
  BY <1>1, <1>9, RecvGoStep, RecvFirstStep, BurstEvenStep, BurstOddStep
<1>10. CASE BurstExit1 \/ BurstExit2
  BY <1>1, <1>10, BurstExit1Step, BurstExit2Step
<1> QED
  BY <1>1, <1>2, <1>3, <1>4, <1>5, <1>6, <1>7, <1>8, <1>9, <1>10 DEF ProtoStep

----------------------------------------------------------------------------
(* Steps of the Amiga in a send *)

\* What a step of a send routine does not touch.
LEMMA AmigaSends ==
  ASSUME IInv, Lockstep, sel, op \in SendOps, Commanded, mpc' \notin {"idle", "rak1"},
         UNCHANGED <<sel, op, frame, avrLines, avrState>>
  PROVE  Quiet' /\ Calling' /\ Filling' /\ Receiving' /\ Emptying' /\ Handed'
<1> USE DEF avrLines, avrState
<1>1. Quiet' /\ Calling' /\ Receiving'
  BY DEF Lockstep, Quiet, Calling, Receiving, Commanded
<1>2. Filling' /\ Emptying' /\ Handed'
  BY DEF Lockstep, Filling, Emptying, Handed, Commanded
<1> QED
  BY <1>1, <1>2

\* A step that leaves REQ, or leaves it where the handler waits for it, keeps the AVR's part.
LEMMA AmigaParked ==
  ASSUME Lockstep, sel' \/ stage \notin {"command", "confirm"},
         seen = "hit" /\ stage # "last" => req' = WantReq,
         UNCHANGED <<avrLines, avrState>>
  PROVE  /\ Parked' /\ WantReq' = WantReq /\ Moved' = Moved
         /\ (Burst' <=> Burst) /\ (Commanded' <=> Commanded)
<1> USE DEF avrLines, avrState
<1>1. WantReq' = WantReq /\ Moved' = Moved /\ (Burst' <=> Burst) /\ (Commanded' <=> Commanded)
  BY DEF WantReq, Moved, Burst, Commanded
<1> QED
  BY <1>1 DEF Lockstep, Parked

\* hwsend and hwburstsend put an even byte: RAK says that the AVR took the last one.
LEMMA SendEvenByteStep ==
  ASSUME IInv, Lockstep, Timely, SendEvenByte, UNCHANGED <<avrLines, avrState>>
  PROVE  Lockstep'
<1> USE DEF SendEvenByte, Jump, SizeStages, DataStages, ExitStages, WaitStages
<1>1. sel /\ rak = TRUE /\ Commanded /\ ~req /\ ~avrOut /\ amOut
  <2>1. sel /\ rak = TRUE
    BY DEF Lockstep, Quiet, RakOk, WantRak
  <2>2. Commanded
    BY <2>1 DEF Lockstep, Parked
  <2> QED
    BY <2>1, <2>2 DEF Lockstep, Sending
<1>2. /\ op \in {"send", "bsend"} /\ op \in Ops /\ cmd = CmdOf[op]
      /\ Burst <=> op = "bsend"
  BY <1>1, Together, Commands
<1>3. stage = "size_hi" \/ (stage = "even" /\ op = "send")
  BY <1>1, <1>2 DEF Lockstep, Sending, SendPlaces
<1>4. WantReq = TRUE
  BY <1>2, <1>3, Commands DEF WantReq
<1>5. pos = Moved /\ req # WantReq
  BY <1>1, <1>3, <1>4 DEF Lockstep, Sending
<1>6. Quiet' /\ Calling' /\ Filling' /\ Receiving' /\ Emptying' /\ Handed'
  BY <1>1, AmigaSends
<1>7. /\ Parked' /\ WantReq' = WantReq /\ Moved' = Moved
      /\ (Burst' <=> Burst) /\ (Commanded' <=> Commanded)
  BY <1>1, <1>5, AmigaParked DEF Lockstep, Parked
<1>8. Routines' /\ Done'
  BY <1>2 DEF Routines, Done
<1> USE DEF avrLines, avrState
<1>9. Sending'
  <2>1. req' = TRUE /\ req' = WantReq' /\ pos' = Moved' + 1
    BY <1>4, <1>5, <1>7 DEF PutNext
  <2>2. (amByte \in StreamBytes(Moved))'
    BY <1>5, <1>7 DEF PutNext, StreamBytes
  <2>3. SendPlaces'
    BY <1>2, <1>3 DEF SendPlaces
  <2>4. op = "bsend" => pos' = 1
    BY <1>1, <1>2 DEF Lockstep, Sending, PutNext
  <2> QED
    BY <1>1, <1>2, <1>3, <1>7, <2>1, <2>2, <2>3, <2>4 DEF Sending, Lockstep
<1> QED
  BY <1>6, <1>7, <1>8, <1>9 DEF Lockstep

\* They put an odd byte.
LEMMA SendOddByteStep ==
  ASSUME IInv, Lockstep, Timely, SendOddByte, UNCHANGED <<avrLines, avrState>>
  PROVE  Lockstep'
<1> USE DEF SendOddByte, Jump, SizeStages, DataStages, ExitStages, WaitStages
<1>1. sel /\ rak = FALSE /\ Commanded /\ req = TRUE /\ ~avrOut /\ amOut
  <2>1. sel /\ rak = FALSE
    BY DEF Lockstep, Quiet, RakOk, WantRak
  <2>2. Commanded
    BY <2>1 DEF Lockstep, Calling
  <2> QED
    BY <2>1, <2>2 DEF Lockstep, Sending
<1>2. /\ op \in {"send", "bsend"} /\ op \in Ops /\ cmd = CmdOf[op]
      /\ Burst <=> op = "bsend"
  BY <1>1, Together, Commands
<1>3. stage = "size_lo" \/ (stage = "odd" /\ op = "send")
  BY <1>1, <1>2 DEF Lockstep, Sending, SendPlaces
<1>4. WantReq = FALSE
  BY <1>2, <1>3, Commands DEF WantReq
<1>5. pos = Moved /\ req # WantReq
  BY <1>1, <1>3, <1>4 DEF Lockstep, Sending
<1>6. Quiet' /\ Calling' /\ Filling' /\ Receiving' /\ Emptying' /\ Handed'
  BY <1>1, AmigaSends
<1>7. /\ Parked' /\ WantReq' = WantReq /\ Moved' = Moved
      /\ (Burst' <=> Burst) /\ (Commanded' <=> Commanded)
  BY <1>1, <1>5, AmigaParked DEF Lockstep, Parked
<1>8. Routines' /\ Done'
  BY <1>2 DEF Routines, Done
<1> USE DEF avrLines, avrState
<1>9. Sending'
  <2>1. req' = FALSE /\ req' = WantReq' /\ pos' = Moved' + 1 /\ StreamLen' = StreamLen
    BY <1>4, <1>5, <1>7 DEF PutNext, StreamLen
  <2>2. (amByte \in StreamBytes(Moved))'
    BY <1>5, <1>7 DEF PutNext, StreamBytes
  <2>3. SendPlaces'
    BY <1>2, <1>3 DEF SendPlaces
  <2>4. op = "bsend" => pos' = 2 /\ mpc' = "go"
    BY <1>1, <1>2 DEF Lockstep, Sending, PutNext
  <2>5. op = "send" => mpc' = IF pos' < StreamLen THEN "even" ELSE "final"
    BY <2>1
  <2>6. /\ mpc' \in {"even", "b_even"} => pos' < StreamLen'
        /\ mpc' \in {"final", "b_end"} => pos' >= StreamLen'
    <3>1. StreamLen \in Nat /\ pos' \in Nat
      <4>1. frame \in Outgoing
        BY <1>1 DEF Lockstep, Filling
      <4>2. StreamLen = 2 + Rounded(Len(frame)) /\ Len(frame) \in Word
        BY <4>1, <1>2, StreamLength
      <4> QED
        BY <4>2 DEF Rounded, Word, PutNext, IInv, TypeOK, AmigaTypeOK
    <3> QED
      BY <3>1, <2>1, <2>4, <2>5, <1>2
  <2> QED
    BY <1>1, <1>2, <1>3, <1>7, <2>1, <2>2, <2>3, <2>4, <2>5, <2>6 DEF Sending, Lockstep
<1> QED
  BY <1>6, <1>7, <1>8, <1>9 DEF Lockstep

\* The whole stream is out and taken: what is left of the frame for the AVR is nothing.
LEMMA StreamTaken ==
  ASSUME IInv, Lockstep, Timely, sel, Commanded, op \in SendOps, stage \in DataStages,
         pos = Moved
  PROVE  pos < StreamLen
<1>1. cmd \in SendCmds /\ op \in Ops
  BY Together
<1>2. frame \in Outgoing /\ size = Len(frame)
  BY <1>1 DEF Lockstep, Filling, DataStages, SizeStages
<1>3. StreamLen = 2 + Rounded(Len(frame)) /\ Rounded(Len(frame)) \in Nat
  BY <1>1, <1>2, StreamLength DEF Word, Rounded
<1>4. got < Rounded(size) /\ got \in Nat
  BY DEF IInv, WithinFrame, TypeOK, ProtoTypeOK
<1>5. pos = got + 2
  BY DEF Moved, DataStages
<1> QED
  BY <1>2, <1>3, <1>4, <1>5

\* hwsend returns: RAK answers the last byte only when the AVR stored it.
LEMMA SendFinalStep ==
  ASSUME IInv, Lockstep, Timely, SendFinal, UNCHANGED <<avrLines, avrState>>
  PROVE  Lockstep'
<1> USE DEF SendFinal, Return, Jump, SizeStages, DataStages, ExitStages, WaitStages, amLines
<1>1. sel /\ rak = TRUE /\ Commanded /\ op = "send" /\ op \in SendOps
  <2>1. sel /\ rak = TRUE /\ op = "send"
    BY DEF Lockstep, Quiet, Routines, RakOk, WantRak
  <2> QED
    BY <2>1, Commands DEF Lockstep, Calling
<1>2. cmd = CmdOf[op] /\ ~Burst /\ ~req /\ op \in Ops /\ cmd = CmdSend /\ cmd \in SendCmds
  BY <1>1, Together DEF Lockstep, Sending
<1>3. stage = "even" \/ stage = "end"
  BY <1>1, <1>2 DEF Lockstep, Sending, SendPlaces
<1>4. stage # "even"
  <2> SUFFICES ASSUME stage = "even" PROVE FALSE
    OBVIOUS
  <2>1. WantReq = TRUE
    BY <1>2, Commands DEF WantReq
  <2>2. pos = Moved /\ pos >= StreamLen
    BY <1>1, <1>2, <2>1 DEF Lockstep, Sending
  <2>3. StreamLen \in Nat /\ pos \in Nat /\ pos < StreamLen
    <3>1. pos < StreamLen
      BY <1>1, <2>2, StreamTaken
    <3>2. frame \in Outgoing
      BY <1>1 DEF Lockstep, Filling
    <3>3. StreamLen = 2 + Rounded(Len(frame)) /\ Len(frame) \in Word
      BY <1>1, <1>2, <3>2, StreamLength
    <3> QED
      BY <3>1, <3>3 DEF Rounded, Word, IInv, TypeOK, AmigaTypeOK
  <2> QED
    BY <2>2, <2>3
<1>5. Quiet' /\ Calling' /\ Filling' /\ Receiving' /\ Emptying' /\ Handed'
  BY <1>1, AmigaSends
<1>6. /\ Parked' /\ WantReq' = WantReq /\ Moved' = Moved
      /\ (Burst' <=> Burst) /\ (Commanded' <=> Commanded)
  BY <1>1, AmigaParked DEF Lockstep, Parked
<1> USE DEF avrLines, avrState
<1>7. Routines' /\ Done'
  BY <1>1, <1>2, <1>3, <1>4 DEF Routines, Done
<1>8. Sending'
  <2>1. SendPlaces' /\ pos = Moved
    BY <1>1, <1>3, <1>4 DEF Lockstep, SendPlaces, Sending
  <2> QED
    BY <1>1, <1>2, <1>3, <1>4, <1>6, <2>1 DEF Lockstep, Sending
<1> QED
  BY <1>5, <1>6, <1>7, <1>8 DEF Lockstep

\* In a burst the Amiga touches the lines only when the AVR has taken notice of its last edge.
LEMMA BurstPaced ==
  ASSUME Timely, op \in Ops, op \in {"bsend", "brecv"}, Burst,
         stage \in DataStages \cup ExitStages \cup {"first"},
         Timing \in {"loops", "burst"} => AmigaReads \/ ~AvrDue, ~AmigaReads
  PROVE  stage # "first" /\ seen # "hit" /\ req # WantReq
  BY BurstsTimed DEF AvrDue, InBurstLoop

\* hwburstsend enters its loop.
LEMMA BurstSendGoStep ==
  ASSUME IInv, Lockstep, Timely, BurstSendGo, UNCHANGED <<avrLines, avrState>>
  PROVE  Lockstep'
<1> USE DEF BurstSendGo, Jump, SizeStages, DataStages, ExitStages, WaitStages, amLines
<1>1. sel /\ rak = TRUE /\ Commanded /\ op \in SendOps /\ op # "send"
  <2>1. sel /\ rak = TRUE
    BY DEF Lockstep, Quiet, RakOk, WantRak
  <2> QED
    BY <2>1, Commands DEF Lockstep, Calling
<1>2. cmd = CmdOf[op] /\ Burst /\ op \in Ops
  BY <1>1, Together
<1>3. stage \in {"even", "odd"} /\ pos = 2
  BY <1>1, <1>2 DEF Lockstep, Sending, SendPlaces
<1>4. pos < StreamLen
  <2>1. frame \in Outgoing /\ frame \in Seq(Byte)
    BY <1>1, OutgoingFits DEF Lockstep, Filling
  <2>2. frame # <<>>
    BY <1>2, <2>1, BurstsTimed
  <2>3. StreamLen = 2 + Rounded(Len(frame)) /\ Len(frame) \in Nat /\ Len(frame) > 0
    BY <1>1, <1>2, <2>1, <2>2, StreamLength
  <2> QED
    BY <1>3, <2>3 DEF Rounded
<1>5. Quiet' /\ Calling' /\ Filling' /\ Receiving' /\ Emptying' /\ Handed'
  BY <1>1, AmigaSends
<1>6. /\ Parked' /\ WantReq' = WantReq /\ Moved' = Moved
      /\ (Burst' <=> Burst) /\ (Commanded' <=> Commanded)
  BY <1>1, AmigaParked DEF Lockstep, Parked
<1> USE DEF avrLines, avrState
<1>7. Routines' /\ Done'
  BY DEF Routines, Done
<1>8. Sending'
  <2>1. SendPlaces' /\ StreamLen' = StreamLen
    BY <1>1, <1>3 DEF SendPlaces, StreamLen
  <2> QED
    BY <1>1, <1>2, <1>3, <1>4, <1>6, <2>1 DEF Lockstep, Sending, StreamBytes
<1> QED
  BY <1>5, <1>6, <1>7, <1>8 DEF Lockstep

\* It puts an even byte.
LEMMA BurstPutEvenStep ==
  ASSUME IInv, Lockstep, Timely, BurstPutEven, UNCHANGED <<avrLines, avrState>>,
         Timing \in {"loops", "burst"} => AmigaReads \/ ~AvrDue
  PROVE  Lockstep'
<1> USE DEF BurstPutEven, Jump, SizeStages, DataStages, ExitStages, WaitStages
<1>1. sel /\ Commanded /\ op \in SendOps /\ op # "send"
  BY Commands DEF Lockstep, Quiet, Calling
<1>2. cmd = CmdOf[op] /\ Burst /\ op \in Ops /\ req = FALSE /\ ~AmigaReads /\ cmd = CmdSendBurst
  BY <1>1, Together DEF Lockstep, Sending, AmigaReads
<1>3. stage \in {"even", "odd"}
  BY <1>1, <1>2 DEF Lockstep, Sending, SendPlaces
<1>4. seen # "hit" /\ req # WantReq
  BY <1>1, <1>2, <1>3, BurstPaced
<1>5. stage = "even" /\ WantReq = TRUE /\ pos = Moved
  <2>1. WantReq <=> stage = "even"
    BY <1>2, <1>3, Commands DEF WantReq
  <2>2. stage = "even"
    BY <1>2, <1>3, <1>4, <2>1
  <2>3. WantReq = TRUE
    BY <1>2, <2>2, Commands DEF WantReq
  <2> QED
    BY <1>1, <1>4, <2>2, <2>3 DEF Lockstep, Sending
<1>6. Quiet' /\ Calling' /\ Filling' /\ Receiving' /\ Emptying' /\ Handed'
  BY <1>1, AmigaSends
<1>7. /\ Parked' /\ WantReq' = WantReq /\ Moved' = Moved
      /\ (Burst' <=> Burst) /\ (Commanded' <=> Commanded)
  BY <1>1, <1>4, AmigaParked
<1>8. Routines' /\ Done'
  BY DEF Routines, Done
<1> USE DEF avrLines, avrState
<1>9. Sending'
  <2>1. req' = TRUE /\ req' = WantReq' /\ pos' = Moved' + 1
    BY <1>5, <1>7 DEF PutNext
  <2>2. (amByte \in StreamBytes(Moved))'
    BY <1>5, <1>7 DEF PutNext, StreamBytes
  <2>3. SendPlaces'
    BY <1>1, <1>5 DEF SendPlaces
  <2> QED
    BY <1>1, <1>2, <1>5, <1>7, <2>1, <2>2, <2>3 DEF Sending, Lockstep
<1> QED
  BY <1>6, <1>7, <1>8, <1>9 DEF Lockstep

\* It puts an odd byte and counts the words.
LEMMA BurstPutOddStep ==
  ASSUME IInv, Lockstep, Timely, BurstPutOdd, UNCHANGED <<avrLines, avrState>>,
         Timing \in {"loops", "burst"} => AmigaReads \/ ~AvrDue
  PROVE  Lockstep'
<1> USE DEF BurstPutOdd, Jump, SizeStages, DataStages, ExitStages, WaitStages
<1>1. sel /\ Commanded /\ op \in SendOps /\ op # "send"
  BY Commands DEF Lockstep, Quiet, Calling
<1>2. cmd = CmdOf[op] /\ Burst /\ op \in Ops /\ req = TRUE /\ ~AmigaReads /\ cmd = CmdSendBurst
  BY <1>1, Together DEF Lockstep, Sending, AmigaReads
<1>3. stage \in {"even", "odd"}
  BY <1>1, <1>2 DEF Lockstep, Sending, SendPlaces
<1>4. seen # "hit" /\ req # WantReq
  BY <1>1, <1>2, <1>3, BurstPaced
<1>5. stage = "odd" /\ WantReq = FALSE /\ pos = Moved
  <2>1. WantReq <=> stage = "even"
    BY <1>2, <1>3, Commands DEF WantReq
  <2>2. stage = "odd"
    BY <1>2, <1>3, <1>4, <2>1 DEF WantReq
  <2>3. WantReq = FALSE
    BY <1>2, <2>2, Commands DEF WantReq
  <2> QED
    BY <1>1, <1>4, <2>2, <2>3 DEF Lockstep, Sending
<1>6. Quiet' /\ Calling' /\ Filling' /\ Receiving' /\ Emptying' /\ Handed'
  BY <1>1, AmigaSends
<1>7. /\ Parked' /\ WantReq' = WantReq /\ Moved' = Moved
      /\ (Burst' <=> Burst) /\ (Commanded' <=> Commanded)
  BY <1>1, <1>4, AmigaParked
<1>8. Routines' /\ Done'
  BY DEF Routines, Done
<1> USE DEF avrLines, avrState
<1>9. Sending'
  <2>1. req' = FALSE /\ req' = WantReq' /\ pos' = Moved' + 1 /\ StreamLen' = StreamLen
    BY <1>5, <1>7 DEF PutNext, StreamLen
  <2>2. (amByte \in StreamBytes(Moved))'
    BY <1>5, <1>7 DEF PutNext, StreamBytes
  <2>3. SendPlaces'
    BY <1>1, <1>5 DEF SendPlaces
  <2>4. (mpc' = "b_even" /\ pos' < StreamLen') \/ (mpc' = "b_end" /\ pos' >= StreamLen')
    <3>1. StreamLen \in Nat /\ pos' \in Nat
      <4>1. frame \in Outgoing
        BY <1>1 DEF Lockstep, Filling
      <4>2. StreamLen = 2 + Rounded(Len(frame)) /\ Len(frame) \in Word
        BY <4>1, <1>1, <1>2, StreamLength
      <4> QED
        BY <4>2 DEF Rounded, Word, PutNext, IInv, TypeOK, AmigaTypeOK
    <3> QED
      BY <3>1, <2>1
  <2> QED
    BY <1>1, <1>2, <1>5, <1>7, <2>1, <2>2, <2>3, <2>4 DEF Sending, Lockstep
<1> QED
  BY <1>6, <1>7, <1>8, <1>9 DEF Lockstep

\* The first toggle behind the loop.
LEMMA SentEndStep ==
  ASSUME IInv, Lockstep, Timely, BurstEnd, op = "bsend", UNCHANGED <<avrLines, avrState>>,
         Timing \in {"loops", "burst"} => AmigaReads \/ ~AvrDue
  PROVE  Lockstep'
<1> USE DEF BurstEnd, Jump, SizeStages, DataStages, ExitStages, WaitStages
<1>1. sel /\ Commanded /\ op \in SendOps
  BY Commands DEF Lockstep, Quiet, Calling
<1>2. cmd = CmdOf[op] /\ Burst /\ op \in Ops /\ req = FALSE /\ ~AmigaReads /\ cmd = CmdSendBurst
  BY <1>1, Together DEF Lockstep, Sending, AmigaReads
<1>3. stage \in {"even", "odd", "exit1"}
  BY <1>1, <1>2 DEF Lockstep, Sending, SendPlaces
<1>4. seen # "hit" /\ req # WantReq
  BY <1>1, <1>2, <1>3, BurstPaced
<1>5. stage = "exit1" /\ WantReq = TRUE /\ pos = Moved
  <2>1. WantReq <=> stage # "odd"
    BY <1>2, <1>3, Commands DEF WantReq
  <2>2. WantReq = TRUE /\ pos = Moved
    <3>1. stage # "odd"
      BY <1>2, <1>4, <2>1 DEF WantReq
    <3>2. WantReq = TRUE
      BY <1>2, <1>3, <3>1, Commands DEF WantReq
    <3> QED
      BY <1>1, <1>4, <3>2 DEF Lockstep, Sending
  <2>3. stage \notin DataStages
    <3>1. pos >= StreamLen
      BY <1>1 DEF Lockstep, Sending
    <3>2. pos \in Nat /\ StreamLen \in Nat
      <4>1. frame \in Outgoing
        BY <1>1 DEF Lockstep, Filling
      <4>2. StreamLen = 2 + Rounded(Len(frame)) /\ Len(frame) \in Word
        BY <4>1, <1>1, <1>2, StreamLength
      <4> QED
        BY <4>2 DEF Rounded, Word, IInv, TypeOK, AmigaTypeOK
    <3>3. stage \in DataStages => pos < StreamLen
      BY <1>1, <2>2, StreamTaken
    <3> QED
      BY <3>1, <3>2, <3>3
  <2> QED
    BY <1>3, <2>2, <2>3
<1>6. Quiet' /\ Calling' /\ Filling' /\ Receiving' /\ Emptying' /\ Handed'
  BY <1>1, AmigaSends
<1>7. /\ Parked' /\ WantReq' = WantReq /\ Moved' = Moved
      /\ (Burst' <=> Burst) /\ (Commanded' <=> Commanded)
  BY <1>1, <1>4, AmigaParked
<1>8. Routines' /\ Done'
  BY <1>1 DEF Routines, Done
<1> USE DEF avrLines, avrState
<1>9. Sending'
  <2>1. SendPlaces'
    BY <1>1, <1>5 DEF SendPlaces
  <2> QED
    BY <1>1, <1>2, <1>5, <1>7, <2>1 DEF Sending, Lockstep
<1> QED
  BY <1>6, <1>7, <1>8, <1>9 DEF Lockstep

\* The second one.
LEMMA SentSync1Step ==
  ASSUME IInv, Lockstep, Timely, BurstSync1, op = "bsend", UNCHANGED <<avrLines, avrState>>
  PROVE  Lockstep'
<1> USE DEF BurstSync1, Jump, SizeStages, DataStages, ExitStages, WaitStages
<1>1. sel /\ Commanded /\ op \in SendOps /\ rak = FALSE
  BY Commands DEF Lockstep, Quiet, Calling, RakOk, WantRak
<1>2. cmd = CmdOf[op] /\ Burst /\ op \in Ops /\ req = TRUE /\ cmd = CmdSendBurst
  BY <1>1, Together DEF Lockstep, Sending
<1>3. stage = "exit2" /\ pos = Moved
  BY <1>1, <1>2 DEF Lockstep, Sending, SendPlaces
<1>4. seen # "hit"
  <2>1. WantReq = FALSE
    BY <1>2, <1>3 DEF WantReq
  <2> QED
    BY <2>1, <1>2, <1>3 DEF Lockstep, Parked
<1>5. Quiet' /\ Calling' /\ Filling' /\ Receiving' /\ Emptying' /\ Handed'
  BY <1>1, AmigaSends
<1>6. /\ Parked' /\ WantReq' = WantReq /\ Moved' = Moved
      /\ (Burst' <=> Burst) /\ (Commanded' <=> Commanded)
  BY <1>1, <1>4, AmigaParked
<1>7. Routines' /\ Done'
  BY DEF Routines, Done
<1> USE DEF avrLines, avrState
<1>8. Sending'
  <2>1. SendPlaces'
    BY <1>1, <1>3 DEF SendPlaces
  <2> QED
    BY <1>1, <1>2, <1>3, <1>6, <2>1 DEF Sending, Lockstep
<1> QED
  BY <1>5, <1>6, <1>7, <1>8 DEF Lockstep

\* It returns when the AVR has answered both.
LEMMA SentSync2Step ==
  ASSUME IInv, Lockstep, Timely, BurstSync2, op = "bsend", UNCHANGED <<avrLines, avrState>>
  PROVE  Lockstep'
<1> USE DEF BurstSync2, Return, Jump, SizeStages, DataStages, ExitStages, WaitStages, amLines
<1>1. sel /\ Commanded /\ op \in SendOps /\ rak = TRUE
  BY Commands DEF Lockstep, Quiet, Calling, RakOk, WantRak
<1>2. cmd = CmdOf[op] /\ Burst /\ op \in Ops /\ req = FALSE /\ cmd \in SendCmds
  BY <1>1, Together DEF Lockstep, Sending
<1>3. stage = "end" /\ pos = Moved
  BY <1>1, <1>2 DEF Lockstep, Sending, SendPlaces
<1>4. Quiet' /\ Calling' /\ Filling' /\ Receiving' /\ Emptying' /\ Handed'
  BY <1>1, AmigaSends
<1>5. /\ Parked' /\ WantReq' = WantReq /\ Moved' = Moved
      /\ (Burst' <=> Burst) /\ (Commanded' <=> Commanded)
  BY <1>1, AmigaParked DEF Lockstep, Parked
<1> USE DEF avrLines, avrState
<1>6. Routines' /\ Done'
  BY <1>1, <1>2, <1>3 DEF Routines, Done
<1>7. Sending'
  <2>1. SendPlaces'
    BY <1>1, <1>3 DEF SendPlaces
  <2> QED
    BY <1>1, <1>2, <1>3, <1>5, <2>1 DEF Sending, Lockstep
<1> QED
  BY <1>4, <1>5, <1>6, <1>7 DEF Lockstep

----------------------------------------------------------------------------
(* Steps of the Amiga in a receive *)

\* What a step of a receive routine does not touch.
LEMMA AmigaRecvs ==
  ASSUME IInv, Lockstep, sel, op \notin SendOps, Commanded, mpc' \notin {"idle", "rak1"},
         UNCHANGED <<sel, op, frame, avrLines, avrState>>
  PROVE  Quiet' /\ Calling' /\ Sending' /\ Filling' /\ Handed'
<1> USE DEF avrLines, avrState
<1>1. Quiet' /\ Calling' /\ Sending'
  BY DEF Lockstep, Quiet, Calling, Sending, Commanded
<1>2. Filling' /\ Handed'
  BY DEF Lockstep, Filling, Handed, Commanded
<1> QED
  BY <1>1, <1>2

\* What the handler has in pb_buf is what fill_func gave.
LEMMA Filled ==
  ASSUME IInv, Lockstep, Timely, sel, op \notin SendOps, Commanded
  PROVE  /\ buf \in Frames /\ buf \in Seq(Byte) /\ size = Len(buf) /\ size \in Nat /\ size \in Word
         /\ op = "brecv" => size > 0
<1>1. cmd \in RecvCmds /\ op \in Ops
  BY Together
<1>2. stage \in WaitStages \cup {"first", "end"}
  BY DEF IInv, TypeOK, ProtoTypeOK, Stages, Commanded
<1>3. buf \in Frames /\ size = Len(buf) /\ buf \in Seq(Byte) /\ size \in Nat /\ size \in Word
  BY <1>1, <1>2 DEF Lockstep, Emptying, IInv, TypeOK, ProtoTypeOK, Word
<1>4. op = "brecv" => buf # <<>>
  BY <1>1, <1>3, BurstsTimed
<1> QED
  BY <1>3, <1>4

\* hwrecv and hwburstrecv turn the lines around: the AVR has taken the command.
LEMMA RecvAckStep ==
  ASSUME IInv, Lockstep, Timely, RecvAck, UNCHANGED <<avrLines, avrState>>
  PROVE  Lockstep'
<1> USE DEF RecvAck, Jump, SizeStages, DataStages, ExitStages, WaitStages
<1>1. sel /\ rak = TRUE /\ Commanded /\ op \notin SendOps
  <2>1. sel /\ rak = TRUE /\ op \notin SendOps
    BY DEF Lockstep, Quiet, Routines, RakOk, WantRak
  <2> QED
    BY <2>1 DEF Lockstep, Parked
<1>2. op \in {"recv", "brecv"} /\ cmd = CmdOf[op] /\ (Burst <=> op = "brecv")
  BY <1>1, Together, Commands
<1>3. stage = "size_hi"
  BY <1>1, ReceivePlaces DEF Lockstep, Receiving, RecvPlaces, RecvLines
<1>4. WantReq = TRUE
  BY <1>3 DEF WantReq
<1>5. req = FALSE
  BY <1>1 DEF Lockstep, Receiving, RecvLines
<1>6. Quiet' /\ Calling' /\ Sending' /\ Filling' /\ Handed'
  BY <1>1, AmigaRecvs
<1>7. /\ Parked' /\ WantReq' = WantReq /\ Moved' = Moved
      /\ (Burst' <=> Burst) /\ (Commanded' <=> Commanded)
  BY <1>1, <1>4, AmigaParked DEF Lockstep, Parked
<1> USE DEF avrLines, avrState
<1>8. Routines' /\ Done'
  BY <1>1 DEF Routines, Done
<1>9. Emptying'
  BY DEF Lockstep, Emptying
<1>10. Receiving'
  <2>1. RecvPlaces'
    BY <1>3 DEF RecvPlaces
  <2>2. RecvLines'
    BY <1>1, <1>3, <1>7 DEF Lockstep, Receiving, RecvLines
  <2>3. Moved = 0 /\ Fetched' = 0
    BY <1>3 DEF Moved, Fetched
  <2>4. Interlocked'
    BY <1>3, <1>4, <1>7, <2>3 DEF Interlocked
  <2>5. Paced'
    BY <1>3 DEF Paced
  <2> QED
    BY <1>1, <1>2, <2>1, <2>2, <2>4, <2>5 DEF Receiving
<1> QED
  BY <1>6, <1>7, <1>8, <1>9, <1>10 DEF Lockstep

\* They read the high byte of the size.
LEMMA ReadSizeHiStep ==
  ASSUME IInv, Lockstep, Timely, ReadSizeHi, UNCHANGED <<avrLines, avrState>>
  PROVE  Lockstep'
<1> USE DEF ReadSizeHi, Jump, SizeStages, DataStages, ExitStages, WaitStages
<1>1. sel /\ rak = FALSE /\ Commanded /\ op \notin SendOps
  <2>1. sel /\ op \notin SendOps
    BY DEF Lockstep, Quiet, Routines
  <2>2. WantRak = FALSE
    BY <2>1 DEF WantRak
  <2>3. rak = FALSE
    BY <2>2 DEF RakOk
  <2> QED
    BY <2>1, <2>3 DEF Lockstep, Calling
<1>2. op \in {"recv", "brecv"} /\ cmd = CmdOf[op] /\ (Burst <=> op = "brecv")
  BY <1>1, Together, Commands
<1>3. stage = "size_lo"
  BY <1>1, ReceivePlaces DEF Lockstep, Receiving, RecvPlaces, RecvLines
<1>4. WantReq = FALSE
  BY <1>3 DEF WantReq
<1>5. req = TRUE /\ avrOut /\ ~amOut
  BY <1>1, <1>3 DEF Lockstep, Receiving, RecvLines
<1>6. avrByte = SizeHi(size)
  <2>1. Moved = 1
    BY <1>3 DEF Moved
  <2>2. avrByte \in Offered(Moved)
    <3>1. req # WantReq
      BY <1>4, <1>5
    <3> QED
      BY <1>1, <1>3, <3>1 DEF Lockstep, Receiving, Interlocked
  <2> QED
    BY <2>1, <2>2 DEF Offered
<1>7. rsize' = 256 * SizeHi(size)
  BY <1>5, <1>6, Read
<1>8. Quiet' /\ Calling' /\ Sending' /\ Filling' /\ Handed'
  BY <1>1, AmigaRecvs
<1>9. /\ Parked' /\ WantReq' = WantReq /\ Moved' = Moved
      /\ (Burst' <=> Burst) /\ (Commanded' <=> Commanded)
  BY <1>1, <1>4, AmigaParked DEF Lockstep, Parked
<1> USE DEF avrLines, avrState
<1>10. Routines' /\ Done'
  BY <1>1 DEF Routines, Done
<1>11. Emptying'
  BY <1>7 DEF Lockstep, Emptying
<1>12. Receiving'
  <2>1. RecvPlaces'
    BY <1>3 DEF RecvPlaces
  <2>2. RecvLines'
    BY <1>1, <1>3, <1>9 DEF Lockstep, Receiving, RecvLines
  <2>3. Moved = 1 /\ Fetched' = 1
    BY <1>3 DEF Moved, Fetched
  <2>4. Interlocked'
    BY <1>3, <1>4, <1>9, <2>3 DEF Interlocked
  <2>5. Paced'
    BY <1>3 DEF Paced
  <2> QED
    BY <1>1, <1>2, <2>1, <2>2, <2>4, <2>5 DEF Receiving
<1> QED
  BY <1>8, <1>9, <1>10, <1>11, <1>12 DEF Lockstep

\* The size word that is read is the one fill_func gave.
LEMMA SizeGoesOut ==
  ASSUME IInv, Lockstep, ReadSizeLo
  PROVE  /\ Commanded /\ sel /\ op \notin SendOps /\ rak = TRUE /\ req = FALSE /\ got = 0
         /\ \/ stage = "even" /\ op = "recv"
            \/ stage = "last" /\ op = "recv"
            \/ stage = "go" /\ op = "brecv"
         /\ buf \in Frames /\ rsize' = size /\ size = Len(buf)
<1> USE DEF ReadSizeLo, SizeStages, DataStages, ExitStages, WaitStages
<1>1. sel /\ rak = TRUE /\ Commanded /\ op \notin SendOps
  <2>1. sel /\ op \notin SendOps
    BY DEF Lockstep, Quiet, Routines
  <2>2. rak = TRUE
    BY <2>1 DEF RakOk, WantRak
  <2> QED
    BY <2>1, <2>2 DEF Lockstep, Parked
<1>2. /\ op \in {"recv", "brecv"} /\ (Burst <=> op = "brecv") /\ cmd \in RecvCmds
      /\ (op = "recv" <=> cmd = CmdRecv) /\ (op = "brecv" <=> cmd = CmdRecvBurst)
  BY <1>1, Together, Commands
<1>3. \/ stage = "even" /\ op = "recv"
      \/ stage = "last" /\ op = "recv"
      \/ stage = "go" /\ op = "brecv"
  BY <1>1, ReceivePlaces DEF Lockstep, Receiving, RecvPlaces, RecvLines
<1>4. WantReq = TRUE
  BY <1>2, <1>3, Commands DEF WantReq
<1>5. req = FALSE /\ avrOut /\ ~amOut
  BY <1>1, <1>3 DEF Lockstep, Receiving, RecvLines
<1>6. avrByte = SizeLo(size) /\ got = 0
  <2>1. Moved = got + 2 /\ got \in Nat /\ Fetched = 1
    BY <1>3 DEF Moved, Fetched, IInv, TypeOK, ProtoTypeOK
  <2>2. Fetched = Moved - 1 /\ avrByte \in Offered(Moved)
    <3>1. req # WantReq
      BY <1>4, <1>5
    <3> QED
      BY <1>1, <1>3, <3>1 DEF Lockstep, Receiving, Interlocked
  <2>3. Moved = 2
    BY <2>1, <2>2
  <2> QED
    BY <2>1, <2>2, <2>3 DEF Offered
<1>7. buf \in Frames /\ size = Len(buf) /\ size \in Word
  BY <1>2, <1>3 DEF Lockstep, Emptying, IInv, TypeOK, ProtoTypeOK
<1>8. rsize' = size
  <2>1. rsize = 256 * SizeHi(size)
    BY <1>1 DEF Lockstep, Emptying
  <2>2. rsize + avrByte = size
    BY <1>6, <1>7, <2>1, SizeWord
  <2>3. BusValues = {avrByte}
    BY <1>5, Read
  <2> QED
    BY <2>2, <2>3
<1> QED
  BY <1>1, <1>3, <1>5, <1>6, <1>7, <1>8

\* They read the low byte, and the frame fits.
LEMMA ReadSizeLoStep ==
  ASSUME IInv, Lockstep, Timely, ReadSizeLo, rsize' <= MaxFrame, UNCHANGED <<avrLines, avrState>>
  PROVE  Lockstep'
<1> USE DEF ReadSizeLo, Return, Jump, SizeStages, DataStages, ExitStages, WaitStages
<1>1. sel /\ rak = TRUE /\ Commanded /\ op \notin SendOps
  BY SizeGoesOut
<1>2. /\ op \in {"recv", "brecv"} /\ cmd = CmdOf[op] /\ (Burst <=> op = "brecv")
      /\ (op = "recv" <=> cmd = CmdRecv) /\ (op = "brecv" <=> cmd = CmdRecvBurst)
  BY <1>1, Together, Commands
<1>3. \/ stage = "even" /\ op = "recv"
      \/ stage = "last" /\ op = "recv"
      \/ stage = "go" /\ op = "brecv"
  BY SizeGoesOut
<1>4. WantReq = TRUE
  BY <1>2, <1>3, Commands DEF WantReq
<1>5. req = FALSE /\ got = 0
  BY SizeGoesOut
<1>6. /\ buf \in Frames /\ buf \in Seq(Byte) /\ size = Len(buf) /\ size \in Nat /\ size \in Word
      /\ op = "brecv" => size > 0
  BY <1>1, Filled
<1>7. /\ rsize' = size
      /\ \/ size = 0 /\ mpc' = "exit"
         \/ size > 0 /\ mpc' = IF op = "brecv" THEN "go" ELSE "even"
  <2>1. rsize' = size
    BY SizeGoesOut
  <2>2. MaxFrame \in Nat
    BY AmigaAssumption
  <2> QED
    BY <1>6, <2>1, <2>2
<1>8. /\ stage = "last" <=> size = 0
      /\ rdata = <<>> /\ Len(rdata) = 0 /\ Copied(rdata, buf)
  <2>1. stage = "last" => Rounded(size) = 0
    BY <1>5 DEF Lockstep, Emptying
  <2>2. stage = "even" => 0 < Rounded(size)
    BY <1>5 DEF IInv, WithinFrame
  <2>3. (Rounded(size) = 0 <=> size = 0) /\ (size = 0 => ~(0 < Rounded(size)))
    BY <1>6 DEF Rounded
  <2>4. rdata = <<>>
    BY DEF IInv, ReadWithinFrame
  <2> QED
    BY <1>3, <1>6, <2>1, <2>2, <2>3, <2>4, CopiedNothing
<1>9. Quiet' /\ Calling' /\ Sending' /\ Filling' /\ Handed'
  <2>1. mpc' \notin {"idle", "rak1"}
    BY <1>7
  <2> QED
    BY <2>1, <1>1, AmigaRecvs
<1>10. /\ Parked' /\ WantReq' = WantReq /\ Moved' = Moved
       /\ (Burst' <=> Burst) /\ (Commanded' <=> Commanded)
  BY <1>1, <1>4, AmigaParked DEF Lockstep, Parked
<1> USE DEF avrLines, avrState
<1>11. Routines'
  BY <1>2, <1>7, Commands DEF Routines
<1>12. Done' /\ Emptying'
  <2>1. rsize' = size' /\ rsize' = Len(buf') /\ Copied(rdata', buf') /\ op' = op /\ rdata' = rdata
    BY <1>6, <1>7, <1>8
  <2>2. mpc' \in {"exit", "drop_sel", "idle"} => Len(rdata) = Padded(rsize')
    BY <1>7, <1>8 DEF Padded
  <2>3. Done'
    BY <1>1, <2>1, <2>2 DEF Done
  <2>4. Emptying'
    BY <1>7, <2>1 DEF Lockstep, Emptying
  <2> QED
    BY <2>3, <2>4
<1>13. Receiving'
  <2>1. RecvPlaces'
    BY <1>3, <1>7, <1>8 DEF RecvPlaces
  <2>2. RecvLines'
    BY <1>1, <1>7, <1>10 DEF Lockstep, Receiving, RecvLines
  <2>3. Moved = 2 /\ Fetched' = 2
    BY <1>3, <1>5, <1>7, <1>8 DEF Moved, Fetched
  <2>4. Interlocked'
    BY <1>3, <1>4, <1>10, <2>3 DEF Interlocked
  <2>5. Paced'
    BY <1>3, <1>7 DEF Paced
  <2> QED
    BY <1>1, <1>2, <2>1, <2>2, <2>4, <2>5 DEF Receiving
<1> QED
  BY <1>9, <1>10, <1>11, <1>12, <1>13 DEF Lockstep

\* A byte that is offered and read is the next one of the frame.
LEMMA TakeOffered ==
  ASSUME IInv, Lockstep, Timely, sel, op \notin SendOps, Commanded, TakeByte,
         mpc \notin {"ack", "size_hi", "size_lo"}, stage \notin {"size_hi", "end"},
         avrByte \in BufBytes(Len(rdata) + 1)
  PROVE  /\ Len(rdata') = Len(rdata) + 1 /\ Copied(rdata', buf) /\ Len(rdata) \in Nat
         /\ rsize = size /\ size = Len(buf) /\ size \in Nat
         /\ Padded(rsize) = Rounded(size) /\ Rounded(size) \in Nat
<1>1. rsize = size /\ Copied(rdata, buf)
  BY DEF Lockstep, Emptying
<1>2. avrOut /\ ~amOut
  BY DEF Lockstep, Receiving, RecvLines
<1>3. rdata' = Append(rdata, avrByte)
  BY <1>2, Read DEF TakeByte
<1>4. rdata \in Seq(Byte) /\ avrByte \in Byte
  BY DEF IInv, TypeOK, AmigaTypeOK, LinesTypeOK
<1>5. buf \in Seq(Byte) /\ size = Len(buf) /\ size \in Nat
  BY Filled
<1>6. Len(rdata) + 1 <= Len(buf) => avrByte = buf[Len(rdata) + 1]
  BY DEF BufBytes
<1>7. Copied(Append(rdata, avrByte), buf) /\ Len(Append(rdata, avrByte)) = Len(rdata) + 1
  BY <1>1, <1>4, <1>5, <1>6, CopiedNext
<1> QED
  BY <1>1, <1>3, <1>4, <1>5, <1>7 DEF Padded, Rounded

\* hwrecv reads an even byte.
LEMMA ReadEvenByteStep ==
  ASSUME IInv, Lockstep, Timely, ReadEvenByte, UNCHANGED <<avrLines, avrState>>
  PROVE  Lockstep'
<1> USE DEF ReadEvenByte, Jump, SizeStages, DataStages, ExitStages, WaitStages
<1>1. sel /\ rak = FALSE /\ Commanded /\ op \notin SendOps
  <2>1. op \notin SendOps
    BY Commands
  <2>2. WantRak = FALSE
    BY <2>1 DEF WantRak
  <2>3. rak = FALSE
    BY <2>2 DEF RakOk
  <2> QED
    BY <2>1, <2>3 DEF Lockstep, Quiet, Calling
<1>2. cmd = CmdOf[op] /\ ~Burst /\ cmd = CmdRecv
  BY <1>1, Together
<1>3. stage = "odd" /\ req = TRUE
  BY <1>1, <1>2, ReceivePlaces DEF Lockstep, Receiving, RecvPlaces, RecvLines
<1>4. WantReq = FALSE
  BY <1>2, <1>3, Commands DEF WantReq
<1>5. avrByte \in BufBytes(Len(rdata) + 1) /\ Moved = Len(rdata) + 3 /\ Len(rdata) \in Nat
  <2>1. Moved = got + 2 /\ got \in Nat /\ got % 2 = 1 /\ Fetched = Len(rdata) + 2 /\ Len(rdata) \in Nat
    BY <1>2, <1>3, Commands DEF Moved, Fetched, IInv, TypeOK, ProtoTypeOK, AmigaTypeOK, WithinFrame
  <2>2. Fetched = Moved - 1 /\ avrByte \in Offered(Moved)
    <3>1. req # WantReq
      BY <1>3, <1>4
    <3> QED
      BY <1>1, <1>3, <3>1 DEF Lockstep, Receiving, Interlocked
  <2>3. Moved # 1 /\ Moved # 2 /\ Moved - 2 = Len(rdata) + 1
    BY <2>1, <2>2
  <2> QED
    BY <2>1, <2>2, <2>3 DEF Offered
<1>6. /\ Len(rdata') = Len(rdata) + 1 /\ Copied(rdata', buf) /\ rsize = size
  BY <1>1, <1>3, <1>5, TakeOffered
<1>7. Quiet' /\ Calling' /\ Sending' /\ Filling' /\ Handed'
  BY <1>1, AmigaRecvs
<1>8. /\ Parked' /\ WantReq' = WantReq /\ Moved' = Moved
      /\ (Burst' <=> Burst) /\ (Commanded' <=> Commanded)
  BY <1>1, <1>4, AmigaParked DEF Lockstep, Parked
<1> USE DEF avrLines, avrState
<1>9. Routines' /\ Done'
  BY DEF Routines, Done
<1>10. Emptying'
  BY <1>6 DEF Lockstep, Emptying
<1>11. Receiving'
  <2>1. RecvPlaces'
    BY <1>3 DEF RecvPlaces
  <2>2. RecvLines'
    BY <1>1, <1>3, <1>8 DEF Lockstep, Receiving, RecvLines
  <2>3. Fetched' = Moved'
    BY <1>5, <1>6, <1>8 DEF Fetched
  <2>4. req' = WantReq'
    BY <1>4, <1>8
  <2>5. Interlocked'
    BY <2>3, <2>4 DEF Interlocked
  <2>6. Paced'
    BY DEF Paced
  <2> QED
    BY <1>1, <1>2, <2>1, <2>2, <2>5, <2>6 DEF Receiving
<1> QED
  BY <1>7, <1>8, <1>9, <1>10, <1>11 DEF Lockstep

\* It reads an odd byte, and returns behind the last word: the AVR counts the same words.
LEMMA ReadOddByteStep ==
  ASSUME IInv, Lockstep, Timely, ReadOddByte, UNCHANGED <<avrLines, avrState>>
  PROVE  Lockstep'
<1> USE DEF ReadOddByte, Return, Jump, SizeStages, DataStages, ExitStages, WaitStages
<1>1. sel /\ rak = TRUE /\ Commanded /\ op \notin SendOps
  <2>1. op \notin SendOps
    BY Commands
  <2>2. WantRak = TRUE
    BY <2>1 DEF WantRak
  <2>3. rak = TRUE
    BY <2>2 DEF RakOk
  <2> QED
    BY <2>1, <2>3 DEF Lockstep, Quiet, Parked
<1>2. cmd = CmdOf[op] /\ ~Burst /\ cmd = CmdRecv
  BY <1>1, Together
<1>3. stage \in {"even", "last"} /\ req = FALSE
  BY <1>1, <1>2, ReceivePlaces DEF Lockstep, Receiving, RecvPlaces, RecvLines
<1>4. WantReq = TRUE
  BY <1>2, <1>3, Commands DEF WantReq
<1>5. /\ avrByte \in BufBytes(Len(rdata) + 1) /\ Moved = Len(rdata) + 3 /\ Len(rdata) \in Nat
      /\ got = Len(rdata) + 1
  <2>1. Moved = got + 2 /\ got \in Nat /\ Fetched = Len(rdata) + 2 /\ Len(rdata) \in Nat
    BY <1>3 DEF Moved, Fetched, IInv, TypeOK, ProtoTypeOK, AmigaTypeOK
  <2>2. Fetched = Moved - 1 /\ avrByte \in Offered(Moved)
    <3>1. req # WantReq
      BY <1>3, <1>4
    <3> QED
      BY <1>1, <1>3, <3>1 DEF Lockstep, Receiving, Interlocked
  <2>3. Len(rdata) % 2 = 1
    BY <1>1 DEF IInv, ReadWithinFrame, AmigaReading
  <2>4. Moved # 1 /\ Moved # 2 /\ Moved - 2 = Len(rdata) + 1
    BY <2>1, <2>2, <2>3
  <2> QED
    BY <2>1, <2>2, <2>4 DEF Offered
<1>6. /\ Len(rdata') = Len(rdata) + 1 /\ Copied(rdata', buf) /\ rsize = size /\ size = Len(buf)
      /\ Padded(rsize) = Rounded(size) /\ Rounded(size) \in Nat
  BY <1>1, <1>3, <1>5, TakeOffered
<1>7. \/ stage = "even" /\ mpc' = "even"
      \/ stage = "last" /\ mpc' = "exit" /\ Len(rdata') = Padded(rsize)
  <2>1. stage = "even" => got < Rounded(size)
    BY DEF IInv, WithinFrame
  <2>2. stage = "last" => got = Rounded(size)
    BY DEF Lockstep, Emptying
  <2>3. MoreToRead <=> got < Rounded(size)
    BY <1>5, <1>6 DEF MoreToRead
  <2> QED
    BY <1>3, <1>5, <1>6, <2>1, <2>2, <2>3
<1>8. Quiet' /\ Calling' /\ Sending' /\ Filling' /\ Handed'
  <2>1. mpc' \notin {"idle", "rak1"}
    BY <1>7
  <2> QED
    BY <2>1, <1>1, AmigaRecvs
<1>9. /\ Parked' /\ WantReq' = WantReq /\ Moved' = Moved
      /\ (Burst' <=> Burst) /\ (Commanded' <=> Commanded)
  BY <1>1, <1>4, AmigaParked DEF Lockstep, Parked
<1> USE DEF avrLines, avrState
<1>10. Routines' /\ Done'
  <2>1. Routines'
    BY <1>7 DEF Routines
  <2>2. Done'
    BY <1>1, <1>6, <1>7 DEF Done
  <2> QED
    BY <2>1, <2>2
<1>11. Emptying'
  BY <1>6 DEF Lockstep, Emptying
<1>12. Receiving'
  <2>1. RecvPlaces'
    BY <1>3, <1>7 DEF RecvPlaces
  <2>2. RecvLines'
    BY <1>1, <1>3, <1>7, <1>9 DEF Lockstep, Receiving, RecvLines
  <2>3. Fetched' = Moved'
    BY <1>5, <1>6, <1>7, <1>9 DEF Fetched
  <2>4. req' = WantReq'
    BY <1>4, <1>9
  <2>5. Interlocked'
    BY <2>3, <2>4 DEF Interlocked
  <2>6. Paced'
    BY DEF Paced
  <2> QED
    BY <1>1, <1>2, <2>1, <2>2, <2>5, <2>6 DEF Receiving
<1> QED
  BY <1>8, <1>9, <1>10, <1>11, <1>12 DEF Lockstep

\* hwburstrecv enters its loop: RAK fell.
LEMMA BurstRecvGoStep ==
  ASSUME IInv, Lockstep, Timely, BurstRecvGo, UNCHANGED <<avrLines, avrState>>
  PROVE  Lockstep'
<1> USE DEF BurstRecvGo, Jump, SizeStages, DataStages, ExitStages, WaitStages, amLines
<1>1. sel /\ rak = FALSE /\ Commanded /\ op \notin SendOps
  <2>1. op \notin SendOps
    BY Commands
  <2>2. WantRak = FALSE
    BY <2>1 DEF WantRak
  <2>3. rak = FALSE
    BY <2>2 DEF RakOk
  <2> QED
    BY <2>1, <2>3 DEF Lockstep, Quiet, Calling
<1>2. cmd = CmdOf[op] /\ Burst /\ cmd = CmdRecvBurst
  BY <1>1, Together
<1>3. stage \in {"first", "even"}
  BY <1>1, ReceivePlaces DEF Lockstep, Receiving, RecvPlaces, RecvLines
<1>4. Quiet' /\ Calling' /\ Sending' /\ Filling' /\ Handed'
  BY <1>1, AmigaRecvs
<1>5. /\ Parked' /\ WantReq' = WantReq /\ Moved' = Moved
      /\ (Burst' <=> Burst) /\ (Commanded' <=> Commanded)
  BY <1>1, AmigaParked DEF Lockstep, Parked
<1> USE DEF avrLines, avrState
<1>6. Routines' /\ Done'
  BY DEF Routines, Done
<1>7. Emptying'
  BY <1>1, <1>5 DEF Lockstep, Emptying
<1>8. Receiving'
  <2>1. RecvPlaces'
    BY <1>3 DEF RecvPlaces
  <2>2. RecvLines'
    BY <1>1, <1>3, <1>5 DEF Lockstep, Receiving, RecvLines
  <2>3. Interlocked'
    BY <1>3 DEF Interlocked
  <2>4. Paced'
    BY <1>1, <1>3 DEF Lockstep, Receiving, Paced, BufBytes
  <2> QED
    BY <1>1, <1>2, <2>1, <2>2, <2>3, <2>4 DEF Receiving
<1> QED
  BY <1>4, <1>5, <1>6, <1>7, <1>8 DEF Lockstep

\* It toggles REQ for an even byte, which the AVR has put.
LEMMA BurstReqEvenStep ==
  ASSUME IInv, Lockstep, Timely, BurstReqEven, UNCHANGED <<avrLines, avrState>>,
         Timing \in {"loops", "burst"} => AmigaReads \/ ~AvrDue
  PROVE  Lockstep'
<1> USE DEF BurstReqEven, Jump, SizeStages, DataStages, ExitStages, WaitStages
<1>1. sel /\ Commanded /\ op \notin SendOps
  BY Commands DEF Lockstep, Quiet, Calling
<1>2. cmd = CmdOf[op] /\ Burst /\ op \in Ops /\ ~AmigaReads /\ cmd = CmdRecvBurst
  BY <1>1, Together DEF AmigaReads
<1>3. stage \in {"first", "even", "odd"} /\ req = TRUE
  BY <1>1, ReceivePlaces DEF Lockstep, Receiving, RecvPlaces, RecvLines
<1>4. seen # "hit" /\ req # WantReq /\ stage # "first"
  BY <1>2, <1>3, BurstPaced
<1>5. stage = "even"
  <2>1. stage = "odd" => WantReq = TRUE
    BY <1>2 DEF WantReq
  <2> QED
    BY <1>3, <1>4, <2>1
<1>6. Quiet' /\ Calling' /\ Sending' /\ Filling' /\ Handed'
  BY <1>1, AmigaRecvs
<1>7. /\ Parked' /\ WantReq' = WantReq /\ Moved' = Moved
      /\ (Burst' <=> Burst) /\ (Commanded' <=> Commanded)
  BY <1>1, <1>4, AmigaParked
<1> USE DEF avrLines, avrState
<1>8. Routines' /\ Done'
  BY DEF Routines, Done
<1>9. Emptying'
  BY <1>1, <1>7 DEF Lockstep, Emptying
<1>10. Receiving'
  <2>1. RecvPlaces'
    BY <1>5 DEF RecvPlaces
  <2>2. RecvLines'
    BY <1>1, <1>5, <1>7 DEF Lockstep, Receiving, RecvLines
  <2>3. Interlocked'
    BY <1>5 DEF Interlocked
  <2>4. Paced'
    BY <1>1, <1>5 DEF Lockstep, Receiving, Paced, BufBytes
  <2> QED
    BY <1>1, <1>2, <2>1, <2>2, <2>3, <2>4 DEF Receiving
<1> QED
  BY <1>6, <1>7, <1>8, <1>9, <1>10 DEF Lockstep

\* It reads the even byte.
LEMMA BurstReadEvenStep ==
  ASSUME IInv, Lockstep, Timely, BurstReadEven, UNCHANGED <<avrLines, avrState>>
  PROVE  Lockstep'
<1> USE DEF BurstReadEven, Jump, SizeStages, DataStages, ExitStages, WaitStages, amLines
<1>1. sel /\ Commanded /\ op = "brecv" /\ op \notin SendOps
  BY Commands DEF Lockstep, Quiet, Calling, IInv, ReadWithinFrame
<1>2. cmd = CmdOf[op] /\ Burst /\ cmd = CmdRecvBurst
  BY <1>1, Together
<1>3. stage = "even"
  BY <1>1, ReceivePlaces DEF Lockstep, Receiving, RecvPlaces, RecvLines
<1>4. Len(rdata) = got /\ avrByte \in BufBytes(Len(rdata) + 1) /\ got \in Nat
  BY <1>1, <1>3 DEF Lockstep, Receiving, Paced, IInv, TypeOK, ProtoTypeOK
<1>5. Len(rdata') = Len(rdata) + 1 /\ Copied(rdata', buf) /\ rsize = size
  BY <1>1, <1>3, <1>4, TakeOffered
<1>6. Quiet' /\ Calling' /\ Sending' /\ Filling' /\ Handed'
  BY <1>1, AmigaRecvs
<1>7. /\ Parked' /\ WantReq' = WantReq /\ Moved' = Moved
      /\ (Burst' <=> Burst) /\ (Commanded' <=> Commanded)
  BY <1>1, AmigaParked DEF Lockstep, Parked
<1> USE DEF avrLines, avrState
<1>8. Routines' /\ Done'
  BY <1>1 DEF Routines, Done
<1>9. Emptying'
  BY <1>5 DEF Lockstep, Emptying
<1>10. Receiving'
  <2>1. RecvPlaces'
    BY <1>1, <1>3 DEF RecvPlaces
  <2>2. RecvLines'
    BY <1>1, <1>3, <1>7 DEF Lockstep, Receiving, RecvLines
  <2>3. Interlocked'
    BY <1>1, <1>3 DEF Interlocked
  <2>4. Paced'
    BY <1>3, <1>4, <1>5 DEF Paced, BufBytes
  <2> QED
    BY <1>1, <1>2, <2>1, <2>2, <2>3, <2>4 DEF Receiving
<1> QED
  BY <1>6, <1>7, <1>8, <1>9, <1>10 DEF Lockstep

\* It toggles REQ for an odd byte.
LEMMA BurstReqOddStep ==
  ASSUME IInv, Lockstep, Timely, BurstReqOdd, UNCHANGED <<avrLines, avrState>>,
         Timing \in {"loops", "burst"} => AmigaReads \/ ~AvrDue
  PROVE  Lockstep'
<1> USE DEF BurstReqOdd, Jump, SizeStages, DataStages, ExitStages, WaitStages
<1>1. sel /\ Commanded /\ op \notin SendOps
  BY Commands DEF Lockstep, Quiet, Calling
<1>2. cmd = CmdOf[op] /\ Burst /\ op \in Ops /\ ~AmigaReads /\ cmd = CmdRecvBurst
  BY <1>1, Together DEF AmigaReads
<1>3. stage \in {"even", "odd"} /\ req = FALSE
  BY <1>1, ReceivePlaces DEF Lockstep, Receiving, RecvPlaces, RecvLines
<1>4. seen # "hit" /\ req # WantReq
  BY <1>2, <1>3, BurstPaced
<1>5. stage = "odd"
  <2>1. stage = "even" => WantReq = FALSE
    BY <1>2 DEF WantReq
  <2> QED
    BY <1>3, <1>4, <2>1
<1>6. Quiet' /\ Calling' /\ Sending' /\ Filling' /\ Handed'
  BY <1>1, AmigaRecvs
<1>7. /\ Parked' /\ WantReq' = WantReq /\ Moved' = Moved
      /\ (Burst' <=> Burst) /\ (Commanded' <=> Commanded)
  BY <1>1, <1>4, AmigaParked
<1> USE DEF avrLines, avrState
<1>8. Routines' /\ Done'
  BY DEF Routines, Done
<1>9. Emptying'
  BY <1>1, <1>7 DEF Lockstep, Emptying
<1>10. Receiving'
  <2>1. RecvPlaces'
    BY <1>5 DEF RecvPlaces
  <2>2. RecvLines'
    BY <1>1, <1>5, <1>7 DEF Lockstep, Receiving, RecvLines
  <2>3. Interlocked'
    BY <1>5 DEF Interlocked
  <2>4. Paced'
    BY <1>1, <1>5 DEF Lockstep, Receiving, Paced, BufBytes
  <2> QED
    BY <1>1, <1>2, <2>1, <2>2, <2>3, <2>4 DEF Receiving
<1> QED
  BY <1>6, <1>7, <1>8, <1>9, <1>10 DEF Lockstep

\* It reads the odd byte and counts the words.
LEMMA BurstReadOddStep ==
  ASSUME IInv, Lockstep, Timely, BurstReadOdd, UNCHANGED <<avrLines, avrState>>
  PROVE  Lockstep'
<1> USE DEF BurstReadOdd, Jump, SizeStages, DataStages, ExitStages, WaitStages, amLines
<1>1. sel /\ Commanded /\ op = "brecv" /\ op \notin SendOps
  BY Commands DEF Lockstep, Quiet, Calling, IInv, ReadWithinFrame
<1>2. cmd = CmdOf[op] /\ Burst /\ cmd = CmdRecvBurst
  BY <1>1, Together
<1>3. stage = "odd"
  BY <1>1, ReceivePlaces DEF Lockstep, Receiving, RecvPlaces, RecvLines
<1>4. Len(rdata) = got + 1 /\ avrByte \in BufBytes(Len(rdata) + 1) /\ got \in Nat
  BY <1>1, <1>3 DEF Lockstep, Receiving, Paced, IInv, TypeOK, ProtoTypeOK
<1>5. /\ Len(rdata') = Len(rdata) + 1 /\ Copied(rdata', buf) /\ rsize = size
      /\ Padded(rsize) = Rounded(size) /\ Rounded(size) \in Nat
  BY <1>1, <1>3, <1>4, TakeOffered
<1>6. mpc' = "b_even" \/ (mpc' = "b_end" /\ Len(rdata') = Padded(rsize))
  <2>1. Len(rdata) < Padded(rsize)
    BY <1>1 DEF IInv, ReadWithinFrame, AmigaReading
  <2> QED
    BY <1>4, <1>5, <2>1 DEF MoreToRead
<1>7. Quiet' /\ Calling' /\ Sending' /\ Filling' /\ Handed'
  <2>1. mpc' \notin {"idle", "rak1"}
    BY <1>6
  <2> QED
    BY <2>1, <1>1, AmigaRecvs
<1>8. /\ Parked' /\ WantReq' = WantReq /\ Moved' = Moved
      /\ (Burst' <=> Burst) /\ (Commanded' <=> Commanded)
  BY <1>1, AmigaParked DEF Lockstep, Parked
<1> USE DEF avrLines, avrState
<1>9. Routines' /\ Done'
  BY <1>1, <1>6 DEF Routines, Done
<1>10. Emptying'
  BY <1>5 DEF Lockstep, Emptying
<1>11. Receiving'
  <2>1. RecvPlaces'
    BY <1>1, <1>3, <1>6 DEF RecvPlaces
  <2>2. RecvLines'
    BY <1>1, <1>3, <1>6, <1>8 DEF Lockstep, Receiving, RecvLines
  <2>3. Interlocked'
    BY <1>1, <1>3 DEF Interlocked
  <2>4. avrByte \in BufBytes(got + 2)
    BY <1>1, <1>3 DEF Lockstep, Receiving, Paced
  <2>5. Paced'
    BY <1>3, <1>4, <1>5, <1>6, <2>4 DEF Paced, BufBytes
  <2> QED
    BY <1>1, <1>2, <2>1, <2>2, <2>3, <2>5 DEF Receiving
<1> QED
  BY <1>7, <1>8, <1>9, <1>10, <1>11 DEF Lockstep

\* The first toggle behind the loop.
LEMMA ReceivedEndStep ==
  ASSUME IInv, Lockstep, Timely, BurstEnd, op = "brecv", UNCHANGED <<avrLines, avrState>>,
         Timing \in {"loops", "burst"} => AmigaReads \/ ~AvrDue
  PROVE  Lockstep'
<1> USE DEF BurstEnd, Jump, SizeStages, DataStages, ExitStages, WaitStages
<1>1. sel /\ Commanded /\ op \notin SendOps
  BY Commands DEF Lockstep, Quiet, Calling
<1>2. cmd = CmdOf[op] /\ Burst /\ op \in Ops /\ ~AmigaReads /\ cmd = CmdRecvBurst
  BY <1>1, Together DEF AmigaReads
<1>3. stage \in {"odd", "exit1"} /\ req = TRUE
  BY <1>1, ReceivePlaces DEF Lockstep, Receiving, RecvPlaces, RecvLines
<1>4. seen # "hit" /\ req # WantReq
  BY <1>2, <1>3, BurstPaced
<1>5. stage = "exit1"
  <2>1. stage = "odd" => WantReq = TRUE
    BY <1>2 DEF WantReq
  <2> QED
    BY <1>3, <1>4, <2>1
<1>6. Quiet' /\ Calling' /\ Sending' /\ Filling' /\ Handed'
  BY <1>1, AmigaRecvs
<1>7. /\ Parked' /\ WantReq' = WantReq /\ Moved' = Moved
      /\ (Burst' <=> Burst) /\ (Commanded' <=> Commanded)
  BY <1>1, <1>4, AmigaParked
<1> USE DEF avrLines, avrState
<1>8. Routines' /\ Done'
  BY <1>1 DEF Routines, Done
<1>9. Emptying'
  BY <1>1, <1>7 DEF Lockstep, Emptying
<1>10. Receiving'
  <2>1. RecvPlaces'
    BY <1>5 DEF RecvPlaces
  <2>2. RecvLines'
    BY <1>1, <1>5, <1>7 DEF Lockstep, Receiving, RecvLines
  <2>3. Interlocked'
    BY <1>1, <1>5 DEF Interlocked
  <2>4. Paced'
    BY <1>1, <1>5 DEF Lockstep, Receiving, Paced
  <2> QED
    BY <1>1, <1>2, <2>1, <2>2, <2>3, <2>4 DEF Receiving
<1> QED
  BY <1>6, <1>7, <1>8, <1>9, <1>10 DEF Lockstep

\* The second one.
LEMMA ReceivedSync1Step ==
  ASSUME IInv, Lockstep, Timely, BurstSync1, op = "brecv", UNCHANGED <<avrLines, avrState>>
  PROVE  Lockstep'
<1> USE DEF BurstSync1, Jump, SizeStages, DataStages, ExitStages, WaitStages
<1>1. sel /\ rak = TRUE /\ Commanded /\ op \notin SendOps
  <2>1. WantRak = TRUE
    BY DEF WantRak
  <2>2. rak = TRUE
    BY <2>1 DEF RakOk
  <2> QED
    BY <2>2, Commands DEF Lockstep, Quiet, Parked
<1>2. cmd = CmdOf[op] /\ Burst /\ op \in Ops /\ cmd = CmdRecvBurst
  BY <1>1, Together
<1>3. stage = "exit2" /\ req = FALSE
  BY <1>1, ReceivePlaces DEF Lockstep, Receiving, RecvPlaces, RecvLines
<1>4. WantReq = TRUE
  BY <1>2, <1>3, Commands DEF WantReq
<1>5. Quiet' /\ Calling' /\ Sending' /\ Filling' /\ Handed'
  BY <1>1, AmigaRecvs
<1>6. /\ Parked' /\ WantReq' = WantReq /\ Moved' = Moved
      /\ (Burst' <=> Burst) /\ (Commanded' <=> Commanded)
  BY <1>1, <1>4, AmigaParked
<1> USE DEF avrLines, avrState
<1>7. Routines' /\ Done'
  BY DEF Routines, Done
<1>8. Emptying'
  BY <1>1, <1>6 DEF Lockstep, Emptying
<1>9. Receiving'
  <2>1. RecvPlaces'
    BY <1>3 DEF RecvPlaces
  <2>2. RecvLines'
    BY <1>1, <1>3, <1>6 DEF Lockstep, Receiving, RecvLines
  <2>3. Interlocked'
    BY <1>1, <1>3 DEF Interlocked
  <2>4. Paced'
    BY <1>1, <1>3 DEF Lockstep, Receiving, Paced
  <2> QED
    BY <1>1, <1>2, <2>1, <2>2, <2>3, <2>4 DEF Receiving
<1> QED
  BY <1>5, <1>6, <1>7, <1>8, <1>9 DEF Lockstep

\* It returns when the AVR has answered both: the frame is complete.
LEMMA ReceivedSync2Step ==
  ASSUME IInv, Lockstep, Timely, BurstSync2, op = "brecv", UNCHANGED <<avrLines, avrState>>
  PROVE  Lockstep'
<1> USE DEF BurstSync2, Return, Jump, SizeStages, DataStages, ExitStages, WaitStages, amLines
<1>1. sel /\ rak = FALSE /\ Commanded /\ op \notin SendOps
  <2>1. WantRak = FALSE
    BY DEF WantRak
  <2>2. rak = FALSE
    BY <2>1 DEF RakOk
  <2> QED
    BY <2>2, Commands DEF Lockstep, Quiet, Calling
<1>2. cmd = CmdOf[op] /\ Burst /\ op \in Ops /\ cmd = CmdRecvBurst
  BY <1>1, Together
<1>3. stage = "end" /\ req = TRUE
  BY <1>1, ReceivePlaces DEF Lockstep, Receiving, RecvPlaces, RecvLines
<1>4. rsize = Len(buf) /\ Len(rdata) = Padded(rsize) /\ Copied(rdata, buf)
  <2>1. rsize = size /\ Copied(rdata, buf)
    BY <1>1 DEF Lockstep, Emptying
  <2>2. size = Len(buf)
    BY <1>1, Filled
  <2>3. Len(rdata) = Rounded(size)
    BY <1>1, <1>3 DEF Lockstep, Receiving, Paced
  <2> QED
    BY <2>1, <2>2, <2>3 DEF Rounded, Padded
<1>5. Quiet' /\ Calling' /\ Sending' /\ Filling' /\ Handed'
  BY <1>1, AmigaRecvs
<1>6. /\ Parked' /\ WantReq' = WantReq /\ Moved' = Moved
      /\ (Burst' <=> Burst) /\ (Commanded' <=> Commanded)
  BY <1>1, AmigaParked DEF Lockstep, Parked
<1> USE DEF avrLines, avrState
<1>7. Routines' /\ Done'
  BY <1>1, <1>3, <1>4 DEF Routines, Done
<1>8. Emptying'
  BY <1>1, <1>6 DEF Lockstep, Emptying
<1>9. Receiving'
  <2>1. RecvPlaces'
    BY <1>3 DEF RecvPlaces
  <2>2. RecvLines'
    BY <1>1, <1>3, <1>6 DEF Lockstep, Receiving, RecvLines
  <2>3. Interlocked'
    BY <1>1, <1>3 DEF Interlocked
  <2>4. Paced'
    BY <1>1, <1>3 DEF Lockstep, Receiving, Paced
  <2> QED
    BY <1>1, <1>2, <2>1, <2>2, <2>3, <2>4 DEF Receiving
<1> QED
  BY <1>5, <1>6, <1>7, <1>8, <1>9 DEF Lockstep

----------------------------------------------------------------------------
(* Entry, exit and polls of the Amiga *)

\* A routine starts: RAK keeps it waiting until the AVR left the last command, a burst that
\* clears RAK early is left in time.
LEMMA StartStep ==
  ASSUME IInv, Lockstep, Timely, AmigaStart
  PROVE  Lockstep'
<1> USE DEF AmigaStart, Start, Jump
<1>1. ~sel /\ stage \in {"idle", "last", "end"}
  BY DEF Lockstep, Quiet, IInv, TypeOK, LinesTypeOK
<1>2. ~rak => stage = "idle"
  <2> SUFFICES ASSUME ~rak, stage # "idle" PROVE FALSE
    OBVIOUS
  <2>1. Burst /\ Commanded
    BY <1>1 DEF Lockstep, Parked, Commanded
  <2>2. PICK o \in Ops : cmd = CmdOf[o]
    BY <2>1 DEF Lockstep, Parked
  <2>3. ~(Ops \subseteq {"send", "recv"})
    BY <2>1, <2>2, Commands DEF Burst
  <2>4. Timing # "none"
    BY <2>3 DEF Timely
  <2>5. OutsideCommand
    BY <2>1, <2>4, TimingAssumption
  <2> QED
    BY <1>1, <2>5 DEF OutsideCommand
<1> USE DEF amLines, avrLines, avrState
<1>3. Quiet'
  BY <1>1, <1>2 DEF Lockstep, Quiet
<1>4. Routines' /\ Calling' /\ Sending' /\ Receiving' /\ Done'
  BY <1>1 DEF Lockstep, Routines, Calling, Sending, Receiving, Done
<1>5. Parked'
  BY DEF Lockstep, Parked, Commanded, Burst, WantReq
<1>6. Filling' /\ Emptying' /\ Handed'
  BY <1>1 DEF Lockstep, Filling, Emptying, Handed, Commanded
<1> QED
  BY <1>3, <1>4, <1>5, <1>6 DEF Lockstep

\* It triggers an AVR that is in its main loop and drives no line: both begin a transfer.
LEMMA BeginInStep ==
  ASSUME IInv, AmigaTrigger, op \in Ops, stage = "idle", seen = "none", ~req, ~rak, ~avrOut
  PROVE  Lockstep'
<1> USE DEF AmigaTrigger, Trigger, Jump
<1>1. stage = "idle" /\ ~req /\ ~Commanded /\ seen = "none"
  BY DEF Commanded
<1> USE DEF avrLines
<1>2. ~Commanded' /\ sel'
  BY <1>1 DEF Commanded
<1>3. Quiet' /\ Routines' /\ Calling' /\ Done' /\ Handed'
  <2>1. op' = op /\ mpc' = IF op \in SendOps THEN "even" ELSE "ack"
    OBVIOUS
  <2>2. Quiet'
    BY <1>1, <1>2, <2>1 DEF Quiet
  <2>3. Routines'
    BY <2>1, Commands DEF Routines
  <2>4. Calling'
    BY <1>1, <2>1 DEF Calling
  <2>5. Done' /\ Handed'
    BY <2>1 DEF Done, Handed
  <2> QED
    BY <2>2, <2>3, <2>4, <2>5
<1>4. Sending' /\ Receiving'
  BY <1>2 DEF Sending, Receiving
<1>5. Parked'
  BY <1>1, <1>2 DEF Parked, ExitStages
<1>6. Filling'
  BY <1>1, <1>2 DEF Filling, ExitStages, SizeStages
<1>7. Emptying'
  BY <1>1, <1>2 DEF Emptying, WaitStages, SizeStages, DataStages, ExitStages
<1> QED
  BY <1>3, <1>4, <1>5, <1>6, <1>7 DEF Lockstep

\* In step, the AVR is in its main loop when RAK is low.
LEMMA TriggerStep ==
  ASSUME IInv, Lockstep, AmigaTrigger
  PROVE  Lockstep'
<1>1. mpc = "rak1" /\ ~rak
  BY DEF AmigaTrigger, Trigger, RakOk, WantRak
<1>2. op \in Ops /\ ~sel /\ stage = "idle" /\ ~req
  BY <1>1 DEF Lockstep, Quiet, IInv, TypeOK, LinesTypeOK
<1>3. seen = "none" /\ ~avrOut
  BY <1>2 DEF Lockstep, Parked, Commanded, WaitStages, SizeStages, DataStages, ExitStages,
     IInv, TypeOK, ProtoTypeOK
<1> QED
  BY <1>1, <1>2, <1>3, BeginInStep

\* RAK does not match, or is read again.
LEMMA MissStep ==
  ASSUME Lockstep, UNCHANGED <<op, mpc, frame, pos, rsize, rdata, rc, amLines>>,
         UNCHANGED <<avrLines, avrState>>
  PROVE  Lockstep'
<1> USE DEF amLines, avrLines, avrState
<1>1. /\ WantReq' = WantReq /\ Moved' = Moved /\ Fetched' = Fetched /\ StreamLen' = StreamLen
      /\ (Burst' <=> Burst) /\ (Commanded' <=> Commanded)
  BY DEF WantReq, Moved, Fetched, StreamLen, Burst, Commanded
<1>2. Quiet' /\ Routines' /\ Parked' /\ Calling' /\ Done' /\ Handed'
  BY <1>1 DEF Lockstep, Quiet, Routines, Parked, Calling, Done, Handed
<1>3. Sending' /\ Filling' /\ Emptying'
  BY <1>1 DEF Lockstep, Sending, SendPlaces, StreamBytes, Filling, Emptying
<1>4. Receiving'
  BY <1>1 DEF Lockstep, Receiving, RecvPlaces, RecvLines, Interlocked, Offered, BufBytes, Paced
<1> QED
  BY <1>2, <1>3, <1>4 DEF Lockstep

\* The routine releases its lines: the AVR expects no edge any more.
LEMMA ExitRoutineStep ==
  ASSUME IInv, Lockstep, Timely, ExitRoutine, UNCHANGED <<avrLines, avrState>>
  PROVE  Lockstep'
<1> USE DEF ExitRoutine, Jump, SizeStages, DataStages, ExitStages, WaitStages
<1>1. sel /\ Commanded
  BY DEF Lockstep, Quiet, Calling
<1>3. CASE op \in SendOps
  <2>1. stage = "end"
    BY <1>1, <1>3 DEF Lockstep, Sending, SendPlaces
  <2>2. Quiet' /\ Calling' /\ Filling' /\ Receiving' /\ Emptying' /\ Handed'
    BY <1>1, <1>3, AmigaSends
  <2>3. /\ Parked' /\ WantReq' = WantReq /\ Moved' = Moved
        /\ (Burst' <=> Burst) /\ (Commanded' <=> Commanded)
    BY <1>1, <1>3, AmigaParked DEF Lockstep, Parked
  <2> USE DEF avrLines, avrState
  <2>4. Routines' /\ Done'
    BY <1>3 DEF Lockstep, Routines, Done
  <2>5. Sending'
    <3>1. SendPlaces' /\ pos = Moved
      BY <1>1, <1>3, <2>1 DEF Lockstep, SendPlaces, Sending
    <3> QED
      BY <1>1, <1>3, <2>1, <2>3, <3>1 DEF Lockstep, Sending
  <2> QED
    BY <2>2, <2>3, <2>4, <2>5 DEF Lockstep
<1>4. CASE op \notin SendOps
  <2>1. stage \in {"last", "end"} /\ cmd = CmdOf[op]
    BY <1>1, <1>4, ReceivePlaces DEF Lockstep, Receiving, RecvPlaces
  <2>2. Quiet' /\ Calling' /\ Sending' /\ Filling' /\ Handed'
    BY <1>1, <1>4, AmigaRecvs
  <2>3. seen = "hit" => stage = "last"
    BY <2>1 DEF Lockstep, Parked
  <2>4. /\ Parked' /\ WantReq' = WantReq /\ Moved' = Moved
        /\ (Burst' <=> Burst) /\ (Commanded' <=> Commanded)
    BY <1>1, <2>3, AmigaParked
  <2> USE DEF avrLines, avrState
  <2>5. Routines' /\ Done' /\ Emptying'
    BY <1>1, <1>4, <2>4 DEF Lockstep, Routines, Done, Emptying
  <2>6. Receiving'
    <3>1. RecvPlaces'
      BY <1>1, <1>4, <2>1 DEF Lockstep, Receiving, RecvPlaces
    <3>2. RecvLines'
      <4>1. RecvLines
        BY <1>1, <1>4 DEF Lockstep, Receiving
      <4>2. req' = FALSE /\ amOut' = amOut
        BY <1>4
      <4> QED
        BY <4>1, <4>2, <2>4 DEF RecvLines
    <3>3. Fetched' = Fetched
      BY DEF Fetched
    <3>4. Interlocked'
      BY <1>1, <1>4, <2>1, <2>4, <3>3 DEF Lockstep, Receiving, Interlocked
    <3>5. Paced'
      BY <1>1, <1>4, <2>1 DEF Lockstep, Receiving, Paced
    <3> QED
      BY <1>1, <1>4, <2>1, <3>1, <3>2, <3>4, <3>5 DEF Receiving
  <2> QED
    BY <2>2, <2>4, <2>5, <2>6 DEF Lockstep
<1> QED
  BY <1>3, <1>4

\* SELECT falls.
LEMMA DropSelectStep ==
  ASSUME IInv, Lockstep, Timely, DropSelect, UNCHANGED <<avrLines, avrState>>
  PROVE  Lockstep'
<1> USE DEF DropSelect, Jump, SizeStages, DataStages, ExitStages, WaitStages
<1>1. sel /\ Commanded
  BY DEF Lockstep, Quiet, Calling
<1>2. stage \in {"last", "end"} /\ req = FALSE /\ amOut = FALSE
  <2>2. CASE op \in SendOps
    BY <1>1, <2>2 DEF Lockstep, Sending, SendPlaces, IInv, TypeOK, LinesTypeOK
  <2>3. CASE op \notin SendOps
    BY <1>1, <2>3, ReceivePlaces DEF Lockstep, Receiving, RecvPlaces, RecvLines, IInv, TypeOK,
       LinesTypeOK
  <2> QED
    BY <2>2, <2>3
<1>3. /\ Parked' /\ WantReq' = WantReq /\ Moved' = Moved
      /\ (Burst' <=> Burst) /\ (Commanded' <=> Commanded)
  BY <1>2, AmigaParked DEF Lockstep, Parked
<1> USE DEF avrLines, avrState
<1>4. Quiet' /\ Routines' /\ Calling' /\ Sending' /\ Receiving'
  BY <1>2 DEF Lockstep, Quiet, Routines, Calling, Sending, Receiving
<1>5. Filling' /\ Emptying' /\ Done' /\ Handed'
  BY <1>2, <1>3 DEF Lockstep, Filling, Emptying, Done, Handed
<1> QED
  BY <1>3, <1>4, <1>5 DEF Lockstep

\* A step in which the Amiga gives a routine up, because the AVR is late or its frame too large.
AmigaBreaksOff == TimedOut \/ (ReadSizeLo /\ ~(rsize' <= MaxFrame))

\* Every other step of the Amiga keeps the two ends in step.
LEMMA AmigaInStep ==
  ASSUME IInv, Lockstep, Timely, AmigaStart \/ AmigaRun, ~AmigaBreaksOff
  PROVE  Lockstep'
<1>1. CASE AmigaStart \/ AmigaTrigger
  BY <1>1, StartStep, TriggerStep
<1>2. CASE AmigaHandshake
  <2>1. UNCHANGED <<avrLines, avrState>> /\ HandshakeStep
    BY <1>2 DEF AmigaHandshake
  <2>2. op \in {"send", "recv", "bsend", "brecv"}
    BY Commands DEF IInv, TypeOK, AmigaTypeOK
  <2>3. BurstSync1 \/ BurstSync2 => op \in {"bsend", "brecv"}
    BY DEF BurstSync1, BurstSync2, Lockstep, Routines
  <2>4. CASE RakMiss \/ PollAgain
    BY <2>1, <2>4, MissStep DEF RakMiss, PollAgain
  <2>5. CASE TimedOut
    BY <2>5 DEF AmigaBreaksOff
  <2>6. CASE SendEvenByte \/ SendOddByte \/ SendFinal \/ BurstSendGo
    BY <2>1, <2>6, SendEvenByteStep, SendOddByteStep, SendFinalStep, BurstSendGoStep
  <2>7. CASE BurstSync1
    BY <2>1, <2>3, <2>7, SentSync1Step, ReceivedSync1Step
  <2>8. CASE BurstSync2
    BY <2>1, <2>3, <2>8, SentSync2Step, ReceivedSync2Step
  <2>9. CASE RecvAck \/ ReadSizeHi \/ ReadSizeLo
    BY <2>1, <2>9, RecvAckStep, ReadSizeHiStep, ReadSizeLoStep DEF AmigaBreaksOff
  <2>10. CASE ReadEvenByte \/ ReadOddByte \/ BurstRecvGo
    BY <2>1, <2>10, ReadEvenByteStep, ReadOddByteStep, BurstRecvGoStep
  <2>11. CASE ExitRoutine \/ DropSelect
    BY <2>1, <2>11, ExitRoutineStep, DropSelectStep
  <2> QED
    BY <2>1, <2>4, <2>5, <2>6, <2>7, <2>8, <2>9, <2>10, <2>11 DEF HandshakeStep
<1>3. CASE AmigaBurst
  <2>1. /\ UNCHANGED <<avrLines, avrState>> /\ BurstLoopStep
        /\ Timing \in {"loops", "burst"} => AmigaReads \/ ~AvrDue
    BY <1>3 DEF AmigaBurst
  <2>2. BurstEnd => op \in {"bsend", "brecv"}
    BY DEF BurstEnd, Lockstep, Routines
  <2>3. CASE BurstPutEven \/ BurstPutOdd
    BY <2>1, <2>3, BurstPutEvenStep, BurstPutOddStep
  <2>4. CASE BurstReqEven \/ BurstReadEven
    BY <2>1, <2>4, BurstReqEvenStep, BurstReadEvenStep
  <2>5. CASE BurstReqOdd \/ BurstReadOdd
    BY <2>1, <2>5, BurstReqOddStep, BurstReadOddStep
  <2>6. CASE BurstEnd
    BY <2>1, <2>2, <2>6, SentEndStep, ReceivedEndStep
  <2> QED
    BY <2>1, <2>3, <2>4, <2>5, <2>6 DEF BurstLoopStep
<1> QED
  BY <1>1, <1>2, <1>3 DEF AmigaRun

----------------------------------------------------------------------------
(* The whole link *)

\* Both ends start idle.
LEMMA LockstepInit == Init => Lockstep
<1> SUFFICES ASSUME Init PROVE Lockstep
  OBVIOUS
<1> USE DEF Init, LinesInit, ProtoInit, AmigaInit, SizeStages, DataStages, ExitStages, WaitStages
<1>1. ~Commanded
  BY DEF Commanded
<1>2. Quiet /\ Routines /\ Parked /\ Calling
  BY <1>1 DEF Quiet, Routines, Parked, Calling
<1>3. Sending /\ Filling /\ Receiving /\ Emptying
  BY <1>1 DEF Sending, Filling, Receiving, Emptying
<1>4. Done /\ Handed
  BY DEF Done, Handed
<1> QED
  BY <1>2, <1>3, <1>4 DEF Lockstep

\* No step of either end leaves the lockstep.
LEMMA LockstepNext == IInv /\ Lockstep /\ Smooth /\ [Next]_vars => Lockstep'
<1> SUFFICES ASSUME IInv, Lockstep, Smooth, [Next]_vars PROVE Lockstep'
  OBVIOUS
<1> USE DEF Smooth
<1>1. CASE AvrStep
  <2>1. ASSUME SendSizeLo
        PROVE  ~TooLarge(size')
    <3>1. size' = Len(frame) /\ frame \in Outgoing /\ frame \in Seq(Byte)
      BY <2>1, SizeComesIn, OutgoingFits
    <3>2. Len(frame) <= BufSize /\ Len(frame) \in Nat /\ BufSize \in Nat
      BY <3>1, BufNat
    <3> QED
      BY <3>1, <3>2 DEF TooLarge
  <2>2. ~AvrBreaksOff
    BY <2>1 DEF AvrBreaksOff, WaitTimeout
  <2> QED
    BY <1>1, <2>2, AvrInStep
<1>2. CASE AmigaStart \/ AmigaRun
  <2>1. ReadSizeLo => rsize' <= MaxFrame
    BY SizeGoesOut
  <2>2. ~AmigaBreaksOff
    BY <2>1 DEF AmigaBreaksOff, TimedOut
  <2> QED
    BY <1>2, <2>2, AmigaInStep
<1>3. CASE UNCHANGED vars
  BY <1>3, MissStep DEF vars, amigaState
<1> QED
  BY <1>1, <1>2, <1>3 DEF Next

\* While nobody gives up, the two ends of the cable stay in step, byte by byte.
THEOREM InStepForEver == ASSUME Smooth PROVE Spec => []Lockstep
<1>1. Lockstep /\ IInv /\ [Next]_vars => Lockstep'
  BY LockstepNext
<1> QED
  BY <1>1, LockstepInit, Invariance, PTL DEF Spec

\* The two ends never drive the data lines against each other: the Amiga turns the lines
\* around before it asks for a byte, the AVR releases them before it lets the Amiga go.
THEOREM LinesNeverFight == ASSUME Smooth PROVE Spec => []NoContention
<1>1. Lockstep /\ IInv => NoContention
  <2> SUFFICES ASSUME Lockstep, IInv, amOut, avrOut PROVE FALSE
    BY DEF NoContention
  <2>1. sel /\ Commanded
    BY DEF Lockstep, Quiet, Parked
  <2>2. op \notin SendOps
    BY <2>1 DEF Lockstep, Sending
  <2>3. mpc = "ack" /\ stage \notin {"size_hi", "end"}
    BY <2>1, <2>2 DEF Lockstep, Receiving, RecvLines
  <2>4. /\ stage \in WaitStages \cup {"first", "end"} /\ op \in {"recv", "brecv"}
        /\ (stage = "last" => op = "recv") /\ (stage \in {"go", "first"} \cup ExitStages => op = "brecv")
    BY <2>1, <2>2, ReceivePlaces
  <2> QED
    BY <2>1, <2>2, <2>3, <2>4 DEF Lockstep, Receiving, RecvPlaces, WaitStages, SizeStages,
       DataStages, ExitStages
<1> QED
  BY <1>1, InStepForEver, Invariance, PTL

\* proc_func gets each frame of hwsend and hwburstsend once, complete and unchanged.
THEOREM FramesArrive == ASSUME Smooth PROVE Spec => []SentIntact
<1>1. Lockstep => SentIntact
  BY DEF Lockstep, Handed, SentIntact
<1> QED
  BY <1>1, InStepForEver, PTL

\* In step, a send that returned TRUE has been taken.
LEMMA OkInStep == Lockstep => OkMeansDelivered
  BY DEF Lockstep, Done, Handed, OkMeansDelivered

\* What hwsend and hwburstsend report is true: the frame is with proc_func.
THEOREM OkIsTrue == ASSUME Smooth PROVE Spec => []OkMeansDelivered
  BY OkInStep, InStepForEver, PTL

\* The bytes of a frame without the pad byte are the frame.
LEMMA CopiedWhole ==
  ASSUME NEW d \in Seq(Byte), NEW f \in Seq(Byte), Copied(d, f), Len(d) = Padded(Len(f))
  PROVE  SubSeq(d, 1, Len(f)) = f
<1>1. Len(f) \in Nat /\ Len(f) <= Len(d)
  BY DEF Padded
<1>2. \A i \in 1..Len(f) : d[i] = f[i]
  BY <1>1 DEF Copied
<1>3. /\ Len(SubSeq(d, 1, Len(f))) = Len(f) /\ SubSeq(d, 1, Len(f)) \in Seq(Byte)
      /\ \A i \in 1..Len(f) : SubSeq(d, 1, Len(f))[i] = d[i]
  BY <1>1
<1> QED
  BY <1>2, <1>3

\* In step, a receive that returned TRUE holds the frame.
LEMMA ReadInStep == Lockstep /\ IInv => ReceivedIntact
  BY CopiedWhole DEF ReceivedIntact, Lockstep, Done, IInv, TypeOK, AmigaTypeOK, ProtoTypeOK

\* What hwrecv and hwburstrecv report is true: the Amiga holds the frame of fill_func.
THEOREM FramesAreRead == ASSUME Smooth PROVE Spec => []ReceivedIntact
  BY ReadInStep, InStepForEver, Invariance, PTL

\* cmd_recv says OK in one place.
LEMMA SaysOk ==
  ASSUME AvrStep, stage \in ExitStages => Burst,
         stage # "end", stage' = "end", status' = "OK", cmd = CmdRecv
  PROVE  RecvLast
<1> USE DEF Goto, Finish
<1>1. ~Burst /\ cmd \notin SendCmds /\ cmd \in RecvCmds /\ cmd # CmdRecvBurst
  BY Commands DEF Burst
<1>2. ProtoStep /\ stage \notin ExitStages
  BY <1>1 DEF AvrStep
<1>3. ~(HandleIdle \/ ReadCommand \/ Confirm \/ FillFails \/ EndTransfer)
  BY <1>1 DEF HandleIdle, ReadCommand, Confirm, FillFails, EndTransfer
<1>4. ~(PollReq \/ KeepWaiting \/ LostSelect \/ WaitTimeout)
  BY DEF PollReq, KeepWaiting, LostSelect, WaitTimeout, GiveUp
<1>5. ~(SendSizeHi \/ SendSizeLo \/ SendEven \/ SendOdd)
  BY <1>1 DEF SendSizeHi, SendSizeLo, SendEven, SendOdd
<1>6. ~(RecvSizeHi \/ RecvSizeLo \/ RecvEven \/ RecvOdd)
  BY DEF RecvSizeHi, RecvSizeLo, RecvEven, RecvOdd
<1>7. ~(RecvGo \/ RecvFirst \/ BurstEven \/ BurstOdd \/ BurstExit1 \/ BurstExit2)
  BY <1>1, <1>2 DEF RecvGo, RecvFirst, BurstEven, BurstOdd, BurstExit1, BurstExit2, ExitStages
<1> QED
  BY <1>2, <1>3, <1>4, <1>5, <1>6, <1>7 DEF ProtoStep

\* In step, cmd_recv says OK only when the Amiga has the whole frame.
LEMMA LastInStep ==
  ASSUME Lockstep, IInv, [Next]_vars,
         stage # "end", stage' = "end", status' = "OK", cmd = CmdRecv, size > 0
  PROVE  /\ rdata' # <<>> /\ Len(rdata') = Padded(rsize')
         /\ SubSeq(rdata', 1, rsize') = buf
<1>1. AvrStep
  BY DEF Next, vars, AmigaStart, AmigaRun, AmigaTrigger, AmigaHandshake, AmigaBurst, avrState
<1>2. stage = "last" /\ seen = "hit" /\ rdata' = rdata /\ rsize' = rsize
  BY <1>1, SaysOk DEF RecvLast, AvrStep, amigaState, Lockstep, Parked
<1>3. mpc \in {"exit", "drop_sel", "idle", "rak1"}
  <2>1. CASE sel
    <3>1. Commanded /\ op \notin SendOps
      BY <1>2, <2>1 DEF Commanded, Lockstep, Sending, SendPlaces, SizeStages, DataStages,
         ExitStages
    <3> QED
      BY <1>2, <2>1, <3>1, ReceivePlaces DEF Lockstep, Receiving, RecvPlaces
  <2>2. CASE ~sel
    BY <2>2 DEF Lockstep, Quiet
  <2> QED
    BY <2>1, <2>2
<1>4. rsize = size /\ Len(rdata) = Padded(rsize) /\ Copied(rdata, buf)
  BY <1>2, <1>3 DEF Lockstep, Done
<1>5. size = Len(buf) /\ rdata \in Seq(Byte) /\ buf \in Seq(Byte) /\ size \in Nat
  BY <1>2, Commands DEF Lockstep, Emptying, WaitStages, IInv, TypeOK, AmigaTypeOK,
     ProtoTypeOK, Word
<1>6. SubSeq(rdata, 1, size) = buf
  BY <1>4, <1>5, CopiedWhole
<1>7. Len(rdata) # 0
  BY <1>4, <1>5 DEF Padded
<1> QED
  BY <1>2, <1>4, <1>6, <1>7

\* What cmd_recv reports is true as well: it says OK only when the Amiga has the whole frame.
THEOREM BothSayOk == ASSUME Smooth PROVE Spec => RecvAgreement
<1>1. Lockstep /\ IInv /\ [Next]_vars
        => [stage # "end" /\ stage' = "end" /\ status' = "OK" /\ cmd = CmdRecv /\ size > 0
              => /\ rdata' # <<>> /\ Len(rdata') = Padded(rsize')
                 /\ SubSeq(rdata', 1, rsize') = buf]_vars
  BY LastInStep
<1> QED
  BY <1>1, InStepForEver, Invariance, PTL DEF RecvAgreement, Spec
=============================================================================
