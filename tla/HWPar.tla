------------------------------- MODULE HWPar -------------------------------
(***************************************************************************)
(* The Amiga end of the plipbox protocol: hwsend, hwrecv, hwburstsend and   *)
(* hwburstrecv of hwpar.asm, called by hw_send_frame and hw_recv_frame.     *)
(*                                                                         *)
(* "mpc" walks through one routine.  Every wait loop reads RAK and, while   *)
(* it does not match, tests hwb_TimeoutSet: the two reads are separate      *)
(* steps ("missed" is the state between them).                             *)
(***************************************************************************)
EXTENDS ParPort, Integers, Sequences

CONSTANTS MaxFrame,    \* hwb_MaxFrameSize
          Outgoing,    \* the frames the driver may send
          Ops,         \* the routines in use, \subseteq {"send", "recv", "bsend", "brecv"}
          AmigaFaults  \* \subseteq {"timeout"}

VARIABLES op,      \* the routine running, or the last one
          mpc,     \* where it is
          missed,  \* RAK did not match: about to test hwb_TimeoutSet
          frame,   \* the frame to send
          pos,     \* bytes of it (size word included) put on the lines
          rsize,   \* the size word received
          rdata,   \* the bytes received
          rc       \* the return value, "none" while running

amigaState == <<op, mpc, missed, frame, pos, rsize, rdata, rc>>

CmdOf == [send |-> 17, recv |-> 34, bsend |-> 51, brecv |-> 68]

AllOps  == {"send", "recv", "bsend", "brecv"}
SendOps == {"send", "bsend"}

\* Locations that wait for RAK, and the level each of them waits for.
WaitPcs == {"rak1", "ack", "size_hi", "size_lo", "even", "odd", "final",
            "go", "sync1", "sync2"}
Pcs == WaitPcs \cup {"idle", "b_even", "b_odd", "b_read_even", "b_read_odd",
                     "b_end", "exit", "drop_sel"}

\* Round up to a whole number of words.
Padded(n) == n + (n % 2)

ASSUME AmigaAssumption ==
  /\ MaxFrame \in Nat
  /\ Ops \subseteq AllOps
  /\ Outgoing \subseteq Seq(Byte)
  /\ \A f \in Outgoing : Padded(Len(f)) \in Word

\* The words a burst sends: the loop count (size - 1) >> 1 is a 16 bit register and
\* dbra runs once more than it says.
BurstWords(n) == ((n - 1) % 65536) \div 2 + 1

\* The bytes of a frame in the order they go out: size word, data and, for an odd
\* size, the byte that happens to follow the data in memory.
StreamLen ==
  2 + (IF op = "bsend" THEN 2 * BurstWords(Len(frame)) ELSE Padded(Len(frame)))

StreamBytes(i) ==
  IF i = 0 THEN {Len(frame) \div 256}
  ELSE IF i = 1 THEN {Len(frame) % 256}
  ELSE IF i - 1 <= Len(frame) THEN {frame[i - 1]}
  ELSE Noise

\* The level of RAK a location waits for.
WantRak ==
  CASE mpc \in {"ack", "size_lo", "odd"} -> op \notin SendOps \/ mpc = "ack"
    [] mpc \in {"size_hi", "even"} -> op \in SendOps
    [] mpc \in {"go", "sync2"} -> op = "bsend"
    [] mpc = "sync1" -> op = "brecv"
    [] mpc = "final" -> TRUE
    [] OTHER -> FALSE

RakOk == mpc \in WaitPcs /\ ~missed /\ rak = WantRak

AmigaTypeOK ==
  /\ op \in AllOps
  /\ mpc \in Pcs
  /\ missed \in BOOLEAN
  /\ frame \in Seq(Byte)
  /\ pos \in Nat
  /\ rsize \in Word
  /\ rdata \in Seq(Byte)
  /\ rc \in {"none", "ok", "error"}

AmigaInit ==
  /\ op \in Ops
  /\ mpc = "idle"
  /\ missed = FALSE
  /\ frame = <<>>
  /\ pos = 0
  /\ rsize = 0
  /\ rdata = <<>>
  /\ rc = "none"

Jump(l) == mpc' = l /\ missed' = FALSE

Return(result) == Jump("exit") /\ rc' = result

----------------------------------------------------------------------------
(* Entry and the wait loops *)

\* hw_send_frame / hw_recv_frame: start the timer and call the routine.
Start ==
  /\ mpc = "idle"
  /\ op' \in Ops
  /\ Jump("rak1")
  /\ rc' = "none"
  /\ UNCHANGED <<frame, pos, rsize, rdata, amLines>>

RakMiss ==
  /\ mpc \in WaitPcs
  /\ ~missed
  /\ rak # WantRak
  /\ missed' = TRUE
  /\ UNCHANGED <<op, mpc, frame, pos, rsize, rdata, rc, amLines>>

\* hwb_TimeoutSet = 0: keep polling.
PollAgain ==
  /\ missed
  /\ missed' = FALSE
  /\ UNCHANGED <<op, mpc, frame, pos, rsize, rdata, rc, amLines>>

\* The timer has run out: give up.  The mutant has a loop without the test.
TimedOutNotOdd ==
  /\ "timeout" \in AmigaFaults
  /\ missed
  /\ mpc \notin {"odd", "sync1"}
  /\ Return("error")
  /\ UNCHANGED <<op, frame, pos, rsize, rdata, amLines>>

TimedOut ==
  /\ "timeout" \in AmigaFaults
  /\ missed
  /\ Return("error")
  /\ UNCHANGED <<op, frame, pos, rsize, rdata, amLines>>

\* RAK = 0: drive the lines, put the command byte, raise SELECT to trigger the AVR.
Trigger ==
  /\ mpc = "rak1" /\ RakOk
  /\ amOut' = TRUE
  /\ amByte' = CmdOf[op]
  /\ sel' = TRUE
  /\ pos' = 0
  /\ rsize' = 0
  /\ rdata' = <<>>
  /\ \/ op \in SendOps /\ frame' \in Outgoing /\ Jump("even")
     \/ op \notin SendOps /\ Jump("ack") /\ UNCHANGED frame
  /\ UNCHANGED <<op, rc, req>>

----------------------------------------------------------------------------
(* hwsend, and the size word of hwburstsend *)

PutNext(level) ==
  /\ \E b \in StreamBytes(pos) : amByte' = b
  /\ pos' = pos + 1
  /\ req' = level

SendEvenByte ==
  /\ mpc = "even" /\ op \in SendOps /\ RakOk
  /\ PutNext(TRUE)
  /\ Jump("odd")
  /\ UNCHANGED <<op, frame, rsize, rdata, rc, sel, amOut>>

SendOddByte ==
  /\ mpc = "odd" /\ op \in SendOps /\ RakOk
  /\ PutNext(FALSE)
  /\ Jump(IF op = "bsend" THEN "go"
          ELSE IF pos' < StreamLen THEN "even" ELSE "final")
  /\ UNCHANGED <<op, frame, rsize, rdata, rc, sel, amOut>>

SendFinal ==
  /\ mpc = "final" /\ RakOk
  /\ Return("ok")
  /\ UNCHANGED <<op, frame, pos, rsize, rdata, amLines>>

----------------------------------------------------------------------------
(* hwburstsend: the loop between Disable and Enable never looks at RAK *)

BurstSendGo ==
  /\ mpc = "go" /\ op = "bsend" /\ RakOk
  /\ Jump("b_even")
  /\ UNCHANGED <<op, frame, pos, rsize, rdata, rc, amLines>>

BurstPutEven ==
  /\ mpc = "b_even" /\ op = "bsend"
  /\ PutNext(TRUE)
  /\ Jump("b_odd")
  /\ UNCHANGED <<op, frame, rsize, rdata, rc, sel, amOut>>

BurstPutOdd ==
  /\ mpc = "b_odd" /\ op = "bsend"
  /\ PutNext(FALSE)
  /\ Jump(IF pos' < StreamLen THEN "b_even" ELSE "b_end")
  /\ UNCHANGED <<op, frame, rsize, rdata, rc, sel, amOut>>

\* Behind the loop: the first toggle of the leaving handshake.
BurstEnd ==
  /\ mpc = "b_end"
  /\ req' = (op = "bsend")
  /\ Jump("sync1")
  /\ UNCHANGED <<op, frame, pos, rsize, rdata, rc, sel, amOut, amByte>>

BurstSync1 ==
  /\ mpc = "sync1" /\ RakOk
  /\ req' = (op = "brecv")
  /\ Jump("sync2")
  /\ UNCHANGED <<op, frame, pos, rsize, rdata, rc, sel, amOut, amByte>>

BurstSync2 ==
  /\ mpc = "sync2" /\ RakOk
  /\ Return("ok")
  /\ UNCHANGED <<op, frame, pos, rsize, rdata, amLines>>

----------------------------------------------------------------------------
(* hwrecv, and the size word of hwburstrecv *)

\* The AVR has the command: turn the lines around and ask for the size.
RecvAck ==
  /\ mpc = "ack" /\ RakOk
  /\ amOut' = FALSE
  /\ req' = TRUE
  /\ Jump("size_hi")
  /\ UNCHANGED <<op, frame, pos, rsize, rdata, rc, sel, amByte>>

ReadSizeHi ==
  /\ mpc = "size_hi" /\ RakOk
  /\ \E b \in BusValues : rsize' = 256 * b
  /\ req' = FALSE
  /\ Jump("size_lo")
  /\ UNCHANGED <<op, frame, pos, rdata, rc, sel, amOut, amByte>>

ReadSizeLo ==
  /\ mpc = "size_lo" /\ RakOk
  /\ req' = TRUE
  /\ \E b \in BusValues :
       LET n == rsize + b IN
       /\ rsize' = n
       /\ \/ n = 0 /\ Return("ok")
          \/ n > MaxFrame /\ Return("error")
          \/ n \in 1..MaxFrame /\ Jump(IF op = "brecv" THEN "go" ELSE "even")
                               /\ UNCHANGED rc
  /\ UNCHANGED <<op, frame, pos, rdata, sel, amOut, amByte>>

TakeByte == \E b \in BusValues : rdata' = Append(rdata, b)

MoreToRead == Len(rdata') < Padded(rsize)

ReadEvenByte ==
  /\ mpc = "even" /\ op = "recv" /\ RakOk
  /\ TakeByte
  /\ req' = FALSE
  /\ Jump("odd")
  /\ UNCHANGED <<op, frame, pos, rsize, rc, sel, amOut, amByte>>

ReadOddByte ==
  /\ mpc = "odd" /\ op = "recv" /\ RakOk
  /\ TakeByte
  /\ req' = TRUE
  /\ \/ MoreToRead /\ Jump("even") /\ UNCHANGED rc
     \/ ~MoreToRead /\ Return("ok")
  /\ UNCHANGED <<op, frame, pos, rsize, sel, amOut, amByte>>

----------------------------------------------------------------------------
(* hwburstrecv: REQ is toggled first and the byte is read next *)

BurstRecvGo ==
  /\ mpc = "go" /\ op = "brecv" /\ RakOk
  /\ Jump("b_even")
  /\ UNCHANGED <<op, frame, pos, rsize, rdata, rc, amLines>>

BurstReqEven ==
  /\ mpc = "b_even" /\ op = "brecv"
  /\ req' = FALSE
  /\ Jump("b_read_even")
  /\ UNCHANGED <<op, frame, pos, rsize, rdata, rc, sel, amOut, amByte>>

BurstReadEven ==
  /\ mpc = "b_read_even"
  /\ TakeByte
  /\ Jump("b_odd")
  /\ UNCHANGED <<op, frame, pos, rsize, rc, amLines>>

BurstReqOdd ==
  /\ mpc = "b_odd" /\ op = "brecv"
  /\ req' = TRUE
  /\ Jump("b_read_odd")
  /\ UNCHANGED <<op, frame, pos, rsize, rdata, rc, sel, amOut, amByte>>

BurstReadOdd ==
  /\ mpc = "b_read_odd"
  /\ TakeByte
  /\ Jump(IF MoreToRead THEN "b_even" ELSE "b_end")
  /\ UNCHANGED <<op, frame, pos, rsize, rc, amLines>>

----------------------------------------------------------------------------
(* Exit: the send routines release the data lines and leave REQ alone, the     *)
(* receive routines clear REQ and leave the data lines alone; SELECT falls last *)

ExitRoutine ==
  /\ mpc = "exit"
  /\ Jump("drop_sel")
  /\ \/ op \in SendOps /\ amOut' = FALSE /\ UNCHANGED req
     \/ op \notin SendOps /\ req' = FALSE /\ UNCHANGED amOut
  /\ UNCHANGED <<op, frame, pos, rsize, rdata, rc, sel, amByte>>

DropSelect ==
  /\ mpc = "drop_sel"
  /\ sel' = FALSE
  /\ Jump("idle")
  /\ UNCHANGED <<op, frame, pos, rsize, rdata, rc, req, amOut, amByte>>

\* The steps taken with interrupts disabled, without looking at RAK.
BurstLoopStep ==
  \/ BurstPutEven \/ BurstPutOdd
  \/ BurstReqEven \/ BurstReadEven \/ BurstReqOdd \/ BurstReadOdd
  \/ BurstEnd

\* The other steps, but for Start and Trigger.
HandshakeStep ==
  \/ RakMiss \/ PollAgain \/ TimedOut
  \/ SendEvenByte \/ SendOddByte \/ SendFinal
  \/ BurstSendGo \/ BurstSync1 \/ BurstSync2
  \/ RecvAck \/ ReadSizeHi \/ ReadSizeLo \/ ReadEvenByte \/ ReadOddByte
  \/ BurstRecvGo
  \/ ExitRoutine \/ DropSelect
=============================================================================
