------------------------------- MODULE PBLink ------------------------------
(***************************************************************************)
(* The two ends of the parallel port cable together: the Amiga's transfer   *)
(* routines (HWPar) against the AVR's protocol handler (PBProto).           *)
(*                                                                         *)
(* Neither end has a clock here; what the code relies on is stated as the   *)
(* constant Timing:                                                        *)
(*   "none"    any interleaving                                            *)
(*   "loops"   within a burst loop the AVR (interrupts off, 16 MHz) reacts   *)
(*             to an edge of REQ before the next access of the Amiga to a    *)
(*             CIA (1.4 us), and its DELAY lasts until the Amiga has read   *)
(*             the byte on the lines; at the exit of a burst it sees SELECT  *)
(*             fall before the next transfer                                *)
(*   "burst"   in addition the AVR, which polls SELECT about once per       *)
(*             microsecond in a wait, notices that SELECT fell before the   *)
(*             Amiga starts any next routine (it returns to the server task, *)
(*             which restarts the timer first)                              *)
(***************************************************************************)
EXTENDS PBProto, HWPar

CONSTANT Timing

ASSUME TimingAssumption == Timing \in {"none", "loops", "burst"}

vars == <<amLines, avrLines, avrState, amigaState>>

TypeOK == LinesTypeOK /\ ProtoTypeOK /\ AmigaTypeOK

Init == LinesInit /\ ProtoInit /\ AmigaInit

\* The AVR is outside a command, or spins at the exit label of a burst: SELECT does
\* not end that loop and REQ is not at the level that would.
OutsideCommand ==
  \/ stage \in {"idle", "exit1"}
  \/ stage = "exit2" /\ seen # "hit" /\ req # WantReq

InBurstLoop == Burst /\ stage \in DataStages \cup ExitStages \cup {"first"}

\* The AVR owes a reaction within its burst loop.
AvrDue == InBurstLoop /\ (stage = "first" \/ seen = "hit" \/ req = WantReq)

\* The Amiga has toggled REQ and not read the byte yet.
AmigaReads == mpc \in {"b_read_even", "b_read_odd"}

AvrStep ==
  /\ ProtoStep
  /\ Timing \in {"loops", "burst"} => ~AmigaReads
  /\ UNCHANGED <<amLines, amigaState>>

AmigaStart ==
  /\ Start
  /\ Timing = "burst" \/ (Timing = "loops" /\ Burst) => OutsideCommand
  /\ UNCHANGED <<avrLines, avrState>>

AmigaTrigger ==
  /\ Trigger
  /\ delivered' = <<>>
  /\ UNCHANGED <<avrLines, stage, seen, cmd, size, buf, got, status>>

AmigaHandshake == HandshakeStep /\ UNCHANGED <<avrLines, avrState>>

AmigaBurst ==
  /\ BurstLoopStep
  /\ Timing \in {"loops", "burst"} => AmigaReads \/ ~AvrDue
  /\ UNCHANGED <<avrLines, avrState>>

AmigaRun == AmigaTrigger \/ AmigaHandshake \/ AmigaBurst

Next == AvrStep \/ AmigaStart \/ AmigaRun

Spec == Init /\ [][Next]_vars

\* Both processors keep running; a client that is idle need not start again.  Time
\* passes, so an end that polls for ever finds its timer expired at last.
AvrFair   == WF_vars(AvrStep) /\ SF_vars(AvrStep /\ WaitTimeout)
                              /\ SF_vars(AvrStep /\ EndTransfer)
AmigaFair == WF_vars(AmigaRun) /\ SF_vars(AmigaRun /\ TimedOut)

FairSpec    == Spec /\ AvrFair /\ AmigaFair
AvrFairSpec == Spec /\ AvrFair
----------------------------------------------------------------------------
(* Properties *)

\* A frame has arrived: all its bytes, and one more if its size is odd, because
\* cmd_send counts words.
Arrived(d, f) ==
  /\ Len(d) = Rounded(Len(f))
  /\ \A i \in 1..Len(f) : d[i] = f[i]

\* It may have lost its last byte: the Amiga released the lines between the AVR's
\* sample of REQ and its read of the data.
ArrivedBarLast(d, f) ==
  /\ Len(d) = Rounded(Len(f))
  /\ \A i \in 1..Len(f) : i < Len(d) => d[i] = f[i]

\* Neither end writes or reads behind its buffer, whatever size bytes it reads and
\* whenever the other end goes away (pb_buf in pb_proto.c, the frame in hwpar.asm).
NoOverrun ==
  /\ got <= BufSize
  /\ Len(buf) <= BufSize
  /\ Len(rdata) <= Padded(MaxFrame)

\* What proc_func gets is the frame the Amiga put on the lines, once.
SentIntact ==
  delivered # <<>> => Len(delivered) = 1 /\ Arrived(delivered[1], frame)

\* A burst the client abandoned may be delivered late, while a later transfer runs,
\* but even then it is a frame of the driver and not made of parts of two.
NeverSpliced ==
  \A i \in 1..Len(delivered) :
    \/ delivered[i] = <<>>
    \/ \E f \in Outgoing : ArrivedBarLast(delivered[i], f)

\* A send routine that returned TRUE is believed by the driver: the frame is with
\* proc_func when the AVR is back in its main loop.
OkMeansDelivered ==
  mpc = "idle" /\ rc = "ok" /\ op \in SendOps /\ stage = "idle"
    => Len(delivered) = 1 /\ Arrived(delivered[1], frame)

\* A receive routine that returned TRUE holds exactly the frame fill_func supplied.
ReceivedIntact ==
  mpc = "idle" /\ rc = "ok" /\ op \notin SendOps
    => rsize = Len(buf) /\ SubSeq(rdata, 1, rsize) = buf

\* The AVR accounts a receive as OK only if the Amiga has the frame as well.
RecvAgreement ==
  [][stage # "end" /\ stage' = "end" /\ status' = "OK" /\ cmd = CmdRecv /\ size > 0
       => /\ rdata' # <<>> /\ Len(rdata') = Padded(rsize')
          /\ SubSeq(rdata', 1, rsize') = buf]_vars

\* The two ends never drive the data lines against each other.
NoContention == ~(amOut /\ avrOut)

\* Raising SELECT triggers the AVR: it ignores a client whose REQ is high.  Fails after a
\* send that gave up with REQ high (README).
TriggerHeard == [][~sel /\ sel' /\ stage = "idle" => ~req]_vars

\* Once started, a transfer ends and ends well.
TransferSucceeds == mpc # "idle" ~> mpc = "idle" /\ rc = "ok"

\* The handler returns to the main loop of the firmware.
HandlerReturns == stage # "idle" ~> stage = "idle"

\* The routine returns to the driver.
RoutineReturns == mpc # "idle" ~> mpc = "idle"
----------------------------------------------------------------------------
(* The inductive invariant behind TypeOK and NoOverrun *)

AvrRunning   == stage \in WaitStages \cup {"first"}
AmigaReading == op \notin SendOps /\ mpc \in {"even", "odd", "go", "b_even", "b_odd",
                                              "b_read_even", "b_read_odd"}

\* A stage belongs to some of the commands only.
StageOfCmd ==
  /\ AvrRunning => cmd \in SendCmds \cup RecvCmds
  /\ stage = "last" => cmd = CmdRecv
  /\ stage \in {"go", "first"} => cmd = CmdRecvBurst

\* The size in use was checked: against pb_buf_size in a send, by fill_func in a receive.
SizeChecked ==
  /\ AvrRunning /\ cmd \in RecvCmds => size = Len(buf)
  /\ cmd \in SendCmds /\ stage = "size_lo" => size + 255 \in Word
  /\ cmd \in SendCmds /\ stage \in DataStages => size <= BufSize /\ Len(buf) = got
  /\ cmd \in SendCmds /\ stage \in SizeStages => buf = <<>>

\* The data loops stand in the middle of a word between two bytes, never behind the end.
WithinFrame ==
  /\ got <= BufSize
  /\ Len(buf) <= BufSize
  /\ stage \in SizeStages \cup {"go", "first"} => got = 0
  /\ stage = "first" => size > 0
  /\ stage \in DataStages => got < Rounded(size)
  /\ stage = "even" => got % 2 = 0
  /\ stage = "odd" => got % 2 = IF cmd = CmdRecvBurst THEN 0 ELSE 1

\* The same for the Amiga's receive routines.
ReadWithinFrame ==
  /\ Len(frame) \in Word
  /\ Len(rdata) <= Padded(MaxFrame)
  /\ mpc \in {"b_read_even", "b_read_odd"} => op = "brecv"
  /\ mpc \in {"ack", "size_hi", "size_lo"} => rdata = <<>>
  /\ mpc = "size_lo" => rsize + 255 \in Word
  /\ AmigaReading => rsize \in 1..MaxFrame /\ Len(rdata) < Padded(rsize)
  /\ AmigaReading /\ mpc = "go" => rdata = <<>>
  /\ AmigaReading /\ mpc \in {"even", "b_even", "b_read_even"} => Len(rdata) % 2 = 0
  /\ AmigaReading /\ mpc \in {"odd", "b_odd", "b_read_odd"} => Len(rdata) % 2 = 1

\* Size words are checked before they are used and the loops stop at them, whatever
\* bytes cmd_send, cmd_recv, hwrecv and their burst forms read from the lines.
IInv == TypeOK /\ StageOfCmd /\ SizeChecked /\ WithinFrame /\ ReadWithinFrame
=============================================================================
