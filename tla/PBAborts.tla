------------------------------ MODULE PBAborts -----------------------------
(***************************************************************************)
(* PBLink when the client gives up anywhere, fill_func refuses and frames  *)
(* are larger than the buffer they are meant for: what is reported of a    *)
(* transfer is true all the same, and what proc_func gets is never made of *)
(* parts of two frames.                                                    *)
(*                                                                         *)
(* The argument: a transfer is in step (Lockstep of PBLockstep) or lost.   *)
(* Lost says how far an end that the other one left can still get: the AVR *)
(* through the one wait that REQ already satisfies (LeftAlone), the Amiga  *)
(* through the two edges of RAK that a rejected or half heard command      *)
(* still shows (Unheard).  Neither gets to the place where it says OK, and *)
(* only a trigger that is heard leads back to Lockstep.                    *)
(***************************************************************************)
EXTENDS PBLockstep

----------------------------------------------------------------------------
(* The setting: the AVR gives up only when SELECT is gone *)

\* The Amiga's timer may run out anywhere, the AVR's does not.  Time is as in "burst".  What is
\* read from lines that both ends drive, or none, is no command: after a receive that ends at the
\* size word the AVR drives the lines against the next call.
Interruptible ==
  /\ Timely
  /\ Timing = "burst"
  /\ "timeout" \notin AvrFaults
  /\ Noise \cap (SendCmds \cup RecvCmds) = {}

----------------------------------------------------------------------------
(* The invariant *)

\* The Amiga is in no transfer: between two routines, waiting to trigger, or leaving one that failed.
Gone == mpc \in {"idle", "rak1", "exit", "drop_sel"}

\* The wait the handler is in ends well, or has.
Pending == seen = "hit" \/ req = WantReq

\* The Amiga left the command the AVR is in.  REQ does not rise any more, so at most one wait of a
\* send still ends well; only an exact copy waits for the byte behind that.
LeftAlone ==
  /\ stage \in {"command", "confirm"} => ~req
  /\ cmd \in SendCmds /\ stage = "size_hi" /\ Pending => op \in SendOps
  /\ cmd \in SendCmds /\ stage \in {"size_lo"} \cup DataStages =>
       op \in SendOps /\ (seen = "hit" => req = WantReq)
  /\ cmd \in SendCmds /\ stage \in DataStages /\ Pending =>
       ~Burst /\ frame \in Outgoing /\ size = Len(frame) /\ Copied(buf, frame)
  /\ cmd = CmdSendBurst /\ stage \in DataStages => got = 0
  /\ cmd = CmdRecv /\ stage = "last" => ~req /\ seen # "hit"
  /\ cmd = CmdRecv /\ stage \in {"size_lo", "odd"} /\ seen = "hit" => ~req

\* How far a routine got that the AVR has no command for: it called, it saw RAK rise, it saw
\* RAK fall.
Calls  == mpc = IF op \in SendOps THEN "even" ELSE "ack"
First  == mpc = IF op \in SendOps THEN "odd" ELSE "size_hi"
Second == mpc \in IF op \in SendOps THEN {"even", "go", "final"} ELSE {"size_lo"}

\* The Amiga triggered an AVR that does not hear it, that cannot read its command, that refused
\* its frame or that is still at the exit of an earlier burst.
Unheard ==
  /\ stage \in {"idle", "command", "confirm", "end"} \cup ExitStages
  /\ Calls \/ First \/ Second
  /\ stage = "idle" => Calls /\ (req \/ (amOut /\ avrOut))
  /\ stage \in {"command", "confirm"} => Calls /\ ~req /\ amOut /\ avrOut
  /\ stage = "confirm" => cmd \notin SendCmds \cup RecvCmds
  /\ stage = "exit1" => Calls /\ ~rak
  /\ stage = "exit2" => Calls \/ (rak /\ First)
  /\ stage = "end" /\ rak => Calls \/ First

\* What holds of the handler whatever the Amiga does.
Tidy ==
  /\ stage \in {"idle", "command", "confirm"} => ~rak
  /\ stage \in ExitStages => Burst
  /\ stage = "exit2" => (rak <=> cmd = CmdRecvBurst)
  /\ seen # "none" => stage \in WaitStages

\* The two ends are not in step.
Lost ==
  /\ op \in Ops
  /\ mpc \in {"idle", "exit", "drop_sel"} => rc = "error"
  /\ mpc \in {"idle", "rak1"} => ~sel
  /\ ~Gone => sel
  /\ IF Gone THEN LeftAlone ELSE Unheard

\* The timer is looked at in a wait for RAK.
Missing == missed => mpc \in WaitPcs

\* A routine that has not triggered met no command of the AVR's but the rest of a burst.
Outside ==
  mpc = "rak1" \/ (~sel /\ mpc \in {"exit", "drop_sel"}) =>
    stage \in {"idle", "end"} \cup ExitStages

\* What is in pb_buf is nothing, or a frame but for its last byte.
GoodBuf == buf = <<>> \/ \E f \in Outgoing : ArrivedBarLast(buf, f)

\* What is or will be handed to proc_func is.
Wholesome ==
  /\ NeverSpliced
  /\ cmd \in SendCmds /\ stage = "end" /\ status = "OK" => GoodBuf
  /\ cmd \in SendCmds /\ stage \in ExitStages /\ got >= Rounded(size) => GoodBuf

\* The ends are in step or known not to be.
Apart == (Lockstep \/ Lost) /\ Tidy /\ Missing /\ Outside /\ Wholesome

----------------------------------------------------------------------------
(* What holds at each end alone *)

\* The AVR's stages are left as they are entered.
LEMMA TidyStep ==
  ASSUME IInv, Tidy, ProtoStep
  PROVE  Tidy'
<1> USE DEF Tidy, Goto, Finish, GiveUp, SizeStages, DataStages, ExitStages, WaitStages
<1>1. CASE HandleIdle \/ ReadCommand \/ Confirm \/ FillFails \/ EndTransfer
  BY <1>1 DEF HandleIdle, ReadCommand, Confirm, FillFails, EndTransfer, avrLines
<1>2. CASE PollReq \/ KeepWaiting
  BY <1>2 DEF PollReq, KeepWaiting, avrLines, Burst
<1>3. CASE LostSelect \/ WaitTimeout
  BY <1>3 DEF LostSelect, WaitTimeout, avrLines, Burst, Untimed
<1>4. CASE SendSizeHi \/ SendSizeLo \/ SendEven \/ SendOdd
  BY <1>4 DEF SendSizeHi, SendSizeLo, SendEven, SendOdd, Burst
<1>5. CASE RecvSizeHi \/ RecvSizeLo \/ RecvEven \/ RecvOdd \/ RecvLast
  BY <1>5 DEF RecvSizeHi, RecvSizeLo, RecvEven, RecvOdd, RecvLast
<1>6. CASE RecvGo \/ RecvFirst
  <2>1. stage \in {"go", "first"} => cmd = CmdRecvBurst
    BY DEF IInv, StageOfCmd
  <2> QED
    BY <1>6, <2>1 DEF RecvGo, RecvFirst, Burst, BurstCmds
<1>7. CASE BurstEven \/ BurstOdd
  BY <1>7 DEF BurstEven, BurstOdd, Burst, BurstCmds
<1>8. CASE BurstExit1 \/ BurstExit2
  BY <1>8 DEF BurstExit1, BurstExit2, Burst
<1> QED
  BY <1>1, <1>2, <1>3, <1>4, <1>5, <1>6, <1>7, <1>8 DEF ProtoStep

\* The Amiga touches none of it.
LEMMA AmigaTidy == ASSUME Tidy, UNCHANGED <<avrLines, avrState>> PROVE Tidy'
  BY DEF Tidy, avrLines, avrState, Burst

\* Every jump of the Amiga begins a new wait.
LEMMA MissingStep ==
  ASSUME Missing, AmigaStart \/ AmigaRun
  PROVE  Missing'
<1> USE DEF Missing, Jump, Return
<1>1. CASE AmigaStart \/ AmigaTrigger
  BY <1>1 DEF AmigaStart, Start, AmigaTrigger, Trigger
<1>2. CASE AmigaBurst
  BY <1>2 DEF AmigaBurst, BurstLoopStep, BurstPutEven, BurstPutOdd, BurstReqEven, BurstReadEven,
     BurstReqOdd, BurstReadOdd, BurstEnd
<1>3. CASE AmigaHandshake
  <2>1. CASE RakMiss \/ PollAgain \/ TimedOut
    BY <2>1 DEF RakMiss, PollAgain, TimedOut
  <2>2. CASE SendEvenByte \/ SendOddByte \/ SendFinal \/ BurstSendGo \/ BurstSync1 \/ BurstSync2
    BY <2>2 DEF SendEvenByte, SendOddByte, SendFinal, BurstSendGo, BurstSync1, BurstSync2
  <2>3. CASE RecvAck \/ ReadSizeHi \/ ReadSizeLo
    BY <2>3 DEF RecvAck, ReadSizeHi, ReadSizeLo
  <2>4. CASE ReadEvenByte \/ ReadOddByte \/ BurstRecvGo \/ ExitRoutine \/ DropSelect
    BY <2>4 DEF ReadEvenByte, ReadOddByte, BurstRecvGo, ExitRoutine, DropSelect
  <2> QED
    BY <1>3, <2>1, <2>2, <2>3, <2>4 DEF AmigaHandshake, HandshakeStep
<1> QED
  BY <1>1, <1>2, <1>3 DEF AmigaRun

\* A place of the AVR outside its exit is not entered while SELECT is low.
LEMMA OutsideAvrStep ==
  ASSUME Outside, mpc = "rak1" => ~sel, AvrStep
  PROVE  Outside'
<1> USE DEF Outside, Goto, Finish, GiveUp, SizeStages, DataStages, ExitStages, amLines, amigaState
<1> SUFFICES ASSUME mpc = "rak1" \/ (~sel /\ mpc \in {"exit", "drop_sel"})
             PROVE  stage' \in {"idle", "end"} \cup ExitStages
  BY DEF AvrStep
<1>1. ~sel /\ stage \in {"idle", "end"} \cup ExitStages /\ ProtoStep
  BY DEF AvrStep
<1>2. CASE HandleIdle \/ ReadCommand \/ Confirm \/ FillFails \/ EndTransfer
  BY <1>1, <1>2 DEF HandleIdle, ReadCommand, Confirm, FillFails, EndTransfer
<1>3. CASE PollReq \/ KeepWaiting \/ LostSelect \/ WaitTimeout
  BY <1>1, <1>3 DEF PollReq, KeepWaiting, LostSelect, WaitTimeout
<1>4. CASE BurstExit1 \/ BurstExit2
  BY <1>4 DEF BurstExit1, BurstExit2
<1>5. ~(SendSizeHi \/ SendSizeLo \/ SendEven \/ SendOdd)
  BY <1>1 DEF SendSizeHi, SendSizeLo, SendEven, SendOdd
<1>6. ~(RecvSizeHi \/ RecvSizeLo \/ RecvEven \/ RecvOdd \/ RecvLast)
  BY <1>1 DEF RecvSizeHi, RecvSizeLo, RecvEven, RecvOdd, RecvLast
<1>7. ~(RecvGo \/ RecvFirst \/ BurstEven \/ BurstOdd)
  BY <1>1 DEF RecvGo, RecvFirst, BurstEven, BurstOdd
<1> QED
  BY <1>1, <1>2, <1>3, <1>4, <1>5, <1>6, <1>7 DEF ProtoStep

\* A routine starts late enough, and SELECT falls last.
LEMMA OutsideAmigaStep ==
  ASSUME Missing, Outside, Timing = "burst", Gone \/ sel, AmigaStart \/ AmigaRun
  PROVE  Outside'
<1> USE DEF Outside, Gone, Jump, Return, ExitStages, avrLines, avrState
<1>1. CASE AmigaStart
  BY <1>1 DEF AmigaStart, Start, OutsideCommand
<1>2. CASE AmigaTrigger
  BY <1>2 DEF AmigaTrigger, Trigger
<1>3. CASE AmigaBurst
  BY <1>3 DEF AmigaBurst, BurstLoopStep, BurstPutEven, BurstPutOdd, BurstReqEven, BurstReadEven,
     BurstReqOdd, BurstReadOdd, BurstEnd
<1>4. CASE AmigaHandshake
  <2>1. CASE RakMiss \/ PollAgain
    BY <1>4, <2>1 DEF RakMiss, PollAgain, AmigaHandshake, amLines
  <2>2. CASE TimedOut
    <3>1. mpc # "idle" /\ mpc # "drop_sel" /\ mpc' = "exit" /\ sel' = sel
      BY <2>2 DEF TimedOut, Missing, WaitPcs, amLines
    <3> QED
      BY <1>4, <2>2, <3>1 DEF AmigaHandshake
  <2>3. CASE SendEvenByte \/ SendOddByte \/ SendFinal \/ BurstSendGo \/ BurstSync1 \/ BurstSync2
    BY <1>4, <2>3 DEF SendEvenByte, SendOddByte, SendFinal, BurstSendGo, BurstSync1, BurstSync2, amLines
  <2>4. CASE RecvAck \/ ReadSizeHi \/ ReadSizeLo
    BY <1>4, <2>4 DEF RecvAck, ReadSizeHi, ReadSizeLo, amLines
  <2>5. CASE ReadEvenByte \/ ReadOddByte \/ BurstRecvGo \/ ExitRoutine \/ DropSelect
    BY <1>4, <2>5 DEF ReadEvenByte, ReadOddByte, BurstRecvGo, ExitRoutine, DropSelect, amLines,
       AmigaHandshake
  <2> QED
    BY <1>4, <2>1, <2>2, <2>3, <2>4, <2>5 DEF AmigaHandshake, HandshakeStep
<1> QED
  BY <1>1, <1>2, <1>3, <1>4 DEF AmigaRun

----------------------------------------------------------------------------
(* What proc_func gets *)

\* A copy that one byte completes is the frame, or the frame but for that byte.
LEMMA LastByte ==
  ASSUME NEW d \in Seq(Byte), NEW f \in Seq(Byte), NEW b, Copied(d, f),
         Len(d) + 1 = Rounded(Len(f))
  PROVE  ArrivedBarLast(Append(d, b), f)
<1>1. /\ Len(Append(d, b)) = Len(d) + 1 /\ Len(d) \in Nat
      /\ \A i \in 1..Len(d) : Append(d, b)[i] = d[i]
  OBVIOUS
<1>2. ASSUME NEW i \in 1..Len(f), i < Len(Append(d, b))
      PROVE  Append(d, b)[i] = f[i]
  <2>1. i \in 1..Len(d) /\ i <= Len(f)
    BY <1>1, <1>2
  <2> QED
    BY <1>1, <2>1 DEF Copied
<1> QED
  BY <1>1, <1>2 DEF ArrivedBarLast

\* The last byte of a send completes a copy of the frame, whether the Amiga is still there or not.
LEMMA SendCompletes ==
  ASSUME IInv, Lockstep \/ Lost, SendOdd, got' >= Rounded(size)
  PROVE  GoodBuf'
<1> USE DEF SendOdd, SizeStages, DataStages, ExitStages
<1>1. frame \in Outgoing /\ size = Len(frame) /\ Copied(buf, frame)
  <2>1. CASE Lockstep
    <3>1. Commanded /\ stage \notin SizeStages /\ sel /\ op \in SendOps
      BY <2>1, Engaged DEF Commanded
    <3> QED
      BY <2>1, <3>1 DEF Lockstep, Filling
  <2>2. CASE Lost
    BY <2>2 DEF Lost, Unheard, LeftAlone, Pending
  <2> QED
    BY <2>1, <2>2
<1>2. PICK b : buf' = Append(buf, b) /\ got' = got + 1
  BY DEF StoreByte
<1>3. frame \in Seq(Byte) /\ buf \in Seq(Byte) /\ got \in Nat /\ Len(buf) = got /\ got < Rounded(size)
  BY DEF IInv, TypeOK, AmigaTypeOK, ProtoTypeOK, SizeChecked, WithinFrame
<1>4. Len(buf) + 1 = Rounded(Len(frame))
  BY <1>1, <1>2, <1>3 DEF Rounded
<1> QED
  BY <1>1, <1>2, <1>3, <1>4, LastByte DEF GoodBuf, ArrivedBarLast

\* A good buffer may be handed over.
LEMMA HandOver ==
  ASSUME IInv, NeverSpliced, GoodBuf, delivered' = Append(delivered, buf)
  PROVE  NeverSpliced'
<1>1. delivered \in Seq(Seq(Byte)) /\ buf \in Seq(Byte) /\ Len(delivered) \in Nat
  BY DEF IInv, TypeOK, ProtoTypeOK
<1>2. /\ Len(delivered') = Len(delivered) + 1 /\ delivered'[Len(delivered) + 1] = buf
      /\ \A i \in 1..Len(delivered) : delivered'[i] = delivered[i]
  BY <1>1
<1>3. ASSUME NEW i \in 1..Len(delivered')
      PROVE  delivered'[i] = <<>> \/ \E f \in Outgoing : ArrivedBarLast(delivered'[i], f)
  <2>1. CASE i = Len(delivered) + 1
    BY <1>2, <2>1 DEF GoodBuf
  <2>2. CASE i \in 1..Len(delivered)
    BY <1>2, <2>2 DEF NeverSpliced
  <2> QED
    BY <1>1, <1>2, <1>3, <2>1, <2>2
<1> QED
  BY <1>3 DEF NeverSpliced, ArrivedBarLast

\* The AVR hands over what is good, once the command is over.
LEMMA WholesomeAvrStep ==
  ASSUME IInv, Lockstep \/ Lost, Wholesome, ProtoStep
  PROVE  Wholesome'
<1> USE DEF Goto, Finish, GiveUp, SizeStages, DataStages, ExitStages
<1>1. NeverSpliced'
  <2>1. CASE EndTransfer /\ Deliverable
    BY <2>1, HandOver DEF EndTransfer, Deliverable, Wholesome
  <2>2. CASE ~(EndTransfer /\ Deliverable)
    <3>1. delivered' = delivered
      BY <2>2 DEF ProtoStep, HandleIdle, ReadCommand, Confirm, FillFails, PollReq, KeepWaiting,
         LostSelect, WaitTimeout, SendSizeHi, SendSizeLo, SendEven, SendOdd, RecvSizeHi, RecvSizeLo,
         RecvEven, RecvOdd, RecvLast, RecvGo, RecvFirst, BurstEven, BurstOdd, BurstExit1, BurstExit2,
         EndTransfer
    <3> QED
      BY <3>1 DEF Wholesome, NeverSpliced, ArrivedBarLast
  <2> QED
    BY <2>1, <2>2
<1> SUFFICES ASSUME cmd' \in SendCmds,
                    \/ stage' = "end" /\ status' = "OK"
                    \/ stage' \in ExitStages /\ got' >= Rounded(size')
             PROVE  GoodBuf'
  BY <1>1 DEF Wholesome
<1>2. GoodBuf /\ buf' = buf => GoodBuf'
  BY DEF GoodBuf, ArrivedBarLast
<1>3. got \in Nat /\ Rounded(size) \in Nat
  BY DEF IInv, TypeOK, ProtoTypeOK, Word, Rounded
<1>4. ~(HandleIdle \/ ReadCommand \/ Confirm \/ FillFails \/ EndTransfer)
  BY DEF HandleIdle, ReadCommand, Confirm, FillFails, EndTransfer
<1>5. CASE PollReq \/ KeepWaiting
  BY <1>2, <1>5 DEF PollReq, KeepWaiting, Wholesome
<1>6. CASE LostSelect \/ WaitTimeout
  <2>1. stage \in ExitStages /\ UNCHANGED <<cmd, size, got, buf>> /\ got' >= Rounded(size')
    BY <1>3, <1>6 DEF LostSelect, WaitTimeout, Untimed, IInv, WithinFrame
  <2> QED
    BY <1>2, <2>1 DEF Wholesome
<1>7. CASE SendSizeLo
  BY <1>7 DEF SendSizeLo, IInv, SizeChecked, GoodBuf
<1>8. CASE SendOdd
  <2>1. got' >= Rounded(size)
    BY <1>8 DEF SendOdd
  <2> QED
    BY <1>8, <2>1, SendCompletes
<1>9. ~(SendSizeHi \/ SendEven \/ RecvSizeHi \/ RecvSizeLo \/ RecvEven \/ RecvOdd \/ RecvFirst)
  BY DEF SendSizeHi, SendEven, RecvSizeHi, RecvSizeLo, RecvEven, RecvOdd, RecvFirst
<1>10. ~(RecvLast \/ RecvGo \/ BurstEven \/ BurstOdd)
  BY Commands DEF RecvLast, RecvGo, BurstEven, BurstOdd, IInv, StageOfCmd
<1>11. CASE BurstExit1
  BY <1>2, <1>11 DEF BurstExit1, Wholesome
<1>12. CASE BurstExit2
  <2>1. got >= Rounded(size)
    BY <1>3, <1>12 DEF BurstExit2
  <2> QED
    BY <1>2, <1>12, <2>1 DEF BurstExit2, Wholesome
<1> QED
  BY <1>4, <1>5, <1>6, <1>7, <1>8, <1>9, <1>10, <1>11, <1>12 DEF ProtoStep

\* The Amiga clears the history at a trigger, and touches nothing else of it.
LEMMA WholesomeAmigaStep ==
  ASSUME Wholesome, UNCHANGED <<stage, cmd, size, buf, got, status>>,
         delivered' = <<>> \/ delivered' = delivered
  PROVE  Wholesome'
<1>1. NeverSpliced'
  BY DEF Wholesome, NeverSpliced, ArrivedBarLast
<1>2. GoodBuf => GoodBuf'
  BY DEF GoodBuf, ArrivedBarLast
<1> QED
  BY <1>1, <1>2 DEF Wholesome

----------------------------------------------------------------------------
(* The AVR alone in a command *)

\* A sample of REQ tells nothing new.
LEMMA LeftSampleStep ==
  ASSUME LeftAlone, seen' \in {"none", "hit", "miss"}, seen' = "hit" => req = WantReq,
         UNCHANGED <<stage, cmd, size, buf, got, amLines, amigaState>>
  PROVE  LeftAlone'
<1> USE DEF amLines, amigaState
<1>1. WantReq' = WantReq /\ (Pending' => Pending) /\ (Burst' <=> Burst)
  BY DEF WantReq, Pending, Burst
<1>2. cmd = CmdRecv /\ stage = "last" => WantReq = TRUE
  BY DEF WantReq
<1>3. cmd = CmdRecv /\ stage \in {"size_lo", "odd"} => WantReq = FALSE
  BY Commands DEF WantReq
<1> QED
  BY <1>1, <1>2, <1>3 DEF LeftAlone, Copied, SizeStages, DataStages

\* The levels of REQ a send waits for alternate.
LEMMA SendLevels ==
  ASSUME cmd \in SendCmds
  PROVE  /\ stage \in {"size_hi", "even"} => WantReq = TRUE
         /\ stage \in {"size_lo", "odd"} => WantReq = FALSE
  BY Commands DEF WantReq

\* A command is heard and accepted: its first wait finds REQ low.
LEMMA LeftCallStep ==
  ASSUME IInv, LeftAlone, HandleIdle \/ ReadCommand \/ Confirm \/ FillFails,
         UNCHANGED <<amLines, amigaState>>
  PROVE  LeftAlone'
<1> USE DEF amLines, amigaState, Goto, Finish, SizeStages, DataStages
<1>1. CASE HandleIdle \/ ReadCommand \/ FillFails
  BY <1>1 DEF LeftAlone, HandleIdle, ReadCommand, FillFails
<1>2. CASE Confirm
  <2>1. req' = FALSE /\ seen' = "none" /\ stage' \in {"size_hi", "end"}
    BY <1>2 DEF Confirm, LeftAlone, IInv, TypeOK, LinesTypeOK
  <2>2. ASSUME stage' = "size_hi"
        PROVE  req' # WantReq'
    <3>1. WantReq' = TRUE
      BY <2>2 DEF WantReq
    <3> QED
      BY <2>1, <3>1
  <2>3. stage' = "size_hi" => ~Pending'
    BY <2>1, <2>2 DEF Pending
  <2> QED
    BY <2>1, <2>3 DEF LeftAlone
<1> QED
  BY <1>1, <1>2

\* A send takes the byte its one satisfied wait is for, and waits for an edge that does not come.
LEMMA LeftSendStep ==
  ASSUME IInv, LeftAlone, SendSizeHi \/ SendSizeLo \/ SendEven \/ SendOdd,
         UNCHANGED <<amLines, amigaState>>
  PROVE  LeftAlone'
<1> USE DEF amLines, amigaState, Goto, Finish, SizeStages, DataStages
<1>1. /\ seen = "hit" /\ seen' = "none" /\ cmd' = cmd /\ cmd \in SendCmds /\ cmd # CmdRecv
      /\ \/ stage = "size_hi" /\ stage' = "size_lo"
         \/ stage \in {"size_lo", "odd"} /\ stage' \in {"even", "exit1", "end"}
         \/ stage = "even" /\ stage' = "odd"
  <2>1. cmd \in SendCmds => cmd # CmdRecv
    BY Commands
  <2>2. CASE SendSizeHi \/ SendEven
    BY <2>1, <2>2 DEF SendSizeHi, SendEven
  <2>3. CASE SendSizeLo
    BY <2>1, <2>3 DEF SendSizeLo
  <2>4. CASE SendOdd
    BY <2>1, <2>4 DEF SendOdd
  <2> QED
    BY <2>2, <2>3, <2>4
<1>2. op \in SendOps
  BY <1>1 DEF LeftAlone, Pending
<1>3. stage' \in DataStages => ~Pending'
  <2>1. stage \in {"size_lo"} \cup DataStages => req = WantReq
    BY <1>1 DEF LeftAlone
  <2>2. /\ stage = "even" => WantReq = TRUE
        /\ stage \in {"size_lo", "odd"} => WantReq = FALSE
    BY <1>1, SendLevels
  <2>3. /\ stage' = "even" => WantReq' = TRUE
        /\ stage' = "odd" => WantReq' = FALSE
    BY <1>1, Commands DEF WantReq
  <2>4. req' = req
    OBVIOUS
  <2> QED
    BY <1>1, <2>1, <2>2, <2>3, <2>4 DEF Pending
<1>4. cmd = CmdSendBurst /\ stage' \in DataStages => got' = 0
  <2>1. ~(SendEven \/ SendOdd) \/ cmd # CmdSendBurst
    BY Commands DEF SendEven, SendOdd, LeftAlone, Pending, Burst
  <2> QED
    BY <2>1 DEF SendSizeHi, SendSizeLo, IInv, WithinFrame
<1> QED
  BY <1>1, <1>2, <1>3, <1>4 DEF LeftAlone

\* A receive puts the byte out its one satisfied wait is for.
LEMMA LeftRecvStep ==
  ASSUME IInv, LeftAlone,
         RecvSizeHi \/ RecvSizeLo \/ RecvEven \/ RecvOdd \/ RecvLast \/ RecvGo \/ RecvFirst
           \/ BurstEven \/ BurstOdd,
         UNCHANGED <<amLines, amigaState>>
  PROVE  LeftAlone'
<1> USE DEF amLines, amigaState, Goto, Finish, SizeStages, DataStages
<1>1. /\ seen' = "none" /\ cmd' = cmd /\ cmd \notin SendCmds
      /\ stage' \notin {"command", "confirm"}
  BY Commands DEF RecvSizeHi, RecvSizeLo, RecvEven, RecvOdd, RecvLast, RecvGo, RecvFirst, BurstEven,
     BurstOdd, IInv, StageOfCmd
<1>2. cmd = CmdRecv /\ stage' = "last" => ~req
  BY Commands DEF RecvSizeHi, RecvSizeLo, RecvEven, RecvOdd, RecvLast, RecvGo, RecvFirst, BurstEven,
     BurstOdd, LeftAlone
<1> QED
  BY <1>1, <1>2, Commands DEF LeftAlone

\* A command that ends is over.
LEMMA LeftEndStep ==
  ASSUME LostSelect \/ BurstExit1 \/ BurstExit2 \/ EndTransfer
  PROVE  LeftAlone'
<1>1. stage' \in ExitStages \cup {"end", "idle"}
  BY DEF LostSelect, BurstExit1, BurstExit2, EndTransfer, GiveUp, Finish, Goto, ExitStages
<1> QED
  BY <1>1 DEF LeftAlone, DataStages, ExitStages

\* The AVR does not get behind the waits that REQ satisfies.
LEMMA LeftAvrStep ==
  ASSUME IInv, LeftAlone, AvrStep, "timeout" \notin AvrFaults
  PROVE  LeftAlone'
<1>1. UNCHANGED <<amLines, amigaState>> /\ ProtoStep
  BY DEF AvrStep
<1>2. CASE PollReq \/ KeepWaiting
  BY <1>1, <1>2, LeftSampleStep DEF PollReq, KeepWaiting
<1>3. ~WaitTimeout
  BY DEF WaitTimeout
<1> QED
  BY <1>1, <1>2, <1>3, LeftCallStep, LeftSendStep, LeftRecvStep, LeftEndStep DEF ProtoStep

----------------------------------------------------------------------------
(* The Amiga alone in a routine *)

\* Its call is not heard, not a command, or refused: RAK shows at most two more edges.
LEMMA UnheardAvrStep ==
  ASSUME Unheard, sel, AvrStep, "timeout" \notin AvrFaults,
         Noise \cap (SendCmds \cup RecvCmds) = {}
  PROVE  Unheard'
<1> USE DEF Goto, Finish, amLines, amigaState, avrLines, ExitStages
<1>1. UNCHANGED <<amLines, amigaState>> /\ ProtoStep
  BY DEF AvrStep
<1>2. (Calls' <=> Calls) /\ (First' <=> First) /\ (Second' <=> Second)
  BY <1>1 DEF Calls, First, Second
<1>3. CASE HandleIdle
  BY <1>1, <1>2, <1>3 DEF HandleIdle, Unheard
<1>4. CASE ReadCommand
  <2>1. BusValues = Noise
    BY <1>4 DEF ReadCommand, Unheard, BusValues
  <2> QED
    BY <1>1, <1>2, <1>4, <2>1 DEF ReadCommand, Unheard
<1>5. CASE Confirm \/ FillFails
  <2>1. Calls /\ cmd \notin SendCmds \cup RecvCmds
    BY <1>5 DEF Confirm, FillFails, Unheard
  <2> QED
    BY <1>1, <1>2, <1>5, <2>1 DEF Confirm, FillFails, Unheard
<1>6. CASE PollReq \/ KeepWaiting
  BY <1>1, <1>2, <1>6 DEF PollReq, KeepWaiting, Unheard
<1>7. CASE BurstExit1
  BY <1>1, <1>2, <1>7 DEF BurstExit1, Unheard
<1>8. CASE BurstExit2
  BY <1>1, <1>2, <1>8 DEF BurstExit2, Unheard
<1>9. ~(LostSelect \/ WaitTimeout \/ EndTransfer)
  BY DEF LostSelect, WaitTimeout, EndTransfer
<1>10. ~(SendSizeHi \/ SendSizeLo \/ SendEven \/ SendOdd \/ RecvSizeHi \/ RecvSizeLo \/ RecvEven
         \/ RecvOdd \/ RecvLast \/ RecvGo \/ RecvFirst \/ BurstEven \/ BurstOdd)
  BY DEF SendSizeHi, SendSizeLo, SendEven, SendOdd, RecvSizeHi, RecvSizeLo, RecvEven, RecvOdd,
     RecvLast, RecvGo, RecvFirst, BurstEven, BurstOdd, Unheard
<1> QED
  BY <1>1, <1>3, <1>4, <1>5, <1>6, <1>7, <1>8, <1>9, <1>10 DEF ProtoStep

\* The AVR finds no way back by itself.
LEMMA LostAvrStep ==
  ASSUME IInv, Lost, AvrStep, Interruptible
  PROVE  Lost'
<1>1. UNCHANGED <<amLines, amigaState>> /\ (Gone' <=> Gone)
  BY DEF AvrStep, Gone, amigaState
<1>2. CASE Gone
  BY <1>1, <1>2, LeftAvrStep DEF Lost, Interruptible, amLines, amigaState
<1>3. CASE ~Gone
  BY <1>1, <1>3, UnheardAvrStep DEF Lost, Interruptible, amLines, amigaState
<1> QED
  BY <1>2, <1>3

\* LeftAlone does not mention the places of the Amiga.
LEMMA LeftSame ==
  ASSUME LeftAlone, UNCHANGED <<req, op, frame, avrState>>
  PROVE  LeftAlone'
<1>1. WantReq' = WantReq /\ (Burst' <=> Burst)
  BY DEF WantReq, Burst, avrState
<1>2. Pending' <=> Pending
  BY <1>1 DEF Pending, avrState
<1> QED
  BY <1>1, <1>2 DEF LeftAlone, Copied, avrState

\* A receive that leaves lowers REQ, which is what no wait of a lost command but a low one is for.
LEMMA LeftLower ==
  ASSUME IInv, LeftAlone, op \notin SendOps, req' = FALSE, UNCHANGED <<op, frame, avrState>>
  PROVE  LeftAlone'
<1>1. WantReq' = WantReq
  BY DEF WantReq, avrState
<1>2. cmd \in SendCmds /\ stage = "size_hi" => ~Pending'
  <2> SUFFICES ASSUME cmd \in SendCmds, stage = "size_hi" PROVE ~Pending'
    OBVIOUS
  <2>1. WantReq' = TRUE
    BY <1>1, SendLevels
  <2>2. req' # WantReq'
    BY <2>1
  <2> QED
    BY <2>2 DEF LeftAlone, Pending, avrState
<1>3. ~(cmd \in SendCmds /\ stage \in {"size_lo"} \cup DataStages)
  BY DEF LeftAlone
<1> QED
  BY <1>2, <1>3, Commands DEF LeftAlone, avrState

\* The Amiga in no transfer: it starts a routine, waits for RAK, gives up again and leaves.
LEMMA LeftRunStep ==
  ASSUME IInv, Lost, Gone, Timing = "burst", AmigaStart \/ AmigaHandshake \/ AmigaBurst
  PROVE  Lost'
<1> USE DEF Gone, Jump, Return, avrLines
<1>1. LeftAlone
  BY DEF Lost
<1>2. CASE AmigaStart
  <2>1. stage' \in {"idle"} \cup ExitStages /\ mpc' = "rak1" /\ op' \in Ops /\ sel' = sel /\ ~sel
    BY <1>2 DEF AmigaStart, Start, OutsideCommand, avrState, amLines, ExitStages, Lost
  <2>2. LeftAlone'
    BY <2>1 DEF LeftAlone, DataStages, ExitStages
  <2> QED
    BY <2>1, <2>2 DEF Lost
<1>3. CASE AmigaHandshake
  <2>1. UNCHANGED <<avrLines, avrState>> /\ HandshakeStep
    BY <1>3 DEF AmigaHandshake
  <2>2. CASE RakMiss \/ PollAgain
    <3>1. UNCHANGED <<req, sel, op, frame, mpc, rc>>
      BY <2>2 DEF RakMiss, PollAgain, amLines
    <3> QED
      BY <1>1, <2>1, <3>1, LeftSame DEF Lost
  <2>3. CASE TimedOut
    <3>1. UNCHANGED <<req, sel, op, frame>> /\ mpc' = "exit" /\ rc' = "error"
      BY <2>3 DEF TimedOut, amLines
    <3> QED
      BY <1>1, <2>1, <3>1, LeftSame DEF Lost
  <2>4. CASE ExitRoutine
    <3>1. /\ UNCHANGED <<sel, op, frame, rc>> /\ mpc = "exit" /\ mpc' = "drop_sel"
          /\ req' = req \/ (op \notin SendOps /\ req' = FALSE)
      BY <2>4 DEF ExitRoutine
    <3>2. LeftAlone'
      BY <1>1, <2>1, <3>1, LeftSame, LeftLower
    <3> QED
      BY <3>1, <3>2 DEF Lost
  <2>5. CASE DropSelect
    <3>1. /\ UNCHANGED <<req, op, frame, rc>> /\ mpc = "drop_sel" /\ mpc' = "idle" /\ ~sel'
      BY <2>5 DEF DropSelect
    <3> QED
      BY <1>1, <2>1, <3>1, LeftSame DEF Lost
  <2>6. ~(SendEvenByte \/ SendOddByte \/ SendFinal \/ BurstSendGo \/ BurstSync1 \/ BurstSync2)
    BY DEF SendEvenByte, SendOddByte, SendFinal, BurstSendGo, BurstSync1, BurstSync2
  <2>7. ~(RecvAck \/ ReadSizeHi \/ ReadSizeLo \/ ReadEvenByte \/ ReadOddByte \/ BurstRecvGo)
    BY DEF RecvAck, ReadSizeHi, ReadSizeLo, ReadEvenByte, ReadOddByte, BurstRecvGo
  <2> QED
    BY <2>1, <2>2, <2>3, <2>4, <2>5, <2>6, <2>7 DEF HandshakeStep
<1>4. ~AmigaBurst
  BY DEF AmigaBurst, BurstLoopStep, BurstPutEven, BurstPutOdd, BurstReqEven, BurstReadEven,
     BurstReqOdd, BurstReadOdd, BurstEnd
<1> QED
  BY <1>2, <1>3, <1>4

\* The Amiga in a routine nobody serves: it sees RAK rise or fall, waits, and gives up.
LEMMA UnheardRunStep ==
  ASSUME IInv, Lost, ~Gone, Tidy, AmigaStart \/ AmigaHandshake \/ AmigaBurst
  PROVE  Lost'
<1> USE DEF Jump, Return, ExitStages
<1>1. /\ Unheard /\ sel /\ op \in Ops
      /\ mpc \in IF op \in SendOps THEN {"even", "odd", "go", "final"} ELSE {"ack", "size_hi", "size_lo"}
  BY DEF Lost, Unheard, Calls, First, Second
<1>2. ~AmigaStart /\ ~AmigaBurst
  BY <1>1 DEF AmigaStart, Start, AmigaBurst, BurstLoopStep, BurstPutEven, BurstPutOdd, BurstReqEven,
     BurstReadEven, BurstReqOdd, BurstReadOdd, BurstEnd
<1>3. UNCHANGED <<avrLines, avrState>> /\ HandshakeStep
  BY <1>2 DEF AmigaHandshake
<1>4. CASE RakMiss \/ PollAgain
  <2>1. UNCHANGED <<amLines, op, mpc>>
    BY <1>4 DEF RakMiss, PollAgain
  <2>2. Unheard'
    BY <1>1, <1>3, <2>1 DEF Unheard, Calls, First, Second, amLines, avrLines, avrState
  <2> QED
    BY <1>1, <2>1, <2>2 DEF Lost, Gone, amLines
<1>5. CASE TimedOut
  <2>1. UNCHANGED <<amLines, op>> /\ mpc' = "exit" /\ rc' = "error"
    BY <1>5 DEF TimedOut
  <2>2. LeftAlone'
    BY <1>1, <1>3, <2>1 DEF Unheard, LeftAlone, amLines, avrState, DataStages
  <2> QED
    BY <1>1, <2>1, <2>2 DEF Lost, Gone
<1>6. CASE SendEvenByte
  <2>1. rak = TRUE /\ First' /\ op' = op /\ sel' = sel /\ mpc' = "odd" /\ mpc = "even"
    BY <1>6 DEF SendEvenByte, RakOk, WantRak, First
  <2>2. stage \in {"exit2", "end"}
    BY <1>1, <2>1 DEF Unheard, Tidy
  <2>3. Unheard'
    BY <1>3, <2>1, <2>2 DEF Unheard, avrLines, avrState
  <2> QED
    BY <1>1, <2>1, <2>3 DEF Lost, Gone
<1>7. CASE SendOddByte
  <2>1. ~rak /\ Second' /\ op' = op /\ sel' = sel /\ mpc' \in {"go", "even", "final"} /\ ~Calls
    BY <1>7 DEF SendOddByte, RakOk, WantRak, Second, Calls
  <2>2. stage = "end"
    BY <1>1, <2>1 DEF Unheard
  <2>3. Unheard'
    BY <1>3, <2>1, <2>2 DEF Unheard, avrLines, avrState
  <2> QED
    BY <1>1, <2>1, <2>3 DEF Lost, Gone
<1>8. CASE RecvAck
  <2>1. rak = TRUE /\ op \notin SendOps
    BY <1>1, <1>8 DEF RecvAck, RakOk, WantRak
  <2>2. First' /\ op' = op /\ sel' = sel /\ mpc' = "size_hi"
    BY <1>8, <2>1 DEF RecvAck, First
  <2>3. stage \in {"exit2", "end"}
    BY <1>1, <2>1 DEF Unheard, Tidy
  <2>4. Unheard'
    BY <1>3, <2>1, <2>2, <2>3 DEF Unheard, avrLines, avrState
  <2> QED
    BY <1>1, <2>2, <2>4 DEF Lost, Gone
<1>9. CASE ReadSizeHi
  <2>1. op \notin SendOps /\ ~Calls
    BY <1>1, <1>9 DEF ReadSizeHi, Calls
  <2>2. ~rak /\ Second' /\ op' = op /\ sel' = sel /\ mpc' = "size_lo"
    BY <1>9, <2>1 DEF ReadSizeHi, RakOk, WantRak, Second
  <2>3. stage = "end"
    BY <1>1, <2>1, <2>2 DEF Unheard
  <2>4. Unheard'
    BY <1>3, <2>2, <2>3 DEF Unheard, avrLines, avrState
  <2> QED
    BY <1>1, <2>2, <2>4 DEF Lost, Gone
<1>10. ~(SendFinal \/ BurstSendGo \/ ReadSizeLo)
  <2>1. SendFinal \/ BurstSendGo \/ ReadSizeLo => rak = TRUE /\ ~Calls /\ ~First
    BY <1>1 DEF SendFinal, BurstSendGo, ReadSizeLo, RakOk, WantRak, Calls, First
  <2> QED
    BY <1>1, <2>1 DEF Unheard, Tidy
<1>11. ~(BurstSync1 \/ BurstSync2 \/ ReadEvenByte \/ ReadOddByte \/ BurstRecvGo)
  BY <1>1, Commands DEF BurstSync1, BurstSync2, ReadEvenByte, ReadOddByte, BurstRecvGo
<1>12. ~(ExitRoutine \/ DropSelect)
  BY <1>1 DEF ExitRoutine, DropSelect
<1> QED
  BY <1>3, <1>4, <1>5, <1>6, <1>7, <1>8, <1>9, <1>10, <1>11, <1>12 DEF HandshakeStep

\* A trigger is heard by an AVR in its main loop with the lines free, or it is not heard.
LEMMA LostTriggerStep ==
  ASSUME IInv, Lost, Tidy, Outside, AmigaTrigger
  PROVE  Lockstep' \/ Lost'
<1> USE DEF Jump, ExitStages
<1>1. /\ mpc = "rak1" /\ ~rak /\ UNCHANGED <<op, req, rak, avrOut, stage>> /\ sel' /\ amOut'
      /\ mpc' = IF op \in SendOps THEN "even" ELSE "ack"
  BY DEF AmigaTrigger, Trigger, RakOk, WantRak, avrLines
<1>2. op \in Ops /\ stage \in {"idle", "end"} \cup ExitStages
  BY <1>1 DEF Lost, Outside
<1>3. CASE stage = "idle" /\ ~req /\ ~avrOut
  <2>1. seen = "none"
    BY <1>3 DEF Tidy, WaitStages, SizeStages, DataStages, IInv, TypeOK, ProtoTypeOK
  <2> QED
    BY <1>1, <1>2, <1>3, <2>1, BeginInStep
<1>4. CASE stage # "idle" \/ req \/ avrOut
  <2>1. Calls'
    BY <1>1 DEF Calls
  <2>2. Unheard'
    BY <1>1, <1>2, <1>4, <2>1 DEF Unheard
  <2>3. ~Gone' /\ mpc' \notin {"idle", "rak1", "exit", "drop_sel"}
    BY <1>1 DEF Gone
  <2> QED
    BY <1>1, <1>2, <2>2, <2>3 DEF Lost
<1> QED
  BY <1>3, <1>4

----------------------------------------------------------------------------
(* How the two ends lose each other *)

\* In step, the handler's stages are tidy.
LEMMA LockstepTidy == ASSUME IInv, Lockstep PROVE Tidy
<1> USE DEF Tidy
<1>1. stage = "exit2" => (rak <=> cmd = CmdRecvBurst)
  <2> SUFFICES ASSUME stage = "exit2" PROVE rak <=> cmd = CmdRecvBurst
    OBVIOUS
  <2>1. /\ Commanded /\ sel /\ Burst
        /\ (cmd \in SendCmds <=> op \in SendOps) /\ (cmd \in RecvCmds <=> op \notin SendOps)
    BY Engaged DEF Commanded, Lockstep, Parked, ExitStages
  <2>2. CASE op \in SendOps
    BY <2>1, <2>2, Commands DEF Lockstep, Sending
  <2>3. CASE op \notin SendOps
    BY <2>1, <2>3, Commands DEF Lockstep, Receiving, RecvLines, Burst
  <2> QED
    BY <2>2, <2>3
<1> QED
  BY <1>1 DEF Lockstep, Parked, Commanded, ExitStages

\* The timer of a burst runs out before its first byte.
LEMMA BurstNotBegun ==
  ASSUME IInv, Lockstep, mpc \in WaitPcs, stage \in DataStages, cmd = CmdSendBurst
  PROVE  got = 0 /\ req # WantReq /\ seen # "hit"
<1> USE DEF DataStages, SizeStages, ExitStages
<1>1. Commanded /\ sel /\ op = "bsend" /\ op \in SendOps
  BY Engaged, Commands DEF Commanded
<1>2. mpc = "go"
  BY <1>1 DEF Lockstep, Sending, SendPlaces, WaitPcs
<1>3. Moved = got + 2 /\ got \in Nat /\ pos = 2
  BY <1>1, <1>2 DEF Moved, Lockstep, Sending, IInv, TypeOK, ProtoTypeOK
<1>4. IF req = WantReq THEN pos = Moved + 1 ELSE pos = Moved
  BY <1>1 DEF Lockstep, Sending
<1>5. got = 0 /\ req # WantReq
  BY <1>3, <1>4
<1> QED
  BY <1>5 DEF Lockstep, Parked

\* Behind the last toggle the client is not waiting any more.
LEMMA LastUnseen ==
  ASSUME IInv, Lockstep, Outside, mpc \in WaitPcs, stage = "last"
  PROVE  ~req /\ seen # "hit"
<1>1. CASE sel
  <2>1. Commanded /\ cmd = CmdRecv
    BY DEF Commanded, IInv, StageOfCmd
  <2>2. op \notin SendOps /\ op = "recv"
    BY <1>1, <2>1, Together, Commands
  <2>3. mpc \in {"size_lo", "odd"} /\ seen # "hit"
    BY <1>1, <2>1, <2>2 DEF Lockstep, Receiving, RecvPlaces, WaitPcs
  <2> QED
    BY <1>1, <2>1, <2>2, <2>3 DEF Lockstep, Receiving, RecvLines
<1>2. CASE ~sel
  <2>1. mpc = "rak1"
    BY <1>2 DEF Lockstep, Quiet, WaitPcs
  <2> QED
    BY <2>1 DEF Outside, ExitStages
<1> QED
  BY <1>1, <1>2

\* What the AVR is doing when the client gives up is what it can do no more of.
LEMMA LeftBehind ==
  ASSUME IInv, Lockstep, Outside, mpc \in WaitPcs
  PROVE  LeftAlone
<1> USE DEF SizeStages, DataStages
<1>1. stage \in {"command", "confirm"} => ~req
  BY DEF Lockstep, Parked, Calling, Commanded
<1>2. stage \in SizeStages \cup DataStages /\ cmd \in SendCmds => op \in SendOps
  BY Engaged DEF Commanded
<1>3. stage # "last" /\ seen = "hit" => req = WantReq
  BY DEF Lockstep, Parked
<1>4. cmd \in SendCmds /\ stage \in DataStages /\ Pending =>
        ~Burst /\ frame \in Outgoing /\ size = Len(frame) /\ Copied(buf, frame)
  <2> SUFFICES ASSUME cmd \in SendCmds, stage \in DataStages, Pending
               PROVE  ~Burst /\ frame \in Outgoing /\ size = Len(frame) /\ Copied(buf, frame)
    OBVIOUS
  <2>1. Commanded /\ sel /\ op \in SendOps
    BY Engaged DEF Commanded
  <2>2. ~Burst
    BY BurstNotBegun, Commands DEF Burst, Pending
  <2> QED
    BY <2>1, <2>2 DEF Lockstep, Filling
<1>5. cmd = CmdSendBurst /\ stage \in DataStages => got = 0
  BY BurstNotBegun
<1>6. stage = "last" => ~req /\ seen # "hit"
  BY LastUnseen
<1>7. cmd = CmdRecv /\ stage \in {"size_lo", "odd"} => WantReq = FALSE
  BY Commands DEF WantReq
<1> QED
  BY <1>1, <1>2, <1>3, <1>4, <1>5, <1>6, <1>7 DEF LeftAlone

\* The client gives up.
LEMMA TimedOutStep ==
  ASSUME IInv, Lockstep, Outside, Missing, TimedOut, UNCHANGED <<avrLines, avrState>>
  PROVE  Lost'
<1>1. /\ UNCHANGED <<req, sel, op, frame>> /\ mpc' = "exit" /\ rc' = "error" /\ mpc \in WaitPcs
      /\ op \in Ops
  BY DEF TimedOut, Return, Jump, amLines, Missing, Lockstep, Quiet
<1>2. LeftAlone'
  BY <1>1, LeftBehind, LeftSame
<1> QED
  BY <1>1, <1>2 DEF Lost, Gone

\* The client refuses a frame that is too large.
LEMMA ReadTooLargeStep ==
  ASSUME IInv, Lockstep, ReadSizeLo, ~(rsize' <= MaxFrame), UNCHANGED <<avrLines, avrState>>
  PROVE  Lost'
<1>1. /\ sel /\ op \notin SendOps /\ op \in Ops
      /\ stage \in {"even", "last", "go"} /\ cmd \notin SendCmds
      /\ got = 0 /\ rsize' = size /\ size \in Nat /\ Commanded
  <2>1. /\ sel /\ op \notin SendOps /\ stage \in {"even", "last", "go"} /\ got = 0 /\ rsize' = size
        /\ Commanded
    BY SizeGoesOut
  <2>2. cmd \notin SendCmds /\ op \in Ops
    BY <2>1, Together
  <2>3. size \in Nat
    BY DEF IInv, TypeOK, ProtoTypeOK, Word
  <2> QED
    BY <2>1, <2>2, <2>3
<1>2. rsize' # 0 /\ rsize' \notin 1..MaxFrame /\ ~(rsize' \in 1..MaxFrame)
  BY <1>1, AmigaAssumption
<1>3. mpc' = "exit" /\ rc' = "error" /\ UNCHANGED <<op, sel>>
  BY <1>2 DEF ReadSizeLo, Return, Jump
<1>4. stage # "last"
  <2>1. stage = "last" => Rounded(size) = 0
    BY <1>1 DEF Lockstep, Emptying
  <2>2. Rounded(size) # 0
    BY <1>1, <1>2 DEF Rounded
  <2> QED
    BY <2>1, <2>2
<1>5. LeftAlone'
  BY <1>1, <1>4, Commands DEF LeftAlone, avrState, DataStages
<1> QED
  BY <1>1, <1>3, <1>5 DEF Lost, Gone

\* The AVR refuses a frame that is too large, before the client knows.
LEMMA SendTooLargeStep ==
  ASSUME IInv, Lockstep, Timely, SendSizeLo, TooLarge(size'), UNCHANGED <<amLines, amigaState>>
  PROVE  Lost'
<1>1. /\ Commanded /\ sel /\ op \in SendOps /\ op \in Ops /\ frame \in Outgoing /\ pos = 2
      /\ mpc \in {"even", "final", "go"} /\ size' = Len(frame) /\ (Burst <=> op = "bsend")
  BY SizeComesIn, Together, Commands
<1>2. Len(frame) \in Nat /\ Len(frame) > 0 /\ BufSize \in Nat
  <2>1. Len(frame) \in Nat /\ BufSize \in Nat
    BY <1>1, OutgoingFits, BufNat
  <2> QED
    BY <1>1, <2>1 DEF TooLarge
<1>3. stage' = "end" /\ (rak' <=> ~Burst) /\ UNCHANGED <<sel, op, mpc>>
  <2>1. rak' = ~(Burst /\ TooLarge(size'))
    BY DEF SendSizeLo
  <2>2. stage' = "end"
    BY <1>1, <1>2 DEF SendSizeLo, Finish, Goto
  <2> QED
    BY <2>1, <2>2 DEF amLines, amigaState
<1>4. op = "send" => mpc = "even"
  <2>1. mpc = "final" => pos >= StreamLen
    BY <1>1 DEF Lockstep, Sending
  <2>2. StreamLen = 2 + Rounded(Len(frame)) /\ ~(2 >= 2 + Rounded(Len(frame)))
    BY <1>1, <1>2, StreamLength DEF Rounded
  <2>3. mpc = "go" => op \in {"bsend", "brecv"}
    BY DEF Lockstep, Routines
  <2> QED
    BY <1>1, <2>1, <2>2, <2>3
<1>5. Second' /\ (rak' => Calls')
  BY <1>1, <1>3, <1>4, Commands DEF Second, Calls
<1>6. Unheard' /\ ~Gone'
  BY <1>1, <1>3, <1>5 DEF Unheard, Gone, ExitStages
<1> QED
  BY <1>1, <1>3, <1>6 DEF Lost, Gone

----------------------------------------------------------------------------
(* The whole link *)

\* Before a trigger SELECT is low, behind it it is high.
LEMMA SelectLevel ==
  ASSUME IInv, Lockstep \/ Lost
  PROVE  (mpc = "rak1" => ~sel) /\ (Gone \/ sel)
  BY DEF Lost, Gone, Lockstep, Quiet

\* A step of the AVR keeps the ends apart or in step.
LEMMA ApartAvrStep ==
  ASSUME IInv, Apart, Interruptible, AvrStep
  PROVE  Apart'
<1>1. ProtoStep /\ UNCHANGED <<amLines, amigaState>>
  BY DEF AvrStep
<1>2. Tidy'
  BY <1>1, TidyStep DEF Apart
<1>3. Outside'
  BY SelectLevel, OutsideAvrStep DEF Apart
<1>4. Wholesome'
  BY <1>1, WholesomeAvrStep DEF Apart
<1>5. Missing'
  BY <1>1 DEF Apart, Missing, amigaState
<1>6. Lockstep' \/ Lost'
  <2>1. CASE Lost
    BY <2>1, LostAvrStep DEF Apart
  <2>2. CASE Lockstep /\ ~AvrBreaksOff
    BY <2>2, AvrInStep DEF Interruptible
  <2>3. CASE Lockstep /\ AvrBreaksOff
    <3>1. SendSizeLo /\ TooLarge(size')
      BY <2>3 DEF AvrBreaksOff, WaitTimeout, Interruptible
    <3> QED
      BY <1>1, <2>3, <3>1, SendTooLargeStep DEF Interruptible
  <2> QED
    BY <2>1, <2>2, <2>3 DEF Apart
<1> QED
  BY <1>2, <1>3, <1>4, <1>5, <1>6 DEF Apart

\* So does a step of the Amiga.
LEMMA ApartAmigaStep ==
  ASSUME IInv, Apart, Interruptible, AmigaStart \/ AmigaRun
  PROVE  Apart'
<1>1. /\ AmigaTrigger \/ UNCHANGED <<avrLines, avrState>>
      /\ UNCHANGED <<avrLines, stage, seen, cmd, size, buf, got, status>>
      /\ delivered' = <<>> \/ delivered' = delivered
  BY DEF AmigaStart, AmigaRun, AmigaTrigger, AmigaHandshake, AmigaBurst, avrState
<1>2. Tidy' /\ Wholesome'
  BY <1>1, WholesomeAmigaStep DEF Apart, Tidy, Burst, avrLines
<1>3. Missing'
  BY MissingStep DEF Apart
<1>4. Lockstep' \/ Lost'
  <2>1. CASE Lost
    <3>1. CASE AmigaTrigger
      BY <2>1, <3>1, LostTriggerStep DEF Apart
    <3>2. CASE AmigaStart \/ AmigaHandshake \/ AmigaBurst
      BY <2>1, <3>2, LeftRunStep, UnheardRunStep DEF Apart, Interruptible
    <3> QED
      BY <3>1, <3>2 DEF AmigaRun
  <2>2. CASE Lockstep /\ ~AmigaBreaksOff
    BY <2>2, AmigaInStep DEF Interruptible
  <2>3. CASE Lockstep /\ AmigaBreaksOff
    <3>1. ~AmigaTrigger
      BY <2>3 DEF AmigaBreaksOff, TimedOut, ReadSizeLo, AmigaTrigger, Trigger, RakOk
    <3> QED
      BY <1>1, <2>3, <3>1, TimedOutStep, ReadTooLargeStep DEF Apart, AmigaBreaksOff
  <2> QED
    BY <2>1, <2>2, <2>3 DEF Apart
<1>5. Outside'
  BY SelectLevel, OutsideAmigaStep DEF Apart, Interruptible
<1> QED
  BY <1>2, <1>3, <1>4, <1>5 DEF Apart

\* Nothing changes.
LEMMA ApartStutter == ASSUME IInv, Apart, UNCHANGED vars PROVE Apart'
<1> USE DEF vars, amigaState
<1>1. Lockstep => Lockstep'
  BY MissStep
<1>2. Lost => Lost'
  <2>1. LeftAlone => LeftAlone'
    BY LeftSame DEF amLines
  <2>2. Unheard => Unheard'
    BY DEF Unheard, Calls, First, Second, amLines, avrLines, avrState
  <2> QED
    BY <2>1, <2>2 DEF Lost, Gone, amLines
<1>3. Tidy' /\ Wholesome'
  BY AmigaTidy, WholesomeAmigaStep DEF Apart, avrState
<1>4. Missing' /\ Outside'
  BY DEF Apart, Missing, Outside, amLines, avrState
<1> QED
  BY <1>1, <1>2, <1>3, <1>4 DEF Apart

\* Both ends start idle and in step.
LEMMA ApartInit == Init => Apart
<1> SUFFICES ASSUME Init PROVE Apart
  OBVIOUS
<1>1. Lockstep /\ IInv
  BY LockstepInit, InvInit
<1>2. Tidy
  BY <1>1, LockstepTidy
<1> QED
  BY <1>1, <1>2 DEF Apart, Missing, Outside, Wholesome, NeverSpliced, Init, ProtoInit, AmigaInit,
     ExitStages

\* No step of either end leaves the invariant.
LEMMA ApartNext == ASSUME Interruptible PROVE IInv /\ Apart /\ [Next]_vars => Apart'
  BY ApartAvrStep, ApartAmigaStep, ApartStutter DEF Next

\* Wherever a client gives up, the ends are in step or lost, and what is handed over is good.
THEOREM ApartForEver == ASSUME Interruptible PROVE Spec => []Apart
  BY ApartInit, ApartNext, Invariance, PTL DEF Spec

\* What proc_func gets is nothing or a frame of the driver but for its last byte, never made of
\* parts of two: a command whose client left takes one byte at most, and only behind an exact copy.
THEOREM NeverMixed == ASSUME Interruptible PROVE Spec => []NeverSpliced
<1>1. Apart => NeverSpliced
  BY DEF Apart, Wholesome
<1> QED
  BY <1>1, ApartForEver, PTL

\* A routine that returned TRUE was in step.
LEMMA OkApart == ASSUME Apart, mpc = "idle", rc = "ok" PROVE Lockstep
  BY DEF Apart, Lost

\* hwsend and hwburstsend return TRUE only if the frame is with proc_func, whatever became of
\* the transfers before.
THEOREM OkStaysTrue == ASSUME Interruptible PROVE Spec => []OkMeansDelivered
<1>1. Apart => OkMeansDelivered
  BY OkApart, OkInStep DEF OkMeansDelivered
<1> QED
  BY <1>1, ApartForEver, PTL

\* hwrecv and hwburstrecv return TRUE only with the frame of fill_func, whatever became of the
\* transfers before.
THEOREM ReadStaysIntact == ASSUME Interruptible PROVE Spec => []ReceivedIntact
<1>1. Apart /\ IInv => ReceivedIntact
  BY OkApart, ReadInStep DEF ReceivedIntact
<1> QED
  BY <1>1, ApartForEver, Invariance, PTL

\* cmd_recv says OK only when the Amiga has the whole frame: a client that gave up has not
\* toggled REQ behind the last byte.
THEOREM LastStaysTrue == ASSUME Interruptible PROVE Spec => RecvAgreement
<1>1. ASSUME Lost, Tidy, [Next]_vars, stage # "end", stage' = "end", status' = "OK", cmd = CmdRecv
      PROVE  FALSE
  <2>1. AvrStep
    BY <1>1 DEF Next, vars, AmigaStart, AmigaRun, AmigaTrigger, AmigaHandshake, AmigaBurst, avrState
  <2>2. stage = "last" /\ seen = "hit"
    BY <1>1, <2>1, SaysOk DEF RecvLast, Tidy
  <2> QED
    BY <1>1, <2>2 DEF Lost, LeftAlone, Unheard, ExitStages
<1>2. Apart /\ IInv /\ [Next]_vars
        => [stage # "end" /\ stage' = "end" /\ status' = "OK" /\ cmd = CmdRecv /\ size > 0
              => /\ rdata' # <<>> /\ Len(rdata') = Padded(rsize')
                 /\ SubSeq(rdata', 1, rsize') = buf]_vars
  BY <1>1, LastInStep DEF Apart
<1> QED
  BY <1>2, ApartForEver, Invariance, PTL DEF RecvAgreement, Spec
=============================================================================
