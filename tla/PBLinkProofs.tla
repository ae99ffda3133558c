---------------------------- MODULE PBLinkProofs ---------------------------
(***************************************************************************)
(* Proofs about PBLink, for every BufSize, MaxFrame, set of frames, choice   *)
(* of faults and timing: its state is well typed and neither end ever steps   *)
(* outside its buffer.  The inductive invariant is IInv of PBLink.           *)
(*                                                                         *)
(* TypeOK is not inductive alone: a size word is assembled from two bytes,    *)
(* so its range follows only if the first half is a multiple of 256 below     *)
(* the limit, and NoOverrun needs the position in the data loops to be        *)
(* related to the checked size and to the parity of the byte to come.         *)
(***************************************************************************)
EXTENDS PBLink, TLAPS
----------------------------------------------------------------------------
(* Numbers and bytes *)
\* pb_buf_size is a number.
LEMMA BufNat == BufSize \in Nat
  BY BufAssumption DEF Word

\* Rounding an accepted size up to words stays within pb_buf, whose size is even.
LEMMA RoundedFits ==
  ASSUME NEW n \in Nat, n <= BufSize
  PROVE  Rounded(n) \in Nat /\ n <= Rounded(n) /\ Rounded(n) <= BufSize /\ Rounded(n) % 2 = 0
  BY BufNat, BufAssumption DEF Rounded

\* The same of the Amiga's frame: rounding is monotone and gives an even number.
LEMMA PaddedMonotone ==
  ASSUME NEW m \in Nat, NEW n \in Nat, m <= n
  PROVE  Padded(m) \in Nat /\ Padded(m) <= Padded(n) /\ Padded(m) % 2 = 0 /\ m <= Padded(m)
  BY DEF Padded

\* A word further stays below an even bound.
LEMMA NextWord ==
  ASSUME NEW m \in Nat, NEW n \in Nat, m % 2 = 0, n % 2 = 0, m < n
  PROVE  (m + 2) % 2 = 0 /\ m + 2 <= n
  OBVIOUS

\* An odd number follows an even one.
LEMMA NextOdd == ASSUME NEW m \in Nat, m % 2 = 0 PROVE (m + 1) % 2 = 1
  OBVIOUS

\* The second byte of a word stays below an even bound.
LEMMA NextOddBelow ==
  ASSUME NEW m \in Nat, NEW n \in Nat, m % 2 = 0, n % 2 = 0, m < n
  PROVE  (m + 1) % 2 = 1 /\ m + 1 < n
  OBVIOUS

\* The halves of a size word are bytes.
LEMMA WordBytes == ASSUME NEW n \in Word PROVE n \div 256 \in Byte /\ n % 256 \in Byte
  BY DEF Word, Byte

\* The same of the operators cmd_recv uses.
LEMMA SizeBytes == ASSUME NEW n \in Word PROVE SizeHi(n) \in Byte /\ SizeLo(n) \in Byte
  BY WordBytes DEF SizeHi, SizeLo

\* The first byte of a size word leaves room for the second.
LEMMA HiByteWord == ASSUME NEW b \in Byte PROVE 256 * b \in Word /\ 256 * b + 255 \in Word
  BY DEF Word, Byte

\* The second byte completes a size word.
LEMMA LoByteWord == ASSUME NEW n \in Word, n + 255 \in Word, NEW b \in Byte PROVE n + b \in Word
  BY DEF Word, Byte

\* What is read from the lines is a byte.
LEMMA BusByte == ASSUME LinesTypeOK PROVE BusValues \subseteq Byte
  BY NoiseAssumption DEF LinesTypeOK, BusValues

\* What the AVR puts on the lines from pb_buf is a byte.
LEMMA BufByte == ASSUME buf \in Seq(Byte), NEW i \in Nat, i > 0 PROVE BufBytes(i) \subseteq Byte
  BY NoiseAssumption DEF BufBytes

\* A frame the driver sends is a sequence of bytes with a 16 bit length.
LEMMA OutgoingFits ==
  ASSUME NEW f \in Outgoing
  PROVE  f \in Seq(Byte) /\ Len(f) \in Word
<1>1. f \in Seq(Byte) /\ Padded(Len(f)) \in Word
  BY AmigaAssumption
<1>2. Len(f) \in Nat /\ Len(f) <= Padded(Len(f))
  BY <1>1, PaddedMonotone
<1> QED
  BY <1>1, <1>2 DEF Word

\* What the Amiga puts on the lines from its frame is a byte.
LEMMA StreamByte ==
  ASSUME frame \in Seq(Byte), Len(frame) \in Word, NEW i \in Nat
  PROVE  StreamBytes(i) \subseteq Byte
<1>1. Len(frame) \div 256 \in Byte /\ Len(frame) % 256 \in Byte
  BY WordBytes
<1> QED
  BY <1>1, NoiseAssumption DEF StreamBytes

----------------------------------------------------------------------------
(* The steps of the AVR *)
\* pb_proto_handle keeps its variables well typed.
LEMMA ProtoTyped ==
  ASSUME LinesTypeOK, ProtoTypeOK, SizeChecked, ProtoStep
  PROVE  ProtoTypeOK'
<1> USE DEF ProtoTypeOK, Goto, Finish, Stages, Statuses, WaitStages, SizeStages,
   DataStages, ExitStages
<1>1. CASE HandleIdle
  BY <1>1 DEF HandleIdle
<1>2. CASE ReadCommand
  BY <1>2, BusByte DEF ReadCommand
<1>3. CASE Confirm
  <2>1. size' \in Word /\ buf' \in Seq(Byte)
    <3>1. CASE cmd \in RecvCmds
      <4>1. PICK f \in Frames : buf' = f /\ size' = Len(f)
        BY <1>3, <3>1 DEF Confirm, RecvCmds, SendCmds, CmdSend, CmdRecv, CmdSendBurst, CmdRecvBurst
      <4>2. QED BY <4>1, FramesAssumption, BufAssumption DEF Word
    <3>2. CASE cmd \notin RecvCmds
      <4>1. \/ size' = 0 /\ buf' = <<>>
            \/ size' = size /\ buf' = buf
        BY <1>3, <3>2 DEF Confirm
      <4>2. size' \in Word
        BY <4>1 DEF Word
      <4>3. <<>> \in Seq(Byte)
        OBVIOUS
      <4>4. QED BY <4>1, <4>2, <4>3
    <3>3. QED BY <3>1, <3>2
  <2>2. QED BY <1>3, <2>1 DEF Confirm
<1>4. CASE FillFails
  BY <1>4 DEF FillFails
<1>5. CASE PollReq
  BY <1>5 DEF PollReq
<1>6. CASE KeepWaiting
  BY <1>6 DEF KeepWaiting
<1>7. CASE LostSelect
  BY <1>7 DEF LostSelect, GiveUp
<1>8. CASE WaitTimeout
  BY <1>8 DEF WaitTimeout, GiveUp
<1>9. CASE SendSizeHi
  <2>1. PICK b \in BusValues : size' = 256 * b
    BY <1>9 DEF SendSizeHi
  <2>2. size' \in Word
    BY <2>1, BusByte, HiByteWord
  <2>3. QED BY <1>9, <2>2 DEF SendSizeHi
<1>10. CASE SendSizeLo
  <2>1. PICK b \in BusValues : size' = size + b
    BY <1>10 DEF SendSizeLo
  <2>2. size' \in Word
    BY <1>10, <2>1, BusByte, LoByteWord DEF SendSizeLo, SizeChecked
  <2>3. QED BY <1>10, <2>2 DEF SendSizeLo
<1>11. CASE SendEven
  BY <1>11, BusByte DEF SendEven, StoreByte
<1>12. CASE SendOdd
  BY <1>12, BusByte DEF SendOdd, StoreByte
<1>13. CASE RecvSizeHi
  BY <1>13 DEF RecvSizeHi
<1>14. CASE RecvSizeLo
  BY <1>14 DEF RecvSizeLo
<1>15. CASE RecvEven
  BY <1>15 DEF RecvEven
<1>16. CASE RecvOdd
  BY <1>16 DEF RecvOdd
<1>17. CASE RecvLast
  BY <1>17 DEF RecvLast
<1>18. CASE RecvGo
  BY <1>18 DEF RecvGo
<1>19. CASE RecvFirst
  BY <1>19 DEF RecvFirst
<1>20. CASE BurstEven
  BY <1>20 DEF BurstEven
<1>21. CASE BurstOdd
  BY <1>21 DEF BurstOdd
<1>22. CASE BurstExit1
  BY <1>22 DEF BurstExit1
<1>23. CASE BurstExit2
  BY <1>23 DEF BurstExit2
<1>24. CASE EndTransfer
  BY <1>24 DEF EndTransfer, Deliverable
<1> QED
  BY <1>1, <1>2, <1>3, <1>4, <1>5, <1>6, <1>7, <1>8, <1>9, <1>10, <1>11, <1>12,
     <1>13, <1>14, <1>15, <1>16, <1>17, <1>18, <1>19, <1>20, <1>21, <1>22, <1>23,
     <1>24 DEF ProtoStep

\* It keeps the lines it drives well typed.
LEMMA AvrLinesTyped ==
  ASSUME LinesTypeOK, ProtoTypeOK, ProtoStep
  PROVE  (rak \in BOOLEAN /\ avrOut \in BOOLEAN /\ avrByte \in Byte)'
<1> USE DEF LinesTypeOK, ProtoTypeOK, avrLines
<1>1. CASE HandleIdle
  BY Zenon, <1>1 DEF HandleIdle
<1>2. CASE ReadCommand
  BY Zenon, <1>2 DEF ReadCommand
<1>3. CASE Confirm
  BY Zenon, <1>3 DEF Confirm
<1>4. CASE FillFails
  BY Zenon, <1>4 DEF FillFails
<1>5. CASE PollReq
  BY Zenon, <1>5 DEF PollReq
<1>6. CASE KeepWaiting
  BY Zenon, <1>6 DEF KeepWaiting
<1>7. CASE LostSelect
  BY Zenon, <1>7 DEF LostSelect, GiveUp
<1>8. CASE WaitTimeout
  BY Zenon, <1>8 DEF WaitTimeout, GiveUp
<1>9. CASE SendSizeHi
  BY Zenon, <1>9 DEF SendSizeHi
<1>10. CASE SendSizeLo
  BY Zenon, <1>10 DEF SendSizeLo
<1>11. CASE SendEven
  BY Zenon, <1>11 DEF SendEven, Ack
<1>12. CASE SendOdd
  BY Zenon, <1>12 DEF SendOdd, Ack
<1>13. CASE RecvSizeHi
  BY Zenon, <1>13, SizeBytes DEF RecvSizeHi
<1>14. CASE RecvSizeLo
  BY Zenon, <1>14, SizeBytes DEF RecvSizeLo
<1>15. CASE RecvEven
  <2>1. PICK b \in BufBytes(got + 1) : avrByte' = b
    BY <1>15 DEF RecvEven, PutByte
  <2>2. avrByte' \in Byte
    BY <2>1, BufByte
  <2>3. QED BY Zenon, <1>15, <2>2 DEF RecvEven
<1>16. CASE RecvOdd
  <2>1. PICK b \in BufBytes(got + 1) : avrByte' = b
    BY <1>16 DEF RecvOdd, PutByte
  <2>2. avrByte' \in Byte
    BY <2>1, BufByte
  <2>3. QED BY Zenon, <1>16, <2>2 DEF RecvOdd
<1>17. CASE RecvLast
  BY Zenon, <1>17 DEF RecvLast
<1>18. CASE RecvGo
  BY Zenon, <1>18 DEF RecvGo
<1>19. CASE RecvFirst
  <2>1. PICK b \in BufBytes(1) : avrByte' = b
    BY <1>19 DEF RecvFirst, PutByte
  <2>2. avrByte' \in Byte
    BY <2>1, BufByte
  <2>3. QED BY Zenon, <1>19, <2>2 DEF RecvFirst
<1>20. CASE BurstEven
  <2>1. PICK b \in BufBytes(got + 2) : avrByte' = b
    BY <1>20 DEF BurstEven, PutByte
  <2>2. avrByte' \in Byte
    BY <2>1, BufByte
  <2>3. QED BY Zenon, <1>20, <2>2 DEF BurstEven
<1>21. CASE BurstOdd
  <2>1. avrByte' \in Byte
    <3>1. got' + 1 \in Nat /\ got' + 1 > 0
      BY <1>21 DEF BurstOdd
    <3>2. QED BY <1>21, <3>1, BufByte DEF BurstOdd, PutByte
  <2>2. QED BY Zenon, <1>21, <2>1 DEF BurstOdd
<1>22. CASE BurstExit1
  BY Zenon, <1>22 DEF BurstExit1
<1>23. CASE BurstExit2
  BY Zenon, <1>23 DEF BurstExit2
<1>24. CASE EndTransfer
  BY Zenon, <1>24 DEF EndTransfer
<1> QED
  BY <1>1, <1>2, <1>3, <1>4, <1>5, <1>6, <1>7, <1>8, <1>9, <1>10, <1>11, <1>12,
     <1>13, <1>14, <1>15, <1>16, <1>17, <1>18, <1>19, <1>20, <1>21, <1>22, <1>23,
     <1>24 DEF ProtoStep

\* A stage is entered by the commands it belongs to only.
LEMMA StageOfCmdStep ==
  ASSUME StageOfCmd, ProtoStep
  PROVE  StageOfCmd'
<1> USE DEF StageOfCmd, AvrRunning, Goto, Finish, Burst, BurstCmds, WaitStages,
   SizeStages, DataStages, ExitStages, SendCmds, RecvCmds, CmdSend, CmdRecv,
   CmdSendBurst, CmdRecvBurst
<1>1. CASE HandleIdle
  BY <1>1 DEF HandleIdle
<1>2. CASE ReadCommand
  BY <1>2 DEF ReadCommand
<1>3. CASE Confirm
  BY <1>3 DEF Confirm
<1>4. CASE FillFails
  BY <1>4 DEF FillFails
<1>5. CASE PollReq
  BY <1>5 DEF PollReq
<1>6. CASE KeepWaiting
  BY <1>6 DEF KeepWaiting
<1>7. CASE LostSelect
  BY <1>7 DEF LostSelect, GiveUp, Untimed
<1>8. CASE WaitTimeout
  BY <1>8 DEF WaitTimeout, GiveUp
<1>9. CASE SendSizeHi
  BY <1>9 DEF SendSizeHi
<1>10. CASE SendSizeLo
  BY <1>10 DEF SendSizeLo
<1>11. CASE SendEven
  BY <1>11 DEF SendEven
<1>12. CASE SendOdd
  BY <1>12 DEF SendOdd
<1>13. CASE RecvSizeHi
  BY <1>13 DEF RecvSizeHi
<1>14. CASE RecvSizeLo
  BY <1>14 DEF RecvSizeLo
<1>15. CASE RecvEven
  BY <1>15 DEF RecvEven
<1>16. CASE RecvOdd
  BY <1>16 DEF RecvOdd
<1>17. CASE RecvLast
  BY <1>17 DEF RecvLast
<1>18. CASE RecvGo
  BY <1>18 DEF RecvGo
<1>19. CASE RecvFirst
  BY <1>19 DEF RecvFirst
<1>20. CASE BurstEven
  BY <1>20 DEF BurstEven
<1>21. CASE BurstOdd
  BY <1>21 DEF BurstOdd
<1>22. CASE BurstExit1
  BY <1>22 DEF BurstExit1
<1>23. CASE BurstExit2
  BY <1>23 DEF BurstExit2
<1>24. CASE EndTransfer
  BY <1>24 DEF EndTransfer
<1> QED
  BY <1>1, <1>2, <1>3, <1>4, <1>5, <1>6, <1>7, <1>8, <1>9, <1>10, <1>11, <1>12,
     <1>13, <1>14, <1>15, <1>16, <1>17, <1>18, <1>19, <1>20, <1>21, <1>22, <1>23,
     <1>24 DEF ProtoStep

\* The data loops are entered with a checked size only.
LEMMA SizeCheckedStep ==
  ASSUME LinesTypeOK, ProtoTypeOK, StageOfCmd, SizeChecked, WithinFrame, ProtoStep
  PROVE  SizeChecked'
<1> USE DEF SizeChecked, AvrRunning, Goto, Finish, Burst, WaitStages, SizeStages,
   DataStages, ExitStages, SendCmds, RecvCmds, CmdSend, CmdRecv, CmdSendBurst,
   CmdRecvBurst
<1>1. CASE HandleIdle
  BY <1>1 DEF HandleIdle
<1>2. CASE ReadCommand
  BY <1>2 DEF ReadCommand
<1>3. CASE Confirm
  BY <1>3 DEF Confirm
<1>4. CASE FillFails
  BY <1>4 DEF FillFails
<1>5. CASE PollReq
  BY <1>5 DEF PollReq
<1>6. CASE KeepWaiting
  BY <1>6 DEF KeepWaiting
<1>7. CASE LostSelect
  BY <1>7 DEF LostSelect, GiveUp, Untimed, BurstCmds
<1>8. CASE WaitTimeout
  BY <1>8 DEF WaitTimeout, GiveUp
<1>9. CASE SendSizeHi
  <2>1. PICK b \in BusValues : size' = 256 * b
    BY <1>9 DEF SendSizeHi
  <2>2. size' + 255 \in Word
    BY <2>1, BusByte, HiByteWord
  <2>3. QED BY <1>9, <2>2 DEF SendSizeHi
<1>10. CASE SendSizeLo
  <2>1. PICK b \in BusValues : size' = size + b /\ (stage' = "even" => ~TooLarge(size + b))
    BY <1>10 DEF SendSizeLo
  <2>2. size' <= BufSize \/ stage' /= "even"
    BY <2>1, BufNat, BusByte DEF TooLarge, ProtoTypeOK, Word, Byte
  <2>3. got' = 0 /\ buf' = <<>>
    BY <1>10 DEF SendSizeLo, WithinFrame
  <2>4. stage' \in {"even", "exit1", "end"} /\ cmd' \in SendCmds
    BY <1>10 DEF SendSizeLo
  <2>5. QED BY <2>2, <2>3, <2>4
<1>11. CASE SendEven
  BY <1>11, BusByte DEF SendEven, StoreByte, ProtoTypeOK, WithinFrame
<1>12. CASE SendOdd
  BY <1>12, BusByte DEF SendOdd, StoreByte, ProtoTypeOK, WithinFrame, BurstCmds
<1>13. CASE RecvSizeHi
  BY <1>13 DEF RecvSizeHi
<1>14. CASE RecvSizeLo
  BY <1>14 DEF RecvSizeLo
<1>15. CASE RecvEven
  BY <1>15 DEF RecvEven
<1>16. CASE RecvOdd
  BY <1>16 DEF RecvOdd
<1>17. CASE RecvLast
  BY <1>17 DEF RecvLast
<1>18. CASE RecvGo
  BY <1>18 DEF RecvGo
<1>19. CASE RecvFirst
  BY <1>19 DEF RecvFirst, StageOfCmd
<1>20. CASE BurstEven
  BY <1>20 DEF BurstEven
<1>21. CASE BurstOdd
  BY <1>21 DEF BurstOdd
<1>22. CASE BurstExit1
  BY <1>22 DEF BurstExit1
<1>23. CASE BurstExit2
  BY <1>23 DEF BurstExit2
<1>24. CASE EndTransfer
  BY <1>24 DEF EndTransfer
<1> QED
  BY <1>1, <1>2, <1>3, <1>4, <1>5, <1>6, <1>7, <1>8, <1>9, <1>10, <1>11, <1>12,
     <1>13, <1>14, <1>15, <1>16, <1>17, <1>18, <1>19, <1>20, <1>21, <1>22, <1>23,
     <1>24 DEF ProtoStep

\* The data loops keep their position within the frame.
LEMMA WithinFrameStep ==
  ASSUME ProtoTypeOK, StageOfCmd, SizeChecked, WithinFrame, ProtoStep
  PROVE  WithinFrame'
<1> USE DEF WithinFrame, ProtoTypeOK, Goto, Finish, SizeStages, DataStages
<1>1. CASE HandleIdle
  BY <1>1 DEF HandleIdle
<1>2. CASE ReadCommand
  BY <1>2 DEF ReadCommand
<1>3. CASE Confirm
  BY <1>3, FramesAssumption, BufNat DEF Confirm
<1>4. CASE FillFails
  BY <1>4 DEF FillFails
<1>5. CASE PollReq
  BY <1>5 DEF PollReq
<1>6. CASE KeepWaiting
  BY <1>6 DEF KeepWaiting
<1>7. CASE LostSelect
  BY <1>7 DEF LostSelect, GiveUp, ExitStages
<1>8. CASE WaitTimeout
  BY <1>8 DEF WaitTimeout, GiveUp
<1>9. CASE SendSizeHi
  BY <1>9 DEF SendSizeHi
<1>10. CASE SendSizeLo
  BY <1>10, RoundedFits, BufNat DEF SendSizeLo, TooLarge, Rounded, SizeChecked
<1>11. CASE SendEven
  <2>1. Rounded(size) <= BufSize /\ Rounded(size) \in Nat /\ Rounded(size) % 2 = 0
    BY <1>11, RoundedFits DEF SendEven, SizeChecked, Word
  <2>2. got' = got + 1 /\ got' <= BufSize /\ got' < Rounded(size)
    BY <1>11, <2>1, BufNat DEF SendEven, StoreByte
  <2>3. Len(buf') = got'
    BY <1>11, <2>2 DEF SendEven, StoreByte, SizeChecked
  <2>4. cmd' /= CmdRecvBurst
    BY <1>11 DEF SendEven, SendCmds, CmdSend, CmdSendBurst, CmdRecvBurst
  <2>5. QED BY <1>11, <2>2, <2>3, <2>4 DEF SendEven
<1>12. CASE SendOdd
  <2>1. Rounded(size) <= BufSize /\ Rounded(size) \in Nat
    BY <1>12, RoundedFits DEF SendOdd, SizeChecked, Word
  <2>2. got' = got + 1 /\ got < Rounded(size)
    BY <1>12 DEF SendOdd, StoreByte
  <2>3. got' <= BufSize
    BY <2>1, <2>2, BufNat
  <2>4. Len(buf') = got'
    BY <1>12, <2>2 DEF SendOdd, StoreByte, SizeChecked
  <2>5. got % 2 = 1
    BY <1>12 DEF SendOdd, SendCmds, CmdSend, CmdSendBurst, CmdRecvBurst
  <2>6. QED BY <1>12, <2>1, <2>2, <2>4, <2>5, <2>3, BufNat DEF SendOdd
<1>13. CASE RecvSizeHi
  BY <1>13 DEF RecvSizeHi
<1>14. CASE RecvSizeLo
  BY <1>14 DEF RecvSizeLo, Rounded, Word
<1>15. CASE RecvEven
  <2>1. size <= BufSize
    BY <1>15, BufNat DEF RecvEven, SizeChecked, AvrRunning, WaitStages, RecvCmds
  <2>2. Rounded(size) <= BufSize /\ Rounded(size) \in Nat /\ Rounded(size) % 2 = 0
    BY <2>1, RoundedFits DEF Word
  <2>3. got' = got + 1 /\ got' <= BufSize /\ got' < Rounded(size)
    BY <1>15, <2>2, BufNat DEF RecvEven
  <2>4. cmd' /= CmdRecvBurst
    BY <1>15 DEF RecvEven, CmdRecv, CmdRecvBurst
  <2>5. got' % 2 = 1
    BY <1>15, <2>3, NextOdd DEF RecvEven
  <2>6. QED BY <1>15, <2>3, <2>4, <2>5 DEF RecvEven
<1>16. CASE RecvOdd
  <2>1. size <= BufSize
    BY <1>16, BufNat DEF RecvOdd, SizeChecked, AvrRunning, WaitStages, RecvCmds
  <2>2. Rounded(size) <= BufSize /\ Rounded(size) \in Nat
    BY <2>1, RoundedFits DEF Word
  <2>3. got' = got + 1 /\ got' <= BufSize
    BY <1>16, <2>2, BufNat DEF RecvOdd
  <2>4. got % 2 = 1
    BY <1>16 DEF RecvOdd, CmdRecv, CmdRecvBurst
  <2>5. QED BY <1>16, <2>2, <2>3, <2>4 DEF RecvOdd
<1>17. CASE RecvLast
  BY <1>17 DEF RecvLast
<1>18. CASE RecvGo
  BY <1>18 DEF RecvGo
<1>19. CASE RecvFirst
  BY <1>19 DEF RecvFirst, Rounded, Word
<1>20. CASE BurstEven
  BY <1>20 DEF BurstEven
<1>21. CASE BurstOdd
  <2>1. size <= BufSize
    BY <1>21, BufNat DEF BurstOdd, SizeChecked, AvrRunning, WaitStages, RecvCmds
  <2>2. Rounded(size) <= BufSize /\ Rounded(size) \in Nat /\ Rounded(size) % 2 = 0
    BY <2>1, RoundedFits DEF Word
  <2>3. got % 2 = 0 /\ got < Rounded(size)
    BY <1>21 DEF BurstOdd
  <2>4. got' = got + 2 /\ got' % 2 = 0 /\ got' <= Rounded(size)
    BY <1>21, <2>2, <2>3, NextWord DEF BurstOdd
  <2>5. got' <= BufSize
    BY <2>2, <2>4, BufNat
  <2>6. QED BY <1>21, <2>2, <2>4, <2>5 DEF BurstOdd
<1>22. CASE BurstExit1
  BY <1>22 DEF BurstExit1
<1>23. CASE BurstExit2
  BY <1>23 DEF BurstExit2
<1>24. CASE EndTransfer
  BY <1>24 DEF EndTransfer
<1> QED
  BY <1>1, <1>2, <1>3, <1>4, <1>5, <1>6, <1>7, <1>8, <1>9, <1>10, <1>11, <1>12,
     <1>13, <1>14, <1>15, <1>16, <1>17, <1>18, <1>19, <1>20, <1>21, <1>22, <1>23,
     <1>24 DEF ProtoStep

----------------------------------------------------------------------------
(* The steps of the Amiga *)
\* Any step of a routine of hwpar.asm.
AmigaStep == Start \/ Trigger \/ HandshakeStep \/ BurstLoopStep

\* The routines keep their variables well typed.
LEMMA AmigaTyped ==
  ASSUME LinesTypeOK, AmigaTypeOK, ReadWithinFrame, AmigaStep
  PROVE  AmigaTypeOK'
<1> USE DEF AmigaTypeOK, Jump, Return, Pcs, WaitPcs
<1>1. CASE Start
  BY <1>1, AmigaAssumption DEF Start
<1>2. CASE Trigger
  <2>1. frame' \in Seq(Byte)
    BY <1>2, OutgoingFits DEF Trigger
  <2>2. rsize' \in Word
    BY <1>2 DEF Trigger, Word
  <2>3. rdata' \in Seq(Byte)
    BY <1>2 DEF Trigger
  <2>4. QED BY <1>2, <2>1, <2>2, <2>3 DEF Trigger
<1>3. CASE RakMiss
  BY <1>3 DEF RakMiss
<1>4. CASE PollAgain
  BY <1>4 DEF PollAgain
<1>5. CASE TimedOut
  BY <1>5 DEF TimedOut
<1>6. CASE SendEvenByte
  <2>1. pos' \in Nat
    BY <1>6 DEF SendEvenByte, PutNext
  <2>2. mpc' \in Pcs
    BY <1>6 DEF SendEvenByte
  <2>3. QED BY <1>6, <2>1, <2>2 DEF SendEvenByte
<1>7. CASE SendOddByte
  <2>1. pos' \in Nat
    BY <1>7 DEF SendOddByte, PutNext
  <2>2. mpc' \in Pcs
    BY <1>7 DEF SendOddByte
  <2>3. QED BY <1>7, <2>1, <2>2 DEF SendOddByte
<1>8. CASE SendFinal
  BY <1>8 DEF SendFinal
<1>9. CASE BurstSendGo
  BY <1>9 DEF BurstSendGo
<1>10. CASE BurstSync1
  BY <1>10 DEF BurstSync1
<1>11. CASE BurstSync2
  BY <1>11 DEF BurstSync2
<1>12. CASE RecvAck
  BY <1>12 DEF RecvAck
<1>13. CASE ReadSizeHi
  <2>1. rsize' \in Word
    BY <1>13, BusByte, HiByteWord DEF ReadSizeHi
  <2>2. QED BY <1>13, <2>1 DEF ReadSizeHi
<1>14. CASE ReadSizeLo
  <2>1. rsize' \in Word
    BY <1>14, BusByte, LoByteWord DEF ReadSizeLo, ReadWithinFrame
  <2>2. QED BY <1>14, <2>1 DEF ReadSizeLo
<1>15. CASE ReadEvenByte
  <2>1. rdata' \in Seq(Byte)
    <3>1. PICK b \in BusValues : rdata' = Append(rdata, b)
      BY <1>15 DEF ReadEvenByte, TakeByte
    <3>2. QED BY <3>1, BusByte
  <2>2. mpc' \in Pcs
    BY <1>15 DEF ReadEvenByte
  <2>3. QED BY <1>15, <2>1, <2>2 DEF ReadEvenByte
<1>16. CASE ReadOddByte
  <2>1. rdata' \in Seq(Byte)
    <3>1. PICK b \in BusValues : rdata' = Append(rdata, b)
      BY <1>16 DEF ReadOddByte, TakeByte
    <3>2. QED BY <3>1, BusByte
  <2>2. mpc' \in Pcs
    BY <1>16 DEF ReadOddByte
  <2>3. QED BY <1>16, <2>1, <2>2 DEF ReadOddByte
<1>17. CASE BurstRecvGo
  BY <1>17 DEF BurstRecvGo
<1>18. CASE ExitRoutine
  BY <1>18 DEF ExitRoutine
<1>19. CASE DropSelect
  BY <1>19 DEF DropSelect
<1>20. CASE BurstPutEven
  <2>1. pos' \in Nat
    BY <1>20 DEF BurstPutEven, PutNext
  <2>2. mpc' \in Pcs
    BY <1>20 DEF BurstPutEven
  <2>3. QED BY <1>20, <2>1, <2>2 DEF BurstPutEven
<1>21. CASE BurstPutOdd
  <2>1. pos' \in Nat
    BY <1>21 DEF BurstPutOdd, PutNext
  <2>2. mpc' \in Pcs
    BY <1>21 DEF BurstPutOdd
  <2>3. QED BY <1>21, <2>1, <2>2 DEF BurstPutOdd
<1>22. CASE BurstReqEven
  BY <1>22 DEF BurstReqEven
<1>23. CASE BurstReadEven
  <2>1. rdata' \in Seq(Byte)
    <3>1. PICK b \in BusValues : rdata' = Append(rdata, b)
      BY <1>23 DEF BurstReadEven, TakeByte
    <3>2. QED BY <3>1, BusByte
  <2>2. mpc' \in Pcs
    BY <1>23 DEF BurstReadEven
  <2>3. QED BY <1>23, <2>1, <2>2 DEF BurstReadEven
<1>24. CASE BurstReqOdd
  BY <1>24 DEF BurstReqOdd
<1>25. CASE BurstReadOdd
  <2>1. rdata' \in Seq(Byte)
    <3>1. PICK b \in BusValues : rdata' = Append(rdata, b)
      BY <1>25 DEF BurstReadOdd, TakeByte
    <3>2. QED BY <3>1, BusByte
  <2>2. mpc' \in Pcs
    BY <1>25 DEF BurstReadOdd
  <2>3. QED BY <1>25, <2>1, <2>2 DEF BurstReadOdd
<1>26. CASE BurstEnd
  BY <1>26 DEF BurstEnd
<1> QED
  BY <1>1, <1>2, <1>3, <1>4, <1>5, <1>6, <1>7, <1>8, <1>9, <1>10, <1>11, <1>12,
     <1>13, <1>14, <1>15, <1>16, <1>17, <1>18, <1>19, <1>20, <1>21, <1>22, <1>23,
     <1>24, <1>25, <1>26 DEF AmigaStep, HandshakeStep, BurstLoopStep

\* They keep the lines the Amiga drives well typed.
LEMMA AmLinesTyped ==
  ASSUME LinesTypeOK, AmigaTypeOK, ReadWithinFrame, AmigaStep
  PROVE  (sel \in BOOLEAN /\ req \in BOOLEAN /\ amOut \in BOOLEAN /\ amByte \in Byte)'
<1> USE DEF LinesTypeOK, amLines
<1>1. CASE Start
  BY Zenon, <1>1 DEF Start
<1>2. CASE Trigger
  <2>1. \A o \in AllOps : CmdOf[o] \in Byte
    BY DEF CmdOf, AllOps, Byte
  <2>2. amByte' \in Byte
    BY <1>2, <2>1 DEF Trigger, AmigaTypeOK
  <2>3. QED BY Zenon, <1>2, <2>2 DEF Trigger
<1>3. CASE RakMiss
  BY Zenon, <1>3 DEF RakMiss
<1>4. CASE PollAgain
  BY Zenon, <1>4 DEF PollAgain
<1>5. CASE TimedOut
  BY Zenon, <1>5 DEF TimedOut
<1>6. CASE SendEvenByte
  <2>1. amByte' \in Byte
    BY <1>6, StreamByte DEF SendEvenByte, PutNext, AmigaTypeOK, ReadWithinFrame
  <2>2. QED BY Zenon, <1>6, <2>1 DEF SendEvenByte, PutNext
<1>7. CASE SendOddByte
  <2>1. amByte' \in Byte
    BY <1>7, StreamByte DEF SendOddByte, PutNext, AmigaTypeOK, ReadWithinFrame
  <2>2. QED BY Zenon, <1>7, <2>1 DEF SendOddByte, PutNext
<1>8. CASE SendFinal
  BY Zenon, <1>8 DEF SendFinal
<1>9. CASE BurstSendGo
  BY Zenon, <1>9 DEF BurstSendGo
<1>10. CASE BurstSync1
  BY Zenon, <1>10 DEF BurstSync1
<1>11. CASE BurstSync2
  BY Zenon, <1>11 DEF BurstSync2
<1>12. CASE RecvAck
  BY Zenon, <1>12 DEF RecvAck
<1>13. CASE ReadSizeHi
  BY Zenon, <1>13 DEF ReadSizeHi
<1>14. CASE ReadSizeLo
  BY Zenon, <1>14 DEF ReadSizeLo
<1>15. CASE ReadEvenByte
  BY Zenon, <1>15 DEF ReadEvenByte
<1>16. CASE ReadOddByte
  BY Zenon, <1>16 DEF ReadOddByte
<1>17. CASE BurstRecvGo
  BY Zenon, <1>17 DEF BurstRecvGo
<1>18. CASE ExitRoutine
  BY Zenon, <1>18 DEF ExitRoutine
<1>19. CASE DropSelect
  BY Zenon, <1>19 DEF DropSelect
<1>20. CASE BurstPutEven
  <2>1. amByte' \in Byte
    BY <1>20, StreamByte DEF BurstPutEven, PutNext, AmigaTypeOK, ReadWithinFrame
  <2>2. QED BY Zenon, <1>20, <2>1 DEF BurstPutEven, PutNext
<1>21. CASE BurstPutOdd
  <2>1. amByte' \in Byte
    BY <1>21, StreamByte DEF BurstPutOdd, PutNext, AmigaTypeOK, ReadWithinFrame
  <2>2. QED BY Zenon, <1>21, <2>1 DEF BurstPutOdd, PutNext
<1>22. CASE BurstReqEven
  BY Zenon, <1>22 DEF BurstReqEven
<1>23. CASE BurstReadEven
  BY Zenon, <1>23 DEF BurstReadEven
<1>24. CASE BurstReqOdd
  BY Zenon, <1>24 DEF BurstReqOdd
<1>25. CASE BurstReadOdd
  BY Zenon, <1>25 DEF BurstReadOdd
<1>26. CASE BurstEnd
  BY Zenon, <1>26 DEF BurstEnd
<1> QED
  BY <1>1, <1>2, <1>3, <1>4, <1>5, <1>6, <1>7, <1>8, <1>9, <1>10, <1>11, <1>12,
     <1>13, <1>14, <1>15, <1>16, <1>17, <1>18, <1>19, <1>20, <1>21, <1>22, <1>23,
     <1>24, <1>25, <1>26 DEF AmigaStep, HandshakeStep, BurstLoopStep

\* The receive loops keep their position within the frame.
LEMMA ReadWithinFrameStep ==
  ASSUME LinesTypeOK, AmigaTypeOK, ReadWithinFrame, AmigaStep
  PROVE  ReadWithinFrame'
<1> USE DEF ReadWithinFrame, AmigaReading, AmigaTypeOK, Jump, Return
<1>1. CASE Start
  BY <1>1 DEF Start
<1>2. CASE Trigger
  <2>1. rdata' = <<>> /\ Len(rdata') = 0 /\ rsize' = 0
    BY <1>2 DEF Trigger
  <2>2. Len(frame') \in Word
    BY <1>2, OutgoingFits DEF Trigger
  <2>3. 0 <= Padded(MaxFrame)
    BY PaddedMonotone, AmigaAssumption
  <2>4. QED BY <1>2, <2>1, <2>2, <2>3 DEF Trigger
<1>3. CASE RakMiss
  BY <1>3 DEF RakMiss
<1>4. CASE PollAgain
  BY <1>4 DEF PollAgain
<1>5. CASE TimedOut
  BY <1>5 DEF TimedOut
<1>6. CASE SendEvenByte
  BY <1>6 DEF SendEvenByte, PutNext, SendOps
<1>7. CASE SendOddByte
  BY <1>7 DEF SendOddByte, PutNext, SendOps
<1>8. CASE SendFinal
  BY <1>8 DEF SendFinal
<1>9. CASE BurstSendGo
  BY <1>9 DEF BurstSendGo, SendOps
<1>10. CASE BurstSync1
  BY <1>10 DEF BurstSync1
<1>11. CASE BurstSync2
  BY <1>11 DEF BurstSync2
<1>12. CASE RecvAck
  BY <1>12 DEF RecvAck
<1>13. CASE ReadSizeHi
  <2>1. rsize' + 255 \in Word
    BY <1>13, BusByte, HiByteWord DEF ReadSizeHi
  <2>2. QED BY <1>13, <2>1 DEF ReadSizeHi
<1>14. CASE ReadSizeLo
  <2>1. rdata' = <<>> /\ Len(rdata') = 0
    BY <1>14 DEF ReadSizeLo
  <2>2. rsize' \in 1..MaxFrame => 0 < Padded(rsize')
    BY AmigaAssumption, PaddedMonotone
  <2>3. QED BY <1>14, <2>1, <2>2 DEF ReadSizeLo
<1>15. CASE ReadEvenByte
  <2>1. /\ rdata' \in Seq(Byte) /\ Len(rdata') = Len(rdata) + 1
        /\ Len(rdata) \in Nat /\ Len(rdata) % 2 = 0
        /\ Len(rdata) < Padded(rsize) /\ rsize \in 1..MaxFrame
    BY <1>15, BusByte DEF ReadEvenByte, TakeByte, SendOps
  <2>2. /\ Padded(rsize) <= Padded(MaxFrame) /\ Padded(rsize) \in Nat /\ Padded(MaxFrame) \in Nat
        /\ Padded(rsize) % 2 = 0
    BY <2>1, PaddedMonotone, AmigaAssumption
  <2>3. /\ Len(rdata') < Padded(rsize) /\ Len(rdata') <= Padded(MaxFrame)
        /\ Len(rdata') % 2 = 1
    BY <2>1, <2>2, NextOddBelow
  <2>4. QED BY <1>15, <2>1, <2>3 DEF ReadEvenByte, SendOps
<1>16. CASE ReadOddByte
  <2>1. /\ rdata' \in Seq(Byte) /\ Len(rdata') = Len(rdata) + 1
        /\ Len(rdata) % 2 = 1 /\ Len(rdata) < Padded(rsize) /\ rsize \in 1..MaxFrame
    BY <1>16, BusByte DEF ReadOddByte, TakeByte, SendOps
  <2>2. Padded(rsize) <= Padded(MaxFrame) /\ Padded(rsize) \in Nat /\ Padded(MaxFrame) \in Nat
    BY <2>1, PaddedMonotone, AmigaAssumption
  <2>3. Len(rdata') <= Padded(MaxFrame) /\ Len(rdata') % 2 = 0
    BY <2>1, <2>2
  <2>4. QED BY <1>16, <2>1, <2>3 DEF ReadOddByte, MoreToRead, SendOps
<1>17. CASE BurstRecvGo
  <2>1. Len(rdata) = 0 /\ rsize \in 1..MaxFrame
    BY <1>17 DEF BurstRecvGo, SendOps
  <2>2. QED BY <1>17, <2>1 DEF BurstRecvGo, SendOps
<1>18. CASE ExitRoutine
  BY <1>18 DEF ExitRoutine
<1>19. CASE DropSelect
  BY <1>19 DEF DropSelect
<1>20. CASE BurstPutEven
  BY <1>20 DEF BurstPutEven, PutNext, SendOps
<1>21. CASE BurstPutOdd
  BY <1>21 DEF BurstPutOdd, PutNext, SendOps
<1>22. CASE BurstReqEven
  BY <1>22 DEF BurstReqEven
<1>23. CASE BurstReadEven
  <2>1. /\ rdata' \in Seq(Byte) /\ Len(rdata') = Len(rdata) + 1
        /\ Len(rdata) \in Nat /\ Len(rdata) % 2 = 0
        /\ Len(rdata) < Padded(rsize) /\ rsize \in 1..MaxFrame
    BY <1>23, BusByte DEF BurstReadEven, TakeByte, SendOps
  <2>2. /\ Padded(rsize) <= Padded(MaxFrame) /\ Padded(rsize) \in Nat /\ Padded(MaxFrame) \in Nat
        /\ Padded(rsize) % 2 = 0
    BY <2>1, PaddedMonotone, AmigaAssumption
  <2>3. /\ Len(rdata') < Padded(rsize) /\ Len(rdata') <= Padded(MaxFrame)
        /\ Len(rdata') % 2 = 1
    BY <2>1, <2>2, NextOddBelow
  <2>4. QED BY <1>23, <2>1, <2>3 DEF BurstReadEven, SendOps
<1>24. CASE BurstReqOdd
  BY <1>24 DEF BurstReqOdd
<1>25. CASE BurstReadOdd
  <2>1. /\ rdata' \in Seq(Byte) /\ Len(rdata') = Len(rdata) + 1
        /\ Len(rdata) % 2 = 1 /\ Len(rdata) < Padded(rsize) /\ rsize \in 1..MaxFrame
    BY <1>25, BusByte DEF BurstReadOdd, TakeByte, SendOps
  <2>2. Padded(rsize) <= Padded(MaxFrame) /\ Padded(rsize) \in Nat /\ Padded(MaxFrame) \in Nat
    BY <2>1, PaddedMonotone, AmigaAssumption
  <2>3. Len(rdata') <= Padded(MaxFrame) /\ Len(rdata') % 2 = 0
    BY <2>1, <2>2
  <2>4. QED BY <1>25, <2>1, <2>3 DEF BurstReadOdd, MoreToRead, SendOps
<1>26. CASE BurstEnd
  BY <1>26 DEF BurstEnd
<1> QED
  BY <1>1, <1>2, <1>3, <1>4, <1>5, <1>6, <1>7, <1>8, <1>9, <1>10, <1>11, <1>12,
     <1>13, <1>14, <1>15, <1>16, <1>17, <1>18, <1>19, <1>20, <1>21, <1>22, <1>23,
     <1>24, <1>25, <1>26 DEF AmigaStep, HandshakeStep, BurstLoopStep

----------------------------------------------------------------------------
(* The composed system *)
\* Both ends initialised satisfy the invariant.
LEMMA InvInit == Init => IInv
<1> SUFFICES ASSUME Init PROVE IInv
  OBVIOUS
<1> USE DEF Init, LinesInit, ProtoInit, AmigaInit
<1>1. LinesTypeOK
  <2>1. 0 \in Byte
    BY DEF Byte
  <2>2. QED BY Zenon, <2>1 DEF LinesTypeOK
<1>2. ProtoTypeOK
  BY DEF ProtoTypeOK, Stages, Statuses, Byte, Word
<1>3. AmigaTypeOK
  <2>1. op \in AllOps /\ mpc \in Pcs /\ rsize \in Word
    BY AmigaAssumption DEF Pcs, Word
  <2>2. frame \in Seq(Byte) /\ pos \in Nat /\ rdata \in Seq(Byte)
    OBVIOUS
  <2>3. QED BY Zenon, <2>1, <2>2 DEF AmigaTypeOK
<1>4. StageOfCmd /\ SizeChecked
  BY DEF StageOfCmd, SizeChecked, AvrRunning, WaitStages, SizeStages, DataStages, ExitStages
<1>5. WithinFrame
  BY BufNat DEF WithinFrame, SizeStages, DataStages
<1>6. ReadWithinFrame
  <2>1. 0 <= Padded(MaxFrame)
    BY PaddedMonotone, AmigaAssumption
  <2>2. QED BY <2>1 DEF ReadWithinFrame, AmigaReading, Word
<1> QED
  BY <1>1, <1>2, <1>3, <1>4, <1>5, <1>6 DEF IInv, TypeOK

\* A step of the AVR leaves the Amiga's part of the invariant alone.
LEMMA AvrStepInv == IInv /\ AvrStep => IInv'
<1> SUFFICES ASSUME IInv, AvrStep PROVE IInv'
  OBVIOUS
<1> USE DEF AvrStep
<1>1. LinesTypeOK'
  BY AvrLinesTyped DEF IInv, TypeOK, LinesTypeOK, amLines
<1>2. (ProtoTypeOK /\ StageOfCmd /\ SizeChecked /\ WithinFrame)'
  BY ProtoTyped, StageOfCmdStep, SizeCheckedStep, WithinFrameStep DEF IInv, TypeOK
<1>3. (AmigaTypeOK /\ ReadWithinFrame)'
  BY DEF IInv, TypeOK, AmigaTypeOK, ReadWithinFrame, AmigaReading, amigaState
<1> QED
  BY <1>1, <1>2, <1>3 DEF IInv, TypeOK

\* A step of the Amiga leaves the AVR's part of the invariant alone.
LEMMA AmigaStepInv == IInv /\ (AmigaStart \/ AmigaRun) => IInv'
<1> SUFFICES ASSUME IInv, AmigaStart \/ AmigaRun PROVE IInv'
  OBVIOUS
<1>1. AmigaStep /\ UNCHANGED <<avrLines, stage, seen, cmd, size, buf, got, status>>
  BY DEF AmigaStart, AmigaRun, AmigaTrigger, AmigaHandshake, AmigaBurst, AmigaStep, avrState
<1>2. delivered' = delivered \/ delivered' = <<>>
  BY DEF AmigaStart, AmigaRun, AmigaTrigger, AmigaHandshake, AmigaBurst, avrState
<1>3. LinesTypeOK'
  BY <1>1, AmLinesTyped DEF IInv, TypeOK, LinesTypeOK, avrLines
<1>4. ProtoTypeOK'
  <2>1. <<>> \in Seq(Seq(Byte))
    OBVIOUS
  <2>2. delivered' \in Seq(Seq(Byte))
    BY <1>2, <2>1 DEF IInv, TypeOK, ProtoTypeOK
  <2>3. QED BY <1>1, <2>2 DEF IInv, TypeOK, ProtoTypeOK
<1>5. (StageOfCmd /\ SizeChecked /\ WithinFrame)'
  BY <1>1 DEF IInv, StageOfCmd, SizeChecked, WithinFrame, AvrRunning
<1>6. (AmigaTypeOK /\ ReadWithinFrame)'
  BY <1>1, AmigaTyped, ReadWithinFrameStep DEF IInv, TypeOK
<1> QED
  BY <1>3, <1>4, <1>5, <1>6 DEF IInv, TypeOK

\* Every step of the composed system keeps the invariant.
LEMMA InvNext == IInv /\ [Next]_vars => IInv'
<1> SUFFICES ASSUME IInv, [Next]_vars PROVE IInv'
  OBVIOUS
<1>1. CASE Next
  BY <1>1, AvrStepInv, AmigaStepInv DEF Next
<1>2. CASE UNCHANGED vars
  BY <1>2 DEF vars, amLines, avrLines, avrState, amigaState, IInv, TypeOK, LinesTypeOK,
     ProtoTypeOK, AmigaTypeOK, StageOfCmd, SizeChecked, WithinFrame, ReadWithinFrame,
     AvrRunning, AmigaReading, Burst
<1> QED
  BY <1>1, <1>2

\* The inductive invariant of pb_proto.c against hwpar.asm: a size word is checked before
\* a data loop runs and the loops stop at it, whatever bytes the two ends read.
THEOREM Invariance == Spec => []IInv
  BY InvInit, InvNext, PTL DEF Spec

\* The state of both ends stays well typed: in particular the size words put together
\* from two bytes of the lines are 16 bit values and only bytes go out.
THEOREM TypeCorrect == Spec => []TypeOK
<1>1. IInv => TypeOK
  BY DEF IInv
<1> QED
  BY <1>1, Invariance, PTL

\* cmd_send, cmd_recv, hwrecv and their burst forms never leave pb_buf or the Amiga's frame,
\* with any frames, any noise on the lines, any time-outs and in any order of the steps.
THEOREM Safety == Spec => []NoOverrun
<1>1. IInv => NoOverrun
  BY DEF IInv, WithinFrame, ReadWithinFrame, NoOverrun
<1> QED
  BY <1>1, Invariance, PTL
=============================================================================
