------------------------------ MODULE XferPort -----------------------------
(***************************************************************************)
(* The parallel port as the bridge and the driver use it: one transfer at a *)
(* time, asked for by the Amiga and served by pb_proto_handle, and the ACK  *)
(* pulse that asks the Amiga for a receive.  PBLink is about what happens   *)
(* within a transfer; here it is called, taken, and moved as a whole.       *)
(***************************************************************************)
EXTENDS Naturals, Sequences

VARIABLES phase,  \* of the transfer, see Phases
          xop,    \* "send" or "recv", as the Amiga sees it
          frame,  \* the frame in transfer; pb_Frame of the driver
          flg     \* the FLG bit of CIA A: an ACK pulse the Amiga has not taken

port == <<phase, xop, frame, flg>>

\* "free"    SELECT is low and the AVR is not in a command
\* "called"  SELECT is high
\* "taken"   the AVR is in the command
\* "moved"   both ends have all of the frame, SELECT is still high
\* "left"    SELECT fell before the frame was moved, the AVR has not noticed
\* "over"    SELECT fell after it, the AVR has not noticed
Phases == {"free", "called", "taken", "moved", "left", "over"}

FrameTypes == {"data", "loopback", "online", "offline", "junk"}

\* A frame by its Ethernet type and what tells it from others: a number, for data, or
\* the MAC address of the driver, in the magic packets.
Frame(t, v) == [type |-> t, val |-> v]

Junk == Frame("junk", 0)

AllFrames == [type : FrameTypes, val : Nat]

PortTypeOK ==
  /\ phase \in Phases
  /\ xop \in {"send", "recv"}
  /\ frame \in AllFrames
  /\ flg \in BOOLEAN

PortInit ==
  /\ phase = "free"
  /\ xop = "send"
  /\ frame = Junk
  /\ flg = FALSE

\* The phase once the Amiga has dropped SELECT.
Released ==
  CASE phase = "called" -> "free"
    [] phase = "taken"  -> "left"
    [] phase = "moved"  -> "over"
    [] OTHER            -> phase
=============================================================================
