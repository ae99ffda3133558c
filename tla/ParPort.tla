------------------------------ MODULE ParPort ------------------------------
(***************************************************************************)
(* The wires of the parallel port as both ends see them.                   *)
(*                                                                         *)
(*   sel  SELECT   driven by the Amiga   (HS_SEL, PRTRSEL)                  *)
(*   req  POUT     driven by the Amiga   (REQ)                              *)
(*   rak  BUSY     driven by the AVR     (RAK)                              *)
(*                                                                         *)
(* The eight data lines have a direction register at each end: amOut/avrOut *)
(* say that an end drives the lines, amByte/avrByte hold the value latched  *)
(* in its output register.                                                 *)
(***************************************************************************)
EXTENDS Naturals

CONSTANT Noise   \* what may be read from lines nobody, or both ends, drive

VARIABLES sel, req, rak, amOut, amByte, avrOut, avrByte

amLines  == <<sel, req, amOut, amByte>>
avrLines == <<rak, avrOut, avrByte>>

Byte == 0..255
Word == {n \in Nat : n < 65536}

ASSUME NoiseAssumption == Noise # {} /\ Noise \subseteq Byte

LinesTypeOK ==
  /\ sel \in BOOLEAN
  /\ req \in BOOLEAN
  /\ rak \in BOOLEAN
  /\ amOut \in BOOLEAN
  /\ avrOut \in BOOLEAN
  /\ amByte \in Byte
  /\ avrByte \in Byte

\* Both ends initialised: handshake lines low (PARINIT/CLEARREQUEST on the Amiga,
\* par_low_init and pb_proto_init on the AVR), nobody drives the data lines.
LinesInit ==
  /\ sel = FALSE
  /\ req = FALSE
  /\ rak = FALSE
  /\ amOut = FALSE
  /\ avrOut = FALSE
  /\ amByte = 0
  /\ avrByte = 0

\* The byte an end can read from the data lines: the sole driver's, or noise.
BusValues ==
  IF amOut /\ ~avrOut THEN {amByte}
  ELSE IF avrOut /\ ~amOut THEN {avrByte}
  ELSE Noise
=============================================================================
