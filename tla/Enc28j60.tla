------------------------------ MODULE Enc28j60 -----------------------------
(***************************************************************************)
(* The driver of the controller as the firmware calls it: one call at a time, *)
(* a receive, a send or an initialisation, while the controller receives and  *)
(* transmits.                                                              *)
(***************************************************************************)
EXTENDS EncRing, EncSend

vars == <<ringVars, sendVars>>

TypeOK == RingTypeOK /\ SendTypeOK

Init == RingInit /\ SendInit

\* enc28j60_init resets the transmit side as well.
InitAll ==
  /\ spc = "idle"
  /\ EncInit
  /\ txrts' = FALSE /\ stuck' = FALSE /\ txerif' = FALSE /\ onwire' = <<>>
  /\ UNCHANGED <<txbuf, wire, spc, sends>>

Driver ==
  \/ spc = "idle" /\ RecvStep /\ UNCHANGED sendVars
  \/ rpc = "idle" /\ SendStep /\ UNCHANGED ringVars
  \/ InitAll

Controller ==
  \/ FrameArrives /\ UNCHANGED sendVars
  \/ TxChip /\ UNCHANGED ringVars

Next == Driver \/ Controller

Spec == Init /\ [][Next]_vars

\* A call goes on once begun, and the controller ends a transmission or reports an error.
FairSpec ==
  /\ Spec
  /\ WF_vars(Driver /\ (spc # "idle" \/ rpc # "idle"))
  /\ WF_vars(TxChip /\ UNCHANGED ringVars)
----------------------------------------------------------------------------
(* Properties: those of EncRing and EncSend hold with both sides at work. *)

\* No frame is overwritten before it was read, with sends and initialisations in between.
EncInv == TypeOK /\ UnreadIntact
=============================================================================
