------------------------------ MODULE EncSend ------------------------------
(***************************************************************************)
(* Sending with the ENC28J60 (enc28j60_send): the driver copies a frame into   *)
(* the controller's one transmit buffer, waits until the controller is done    *)
(* with the frame before, and starts it.  Frames are numbers; the buffer has   *)
(* a first and a second part, so that a mixture of two shows.                *)
(***************************************************************************)
EXTENDS Naturals, Sequences

CONSTANTS MaxSends,  \* bound: frames sent
          TxErrors   \* whether a transmission may fail

VARIABLES txbuf,   \* <<first, second>>: frames the parts of the buffer belong to
          txrts,   \* ECON1_TXRTS: a transmission is on
          stuck,   \* the transmit logic has stopped with TXRTS set
          txerif,  \* EIR_TXERIF, never cleared by the driver
          onwire,  \* what of the frame is on the wire already
          wire,    \* history: what was sent
          spc,     \* the driver: "idle", "first", "second", "wait", "check"
          sends    \* frames sent so far

sendVars == <<txbuf, txrts, stuck, txerif, onwire, wire, spc, sends>>

ASSUME SendAssumption == MaxSends \in Nat /\ TxErrors \in BOOLEAN

SendTypeOK ==
  /\ txbuf \in [1..2 -> 0..MaxSends]
  /\ txrts \in BOOLEAN /\ stuck \in BOOLEAN /\ txerif \in BOOLEAN
  /\ onwire \in Seq(0..MaxSends)
  /\ wire \in Seq(Seq(0..MaxSends))
  /\ spc \in {"idle", "first", "second", "wait", "check"}
  /\ sends \in 0..MaxSends

SendInit ==
  /\ txbuf = <<0, 0>>
  /\ txrts = FALSE /\ stuck = FALSE /\ txerif = FALSE
  /\ onwire = <<>> /\ wire = <<>>
  /\ spc = "idle"
  /\ sends = 0

----------------------------------------------------------------------------
(* The controller *)

\* The next part of the buffer goes out; it may have to wait for the line before.
Transmit ==
  /\ txrts /\ ~stuck
  /\ Len(onwire) < 2
  /\ onwire' = Append(onwire, txbuf[Len(onwire) + 1])
  /\ UNCHANGED <<txbuf, txrts, stuck, txerif, wire, spc, sends>>

Transmitted ==
  /\ txrts /\ ~stuck
  /\ Len(onwire) = 2
  /\ wire' = Append(wire, onwire)
  /\ onwire' = <<>>
  /\ txrts' = FALSE
  /\ UNCHANGED <<txbuf, stuck, txerif, spc, sends>>

\* The transmission ends with an error; TXRTS may stay set, with nothing going on.
TransmitFails ==
  /\ TxErrors
  /\ txrts /\ ~stuck
  /\ txerif' = TRUE
  /\ txrts' \in BOOLEAN
  /\ stuck' = txrts'
  /\ onwire' = <<>>
  /\ UNCHANGED <<txbuf, wire, spc, sends>>

----------------------------------------------------------------------------
(* enc28j60_send *)

SendBegins ==
  /\ spc = "idle"
  /\ sends < MaxSends
  /\ sends' = sends + 1
  /\ spc' = "first"
  /\ UNCHANGED <<txbuf, txrts, stuck, txerif, onwire, wire>>

FillFirst ==
  /\ spc = "first"
  /\ txbuf' = [txbuf EXCEPT ![1] = sends]
  /\ spc' = "second"
  /\ UNCHANGED <<txrts, stuck, txerif, onwire, wire, sends>>

FillSecond ==
  /\ spc = "second"
  /\ txbuf' = [txbuf EXCEPT ![2] = sends]
  /\ spc' = "wait"
  /\ UNCHANGED <<txrts, stuck, txerif, onwire, wire, sends>>

\* The loop reads ECON1, then EIR.  An error resets the transmit logic.  The mutant
\* only waits.
CheckIgnored ==
  /\ spc = "check"
  /\ spc' = "wait"
  /\ UNCHANGED <<txbuf, txrts, stuck, txerif, onwire, wire, sends>>
CheckError ==
  /\ spc = "check"
  /\ spc' = "wait"
  /\ IF txerif THEN txrts' = FALSE /\ stuck' = FALSE /\ onwire' = <<>>
               ELSE UNCHANGED <<txrts, stuck, onwire>>
  /\ UNCHANGED <<txbuf, txerif, wire, sends>>

\* TXRTS off: ETXND is set and the transmission started.
TxReady ==
  /\ spc = "wait"
  /\ IF txrts THEN spc' = "check" /\ UNCHANGED txrts
              ELSE spc' = "idle" /\ txrts' = TRUE
  /\ UNCHANGED <<txbuf, stuck, txerif, onwire, wire, sends>>

SendStep == SendBegins \/ FillFirst \/ FillSecond \/ TxReady \/ CheckError
TxChip == Transmit \/ Transmitted \/ TransmitFails
----------------------------------------------------------------------------
(* Properties *)

\* enc28j60_send returns, though it waits without a limit: the controller ends a
\* transmission or reports an error, and an error resets it.
SendReturns == spc # "idle" ~> spc = "idle"

\* A frame goes out as it was given: the buffer is filled when the controller is ready
\* for the next frame (enc28j60_send: "wait for tx ready", "initiate send").  Fails (README).
WireWhole == \A i \in DOMAIN wire : wire[i][1] = wire[i][2]
=============================================================================
