----------------------------- MODULE PacketQueue ---------------------------
(***************************************************************************)
(* What the receive side of the Ethernet controller is to the firmware: a     *)
(* queue of frames.  The network appends, a receive takes the oldest (or       *)
(* throws it away when it arrived damaged), an initialisation empties it.     *)
(***************************************************************************)
EXTENDS Sequences

CONSTANT Frame

VARIABLES queue, got

Init == queue = <<>> /\ got = <<>>

Arrive == \E f \in Frame : queue' = Append(queue, f) /\ UNCHANGED got

Take == /\ queue # <<>>
        /\ queue' = Tail(queue)
        /\ got' \in {got, Append(got, Head(queue))}

Empty == queue' = <<>> /\ UNCHANGED got

Next == Arrive \/ Take \/ Empty

Spec == Init /\ [][Next]_<<queue, got>>
=============================================================================
