------------------------------ MODULE MCPBLink -----------------------------
(***************************************************************************)
(* Frames for model checking PBLink.  Their bytes differ from each other,   *)
(* and some are command bytes, so that data taken for a command shows.      *)
(***************************************************************************)
EXTENDS PBLink

\* An odd and an even frame, one word and more.
MCShort == {<<7>>, <<1, 2, 3, 4>>}

\* One whose size needs both bytes of the size word.
MCLong == {<<1, 2, 3>>, [i \in 1..258 |-> i % 251]}

\* Frames that look like commands: SEND with size 4, and RECV.
MCCommands == {<<5, 17, 0, 4, 9, 34, 1, 2>>, <<34, 17>>}

MCWord == {<<>>, <<8, 9>>}

\* A frame larger than the AVR's buffer of four bytes (the MTU option has no limit).
MCLarge == {<<7>>, <<1, 2, 3, 4, 5, 6>>}

MCNoise  == {0, 255}
=============================================================================
