------------------------------- MODULE MCSana ------------------------------
(***************************************************************************)
(* Requests for model checking Sana: one of each command, all packets of one  *)
(* type, and a frame type nobody reads.                                      *)
(***************************************************************************)
EXTENDS Sana, TLC

MCCmd == [r1 |-> "read", w1 |-> "write", o1 |-> "orphan", e1 |-> "event",
          on |-> "online", off |-> "offline", cfg |-> "config"]
MCReqs == DOMAIN MCCmd
MCTypes == {"ip", "arp"}
MCType == [r \in MCReqs |-> "ip"]
MCMask == [r \in MCReqs |-> IF MCCmd[r] = "event" THEN {"online"} ELSE {}]
MCHasty == {"w1"}
MCBad == {"w1"}
=============================================================================
