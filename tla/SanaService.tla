---------------------------- MODULE SanaService ----------------------------
(***************************************************************************)
(* What the SANA-II device promises the owners of its requests, whatever     *)
(* happens inside: a request is answered once, and with a result that fits    *)
(* its command and the state of the line.  Nothing is said about when.       *)
(***************************************************************************)
CONSTANTS Reqs,  \* the requests (struct IOSana2Req) of all clients
          Cmd    \* Reqs -> Packet \cup Control \cup {"event"}: what each asks for

Packet   == {"read", "write", "orphan"}
Control  == {"online", "offline", "config"}

\* io_Error of an answer; "error" stands for all that say that it could not be done.
Results == {"ok", "outofservice", "error", "aborted"}

VARIABLES io,    \* "unused", "pending", or the result a request was answered with
          line   \* "online"; "offline"; "failed": offline, but the port is still ours

Init ==
  /\ io = [r \in Reqs |-> "unused"]
  /\ line = "offline"

\* The results a request may be answered with in a step that leaves the line as m.
Allowed(cmd, m) ==
  CASE cmd \in Packet ->
         {"error", "aborted"} \cup (IF m = "online" THEN {} ELSE {"outofservice"})
                              \cup (IF m = "offline" THEN {} ELSE {"ok"})
    [] cmd \in {"online", "config"} -> IF m = "online" THEN {"ok"} ELSE {"error"}
    [] cmd = "offline" -> IF m = "online" THEN {} ELSE {"ok"}
    [] cmd = "event" -> {"ok", "aborted"}

\* Any number of requests is begun or answered.
Next ==
  /\ line' \in {"online", "offline", "failed"}
  /\ line' # line => \E r \in Reqs : Cmd[r] \in Control /\ io[r] = "pending"
  /\ io' \in [Reqs -> {"unused", "pending"} \cup Results]
  /\ \A r \in Reqs : io'[r] # io[r] =>
       \/ io[r] = "unused" /\ io'[r] = "pending"
       \/ io[r] \in {"unused", "pending"} /\ io'[r] \in Allowed(Cmd[r], line')

Spec == Init /\ [][Next]_<<io, line>>
=============================================================================
