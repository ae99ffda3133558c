-------------------------------- MODULE Sana -------------------------------
(***************************************************************************)
(* Clients of the SANA-II device and its server task together: the requests   *)
(* from DevBeginIO to their answer, while the line goes up and down.         *)
(***************************************************************************)
EXTENDS SanaServer

vars == <<deviceVars, serverVars>>

TypeOK == DeviceTypeOK /\ ServerTypeOK

Init == DeviceInit /\ ServerInit

\* The semaphores: nobody but the server gets at the write list while it sends.
Queue(r) == QueueRead(r) \/ QueueOrphan(r) \/ (~WriteListHeld /\ QueueWrite(r))

ClientStep ==
  /\ \E r \in Reqs : \/ Refuse(r) \/ Pass(r) \/ Queue(r) \/ OnEvent(r) \/ Forward(r)
                     \/ ~WriteListHeld /\ Abort(r)
  /\ UNCHANGED serverVars

Next == ClientStep \/ Interrupt \/ ServerStep

Spec == Init /\ [][Next]_vars

\* The server is a task and runs when no task of a higher priority does.  Clients need
\* not go on.
FairSpec == Spec /\ WF_vars(ServerStep)
----------------------------------------------------------------------------
(* Properties *)

\* The line as a client may know it.  An attach that failed at its magic packet leaves the
\* port in the driver's hands (hw.c): frames may still come in and late writes go out.
Line == IF ~offline THEN "online" ELSE IF owned = "all" THEN "failed" ELSE "offline"

\* The device keeps what it promises: every request is answered at most once, with a
\* result that fits its command and the line, and the line only changes on request.
Promise == INSTANCE SanaService WITH line <- Line
Service == Promise!Spec

Holders(r) ==
  {p \in {"begun", "read", "write", "orphan", "event", "port", "current", "dropped"} :
     CASE p = "begun" -> r \in begun             [] p = "read" -> r \in ToSet(readList)
       [] p = "write" -> r \in ToSet(writeList)  [] p = "orphan" -> r \in ToSet(orphanList)
       [] p = "event" -> r \in eventList         [] p = "port" -> r \in ToSet(serverPort)
       [] p = "current" -> r \in current         [] p = "dropped" -> r \in dropped}

\* A request the client waits for is in exactly one place of the driver, and one that was
\* answered in none: its memory is the client's again, and a list that still links it
\* would be corrupted with it.  Only those of "dropped" wait in no list.
NoneLost ==
  /\ \A r \in Reqs : Cardinality(Holders(r)) = IF io[r] = "pending" THEN 1 ELSE 0
  /\ \A l \in {readList, writeList, orphanList, serverPort} : IsInjective(l)

SanaInv == TypeOK /\ NoneLost

\* When S2_OFFLINE is answered no packet request is left in a list ("reject all pending
\* requests", dos2reqs), except those a client was just about to queue.
RejectsAll ==
  [][\A r \in Reqs : Cmd[r] = "offline" /\ io[r] = "pending" /\ io'[r] = "ok" =>
       (Listed' \ eventList') \subseteq late']_vars

\* A frame in the write list is sent, or its request answered with an error, whatever the
\* signals and the receives in between.
WritesServed ==
  \A r \in {x \in Reqs : Cmd[x] = "write"} : r \in ToSet(writeList) ~> io[r] # "pending"

\* Every request of a client to go online or offline or to be configured is answered
\* (dos2reqs: every pending message is processed and goes back to the sender).  Fails (README).
RequestsAnswered ==
  \A r \in {x \in Reqs : Cmd[x] \in Control} : io[r] = "pending" ~> io[r] # "pending"

\* S2_ONEVENT for a state that is there already returns at once (comment in DevBeginIO).
\* Fails: nothing is left of the mask (README).
EventAtOnce ==
  [][\A r \in Reqs : Cmd[r] = "event" /\ io[r] = "unused" /\ io'[r] = "pending" =>
       ~EventHolds(r, Mask[r])]_vars
=============================================================================
