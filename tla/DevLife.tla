------------------------------- MODULE DevLife ------------------------------
(***************************************************************************)
(* The life of the device: DevInit, DevOpen, DevClose and DevExpunge          *)
(* (device.c), the start and the end of the server task (server.c, hw.c),     *)
(* and the packet types the openers track (track.c).                        *)
(*                                                                         *)
(* Exec calls the entries of a device with task switching forbidden; a wait    *)
(* lifts that.  So a step here lasts until the code waits: for pb_Lock, for    *)
(* the answer to the startup message, for the end of the server.  The server   *)
(* is a task of its own and may be preempted anywhere.                      *)
(***************************************************************************)
EXTENDS Naturals, FiniteSets

CONSTANTS Openers, \* tasks that open the device, again and again
          Types,   \* packet types they track
          Faults,  \* \subseteq {"memory", "process", "init", "signal", "attach"}
          Breaks   \* whether a user may send the server CTRL_C

VARIABLES dev,        \* "absent", "loaded", "removed" (from the list of devices), "freed"
          openCnt,    \* lib_OpenCnt
          delexp,     \* LIBF_DELEXP
          exclusive,  \* PLIPF_EXCLUSIVE
          lock,       \* the opener that owns pb_Lock, as a set
          server,     \* pb_Server # NULL
          at,         \* per opener: "out", "lock" (asked for it), "launch", "open"
          mine,       \* per opener: it asked for SANA2OPF_MINE
          bms,        \* openers whose buffer management is in the list
          srv,        \* the server task: "none", "launched", "started", "failed", "running",
                      \* "freed" (its resources), "dead", "crashed"
          startup,    \* the startup message: "none", "sent", "ok", "failed"
          res,        \* what the server has allocated
          offline,    \* PLIPF_OFFLINE
          vector,     \* the FLG interrupt's vector is installed
          ctrlC,      \* SIGBREAKF_CTRL_C of the server
          expunge,    \* "none", "wait" (for a signal), "poll" (for the flag), "done"
          woken,      \* the signal DevExpunge waits for
          stopped,    \* PLIPF_SERVERSTOPPED
          track,      \* tr_Count per type, 0 if there is no record
          holds,      \* history: types each opener tracks
          mishaps     \* history: \subseteq {"start", "break", "attach"}

base == <<dev, openCnt, delexp, exclusive, lock, server>>
openers == <<at, mine, bms>>
task == <<srv, res, offline, vector, ctrlC>>
ending == <<expunge, woken, stopped>>
tracking == <<track, holds>>
vars == <<base, openers, task, startup, ending, tracking, mishaps>>

ASSUME LifeAssumption ==
  /\ IsFiniteSet(Openers)
  /\ Faults \subseteq {"memory", "process", "init", "signal", "attach"}
  /\ Breaks \in BOOLEAN

\* In the order of their allocation: the server's port, HWBase, the interrupt's signal,
\* the port and the request of the timer, the frame buffer.
Stages == <<"port", "hwb", "sig", "tport", "timer", "frame">>
FirstStages(n) == {Stages[i] : i \in 1..n}

TypeOK ==
  /\ dev \in {"absent", "loaded", "removed", "freed"}
  /\ openCnt \in Nat
  /\ delexp \in BOOLEAN /\ exclusive \in BOOLEAN /\ server \in BOOLEAN
  /\ lock \subseteq Openers /\ Cardinality(lock) <= 1
  /\ at \in [Openers -> {"out", "lock", "launch", "open"}]
  /\ mine \in [Openers -> BOOLEAN]
  /\ bms \subseteq Openers
  /\ srv \in {"none", "launched", "started", "failed", "running", "freed", "dead", "crashed"}
  /\ startup \in {"none", "sent", "ok", "failed"}
  /\ res \subseteq FirstStages(6)
  /\ offline \in BOOLEAN /\ vector \in BOOLEAN /\ ctrlC \in BOOLEAN
  /\ expunge \in {"none", "wait", "poll", "done"}
  /\ woken \in BOOLEAN /\ stopped \in BOOLEAN
  /\ track \in [Types -> Nat]
  /\ holds \in [Openers -> SUBSET Types]
  /\ mishaps \subseteq {"start", "break", "attach"}

Init ==
  /\ dev = "absent"
  /\ openCnt = 0
  /\ delexp = FALSE /\ exclusive = FALSE /\ server = FALSE
  /\ lock = {}
  /\ at = [o \in Openers |-> "out"]
  /\ mine = [o \in Openers |-> FALSE]
  /\ bms = {}
  /\ srv = "none" /\ startup = "none" /\ res = {}
  /\ offline = TRUE /\ vector = FALSE /\ ctrlC = FALSE
  /\ expunge = "none" /\ woken = FALSE /\ stopped = FALSE
  /\ track = [t \in Types |-> 0]
  /\ holds = [o \in Openers |-> {}]
  /\ mishaps = {}

\* The device is loaded; DevInit clears the base and opens its libraries.
DevInit ==
  /\ dev = "absent"
  /\ dev' = "loaded"
  /\ UNCHANGED <<openCnt, delexp, exclusive, lock, server, openers, task, startup, ending,
                 tracking, mishaps>>

----------------------------------------------------------------------------
(* DevOpen *)

\* Somebody has pb_Lock: the opener waits, and is not counted yet.
OpenWaits(o) ==
  /\ dev = "loaded"
  /\ at[o] = "out"
  /\ lock # {}
  /\ at' = [at EXCEPT ![o] = "lock"]
  /\ \E m \in BOOLEAN : mine' = [mine EXCEPT ![o] = m]
  /\ UNCHANGED <<base, bms, task, startup, ending, tracking, mishaps>>

\* An opener, asking for exclusive access or not, has the lock: it is free, or it was
\* handed on to the opener that waited.
Enters(o, m) ==
  /\ \/ dev = "loaded" /\ at[o] = "out" /\ lock = {}
     \/ dev # "freed" /\ at[o] = "lock" /\ lock = {o} /\ mine[o] = m
  /\ mine' = [mine EXCEPT ![o] = m]

\* ReleaseSemaphore: the next who waits owns the lock before it runs.
Release(o) ==
  LET waiting == {p \in Openers \ {o} : at[p] = "lock"} IN
    IF waiting = {} THEN lock' = {} ELSE \E p \in waiting : lock' = {p}

\* Somebody has it open, and this open or that one is exclusive; openCnt is the count
\* without this open.  The mutant forgets the flag of the first opener.
DeniedMineOnly(m) == openCnt > 0 /\ m
Denied(m) == openCnt > 0 /\ (m \/ exclusive)

\* As above, or another unit or promiscuous mode is asked for.
OpenDenied(o) ==
  /\ \E m \in BOOLEAN : Enters(o, m)
  /\ Release(o)
  /\ at' = [at EXCEPT ![o] = "out"]
  /\ UNCHANGED <<dev, openCnt, delexp, exclusive, server, bms, task, startup, ending,
                 tracking, mishaps>>

\* No memory for the buffer management, or with no server yet no port or process.
OpenFails(o) ==
  /\ \E m \in BOOLEAN : Enters(o, m) /\ ~Denied(m) /\ exclusive' = m
  /\ "memory" \in Faults \/ ("process" \in Faults /\ ~server)
  /\ Release(o)
  /\ at' = [at EXCEPT ![o] = "out"]
  /\ UNCHANGED <<dev, openCnt, delexp, server, bms, task, startup, ending, tracking, mishaps>>

\* There is a server, or there was.  The buffer management joins the list; a pending
\* expunge is forgotten.
OpenSecond(o) ==
  /\ \E m \in BOOLEAN : Enters(o, m) /\ ~Denied(m) /\ exclusive' = m
  /\ server
  /\ Release(o)
  /\ at' = [at EXCEPT ![o] = "open"]
  /\ bms' = bms \cup {o}
  /\ delexp' = FALSE
  /\ openCnt' = openCnt + 1
  /\ UNCHANGED <<dev, server, task, startup, ending, tracking, mishaps>>

\* The first open makes the server's process, sends it the startup message and waits
\* with the lock.  It counts itself first, which keeps the device from being expunged.
\* In the mutant it does not.
LaunchUncounted(o) ==
  /\ \E m \in BOOLEAN : Enters(o, m) /\ ~Denied(m) /\ exclusive' = m
  /\ ~server
  /\ lock' = {o}
  /\ server' = TRUE
  /\ srv' = "launched"
  /\ startup' = "sent"
  /\ at' = [at EXCEPT ![o] = "launch"]
  /\ UNCHANGED <<dev, openCnt, delexp, bms, res, offline, vector, ctrlC, ending, tracking,
                 mishaps>>
OpenLaunches(o) ==
  /\ \E m \in BOOLEAN : Enters(o, m) /\ ~Denied(m) /\ exclusive' = m
  /\ ~server
  /\ lock' = {o}
  /\ openCnt' = openCnt + 1
  /\ server' = TRUE
  /\ srv' = "launched"
  /\ startup' = "sent"
  /\ at' = [at EXCEPT ![o] = "launch"]
  /\ UNCHANGED <<dev, delexp, bms, res, offline, vector, ctrlC, ending, tracking, mishaps>>

\* The answer decides.  pb_Server stays set, whatever it says.
OpenReturns(o) ==
  /\ at[o] = "launch"
  /\ Release(o)
  /\ startup' = "none"
  /\ \/ /\ startup = "ok"
        /\ at' = [at EXCEPT ![o] = "open"]
        /\ bms' = bms \cup {o}
        /\ delexp' = FALSE
        /\ UNCHANGED openCnt
     \/ /\ startup = "failed"
        /\ at' = [at EXCEPT ![o] = "out"]
        /\ openCnt' = openCnt - 1
        /\ UNCHANGED <<bms, delexp>>
  /\ UNCHANGED <<dev, exclusive, server, mine, task, ending, tracking, mishaps>>

----------------------------------------------------------------------------
(* DevClose, DevExpunge *)

\* DevExpunge with nobody left: the device leaves the list, the server is told to stop,
\* if there is one.  AllocSignal may fail; then the flag is polled, and is there already
\* if the server ended before.
FreeBase ==
  /\ dev' = "freed"
  /\ expunge' = "done"
  /\ track' = [t \in Types |-> 0]

StopServer ==
  /\ ctrlC' = server
  /\ \/ dev' = "removed" /\ expunge' = "wait" /\ UNCHANGED track
     \/ /\ "signal" \in Faults
        /\ IF stopped THEN FreeBase
                      ELSE dev' = "removed" /\ expunge' = "poll" /\ UNCHANGED track

DevClose(o) ==
  /\ dev # "freed"
  /\ at[o] = "open"
  /\ lock = {}
  /\ at' = [at EXCEPT ![o] = "out"]
  /\ bms' = bms \ {o}
  /\ openCnt' = openCnt - 1
  /\ IF delexp /\ openCnt = 1 /\ dev = "loaded" THEN StopServer ELSE UNCHANGED <<dev, ctrlC, expunge, track>>
  /\ UNCHANGED <<delexp, exclusive, lock, server, mine, srv, res, offline, vector, startup,
                 woken, stopped, holds, mishaps>>

\* Exec is short of memory and asks the devices to go.  The mutant does not count.
ExpungeUncounted ==
  /\ dev = "loaded"
  /\ StopServer
  /\ UNCHANGED <<openCnt, delexp, exclusive, lock, server, openers, srv, res, offline, vector,
                 startup, woken, stopped, holds, mishaps>>
DevExpunge ==
  /\ dev = "loaded"
  /\ IF openCnt > 0 THEN delexp' = TRUE /\ UNCHANGED <<dev, ctrlC, expunge, track>>
                    ELSE StopServer /\ UNCHANGED delexp
  /\ UNCHANGED <<openCnt, exclusive, lock, server, openers, srv, res, offline, vector,
                 startup, woken, stopped, holds, mishaps>>

\* The server is gone: the records of the tracker are freed, then the base itself.
Expunged ==
  /\ \/ expunge = "wait" /\ woken
     \/ expunge = "poll" /\ stopped
  /\ FreeBase
  /\ UNCHANGED <<openCnt, delexp, exclusive, lock, server, openers, task, startup, woken,
                 stopped, holds, mishaps>>

----------------------------------------------------------------------------
(* The server task *)

\* startup(): the message arrives; until it is answered PLIPF_REPLYSS is set.
ServerStarts ==
  /\ srv = "launched"
  /\ srv' = "started"
  /\ UNCHANGED <<base, openers, res, offline, vector, ctrlC, startup, ending, tracking, mishaps>>

\* init() and hw_init(): each allocation may be the one that fails.
ServerInit ==
  /\ srv = "started"
  /\ \/ /\ res' = FirstStages(6)
        /\ srv' = "running"
        /\ startup' = "ok"
        /\ UNCHANGED mishaps
     \/ /\ "init" \in Faults
        /\ \E n \in 0..5 : res' = FirstStages(n)
        /\ srv' = "failed"
        /\ mishaps' = mishaps \cup {"start"}
        /\ UNCHANGED startup
  /\ UNCHANGED <<base, openers, offline, vector, ctrlC, ending, tracking>>

\* S2_ONLINE.  An attach that fails at the magic packet leaves the vector (hw_attach).
GoOnline ==
  /\ srv = "running" /\ offline /\ ~vector
  /\ vector' = TRUE
  /\ \/ offline' = FALSE /\ UNCHANGED mishaps
     \/ "attach" \in Faults /\ mishaps' = mishaps \cup {"attach"} /\ UNCHANGED offline
  /\ UNCHANGED <<base, openers, srv, res, ctrlC, startup, ending, tracking>>

GoOffline ==
  /\ srv = "running" /\ ~offline
  /\ vector' = FALSE
  /\ offline' = TRUE
  /\ UNCHANGED <<base, openers, srv, res, ctrlC, startup, ending, tracking, mishaps>>

\* A user breaks the server.
Break ==
  /\ Breaks
  /\ srv = "running"
  /\ ctrlC' = TRUE
  /\ mishaps' = mishaps \cup {"break"}
  /\ UNCHANGED <<base, openers, srv, res, offline, vector, startup, ending, tracking>>

\* What hw_cleanup frees.  It closes the request that was never opened, so that the
\* timer stays open.
Freed == {"port", "hwb", "sig", "tport", "frame"}

\* cleanup(): offline first, then what was allocated, the openers' buffer management
\* included.  hw_cleanup does not ask whether there is a HWBase: without one it works on
\* what it finds at the address 0.  The mutant does not go offline.
CleanupOnline ==
  /\ srv = "failed" \/ (srv = "running" /\ ctrlC)
  /\ srv' = "freed"
  /\ bms' = {}
  /\ res' = res \ Freed
  /\ UNCHANGED <<base, at, mine, offline, vector, ctrlC, startup, ending, tracking, mishaps>>
Cleanup ==
  /\ srv = "failed" \/ (srv = "running" /\ ctrlC)
  /\ \/ srv' = "freed"
     \/ "hwb" \notin res /\ srv' = "crashed"
  /\ offline' = TRUE
  /\ vector' = (vector /\ offline)
  /\ bms' = {}
  /\ res' = res \ Freed
  /\ UNCHANGED <<base, at, mine, ctrlC, startup, ending, tracking, mishaps>>

\* With task switching forbidden until the task is gone: the startup message is answered
\* if it was not, DevExpunge is signalled if it waits, the flag is set.  One mutant
\* answers no message, the other signals nobody.
EndsSilent ==
  /\ srv = "freed"
  /\ srv' = "dead"
  /\ woken' = (expunge = "wait")
  /\ stopped' = TRUE
  /\ UNCHANGED <<base, openers, res, offline, vector, ctrlC, startup, expunge, tracking, mishaps>>
EndsUnsignalled ==
  /\ srv = "freed"
  /\ srv' = "dead"
  /\ startup' = IF startup = "sent" THEN "failed" ELSE startup
  /\ stopped' = TRUE
  /\ UNCHANGED <<base, openers, res, offline, vector, ctrlC, expunge, woken, tracking, mishaps>>
ServerEnds ==
  /\ srv = "freed"
  /\ srv' = "dead"
  /\ startup' = IF startup = "sent" THEN "failed" ELSE startup
  /\ woken' = (expunge = "wait")
  /\ stopped' = TRUE
  /\ UNCHANGED <<base, openers, res, offline, vector, ctrlC, expunge, tracking, mishaps>>

----------------------------------------------------------------------------
(* S2_TRACKTYPE, S2_UNTRACKTYPE of an opener that keeps to the protocol: it untracks *)
(* what it tracked, once.                                                          *)

TrackType(o, t) ==
  /\ dev # "freed" /\ at[o] = "open"
  /\ t \notin holds[o]
  /\ track' = [track EXCEPT ![t] = @ + 1]
  /\ holds' = [holds EXCEPT ![o] = @ \cup {t}]
  /\ UNCHANGED <<base, openers, task, startup, ending, mishaps>>

\* The record goes with the last who tracks.
UntrackType(o, t) ==
  /\ dev # "freed" /\ at[o] = "open"
  /\ t \in holds[o] /\ track[t] > 0
  /\ track' = [track EXCEPT ![t] = @ - 1]
  /\ holds' = [holds EXCEPT ![o] = @ \ {t}]
  /\ UNCHANGED <<base, openers, task, startup, ending, mishaps>>

----------------------------------------------------------------------------
ServerStep == ServerStarts \/ ServerInit \/ Cleanup \/ ServerEnds

Next ==
  \/ DevInit \/ DevExpunge \/ Expunged
  \/ ServerStep \/ GoOnline \/ GoOffline \/ Break
  \/ \E o \in Openers : \/ OpenWaits(o) \/ OpenDenied(o) \/ OpenFails(o) \/ OpenSecond(o)
                        \/ OpenLaunches(o) \/ OpenReturns(o) \/ DevClose(o)
                        \/ \E t \in Types : TrackType(o, t) \/ UntrackType(o, t)

Spec == Init /\ [][Next]_vars

\* The server's process runs, and tasks that waited go on.
FairSpec ==
  /\ Spec
  /\ WF_vars(ServerStep)
  /\ WF_vars(\E o \in Openers : OpenReturns(o))
  /\ WF_vars(Expunged)
----------------------------------------------------------------------------
(* Properties *)

\* The base is freed when the server is gone and nobody uses the device.  Only an opener
\* that still waits for pb_Lock is not counted yet and comes too late.
FreedUnused ==
  dev = "freed" => srv = "dead" /\ \A o \in Openers : at[o] \in {"out", "lock"}

LifeInv == TypeOK /\ FreedUnused

\* An opener with exclusive access is alone, from its open to its close.
ExclusiveAlone ==
  \A o, p \in Openers : at[o] = "open" /\ mine[o] /\ at[p] = "open" => p = o

\* Who has the device open has a server behind it and its buffer management in the list,
\* unless an earlier start of the server failed or a user broke it; and the types it tracks
\* have their record, whatever the others untrack.
OpenServed ==
  \A o \in Openers : at[o] = "open" =>
    /\ (srv = "running" /\ o \in bms) \/ mishaps \cap {"start", "break"} # {}
    /\ \A t \in holds[o] : track[t] > 0

\* The server without exception: the startup message tells the opener whether it "really
\* could come up" (startup, server.c).  Fails after a start that failed (README).
OpenMeansServer == \A o \in Openers : at[o] = "open" => srv = "running"

\* A server that ended keeps nothing but the timer, and leaves no interrupt behind that
\* works on the memory it freed, unless an attach failed.
NothingLeft ==
  srv = "dead" => res \subseteq {"timer"} /\ (vector => "attach" \in mishaps)

\* DevOpen returns, started server or not.
OpenAnswered ==
  \A o \in Openers : at[o] = "launch" ~> at[o] # "launch" \/ srv = "crashed"

\* DevExpunge returns if a server was started, came up and was left to run.
ExpungeReturns ==
  expunge # "none" /\ server /\ mishaps \cap {"start", "break"} = {} ~> expunge = "done"
=============================================================================
