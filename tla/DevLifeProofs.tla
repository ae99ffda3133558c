--------------------------- MODULE DevLifeProofs ---------------------------
(***************************************************************************)
(* Proofs about DevLife: for every number of openers and every choice of       *)
(* faults, the base of the device is freed when the server is dead and nobody  *)
(* uses it, exclusive access is exclusive, who has the device open is served,   *)
(* and a server that ended keeps nothing.                                    *)
(***************************************************************************)
EXTENDS DevLife, FiniteSetTheorems, TLAPS
----------------------------------------------------------------------------
(* The inductive invariant *)

\* Who is counted in openCnt, and who tracks a type.
Users == {o \in Openers : at[o] \in {"launch", "open"}}
Trackers(t) == {o \in Openers : t \in holds[o]}

\* The counters count, and a type that is tracked has its record until the base is freed.
Counted ==
  /\ openCnt = Cardinality(Users)
  /\ dev # "freed" => \A t \in Types : track[t] = Cardinality(Trackers(t))

\* pb_Lock is with the opener that launches the server or with one that waited; who waits,
\* waits for somebody.  It is only held while somebody has the device open or launches, or
\* when the server is dead: so an expunge that comes between meets no opener it can hurt.
Locked ==
  /\ lock = {} \/ \E o \in Openers : lock = {o} /\ at[o] \in {"lock", "launch"}
  /\ \A o \in Openers : at[o] = "launch" => lock = {o}
  /\ \A o \in Openers : at[o] = "lock" => lock # {}
  /\ lock # {} => Users # {} \/ srv = "dead"

\* The server starts once, and nobody has the device open before it answered.
Launched ==
  /\ server <=> srv # "none"
  /\ srv = "none" => Users = {}
  /\ srv \in {"launched", "started", "failed"} =>
       startup = "sent" /\ \A o \in Openers : at[o] # "open"
  /\ startup = "sent" => \E o \in Openers : at[o] = "launch"
  /\ startup = "failed" => srv = "dead"
  /\ stopped <=> srv = "dead"

\* The device is removed once; with the server still alive, or with DevExpunge about to
\* return, it has no opener left.
Leaving ==
  /\ dev = "removed" <=> expunge \in {"wait", "poll"}
  /\ dev = "freed" <=> expunge = "done"
  /\ woken => srv = "dead" /\ dev \in {"removed", "freed"}
  /\ dev = "removed" /\ (expunge = "poll" \/ woken \/ srv # "dead") =>
       \A o \in Openers : at[o] = "out"

\* The flag of the device knows of the one opener that has it exclusively.
Alone ==
  \A o \in Users : mine[o] => exclusive /\ Users = {o}

\* Without a failed start and a break, the server runs from its launch until the device
\* has left with its last opener.
Mishap == mishaps \cap {"start", "break"} # {}
Serving ==
  Mishap \/ /\ \A o \in Openers : at[o] = "open" => o \in bms
            /\ \/ /\ dev \in {"absent", "loaded"}
                  /\ srv \in {"none", "launched", "started", "running"}
                  /\ ~ctrlC
               \/ dev \in {"removed", "freed"} /\ \A o \in Openers : at[o] = "out"

\* The vector is there while the driver is online, and what the server's end frees is gone.
Owned ==
  /\ vector => ~offline \/ "attach" \in mishaps
  /\ srv \in {"freed", "dead"} => res \subseteq {"timer"} /\ offline

IInv ==
  /\ TypeOK /\ FreedUnused
  /\ Counted /\ Locked /\ Launched /\ Leaving /\ Alone /\ Serving /\ Owned
----------------------------------------------------------------------------
(* The sets that are counted *)

\* They are finite, so that they can be counted.
LEMMA SubsetsCounted ==
  \A S \in SUBSET Openers : /\ IsFiniteSet(S) /\ Cardinality(S) \in Nat
                            /\ Cardinality(S) = 0 <=> S = {}
<1>1. \A S \in SUBSET Openers : IsFiniteSet(S)
  BY LifeAssumption, FS_Subset DEF LifeAssumption
<1> QED
  BY <1>1, FS_EmptySet, FS_CardinalityType

\* One more, one less.
LEMMA OneCounted ==
  ASSUME NEW S \in SUBSET Openers, NEW o \in Openers
  PROVE  /\ o \notin S => Cardinality(S \cup {o}) = Cardinality(S) + 1
         /\ o \in S => Cardinality(S \ {o}) = Cardinality(S) - 1
  BY SubsetsCounted, FS_AddElement, FS_RemoveElement

\* An opener that comes to the users, or goes.
LEMMA UsersStep ==
  ASSUME TypeOK, NEW o \in Openers, NEW v \in {"out", "lock", "launch", "open"},
         at' = [at EXCEPT ![o] = v]
  PROVE  /\ at'[o] = v /\ \A p \in Openers \ {o} : at'[p] = at[p]
         /\ v \in {"launch", "open"} => Users' = Users \cup {o}
         /\ v \notin {"launch", "open"} => Users' = Users \ {o}
         /\ (o \in Users <=> v \in {"launch", "open"}) => Users' = Users
  BY DEF TypeOK, Users

\* ReleaseSemaphore hands the lock to one who waits, or frees it.
LEMMA Released ==
  ASSUME NEW o \in Openers, Release(o)
  PROVE  \/ lock' = {} /\ \A p \in Openers \ {o} : at[p] # "lock"
         \/ \E p \in Openers \ {o} : lock' = {p} /\ at[p] = "lock"
  BY DEF Release

\* Who enters DevOpen is not counted yet, and nobody else launches.
LEMMA Entered ==
  ASSUME TypeOK, Locked, NEW o \in Openers, NEW m \in BOOLEAN, Enters(o, m)
  PROVE  /\ at[o] \in {"out", "lock"} /\ o \notin Users /\ dev # "freed"
         /\ \A p \in Openers : at[p] # "launch"
         /\ dev # "loaded" => at[o] = "lock"
         /\ lock # {} => at[o] = "lock" /\ lock = {o}
  BY DEF TypeOK, Locked, Enters, Users

\* Nobody is counted, or one.
LEMMA FewCounted ==
  ASSUME Counted
  PROVE  /\ openCnt = 0 <=> Users = {}
         /\ openCnt > 0 <=> Users # {}
         /\ openCnt = 1 => \A o \in Users : Users = {o}
<1>1. Users \subseteq Openers /\ openCnt = Cardinality(Users) /\ openCnt \in Nat
  BY SubsetsCounted DEF Counted, Users
<1>2. ASSUME openCnt = 1, NEW o \in Users PROVE Users = {o}
  <2>1. o \in Openers /\ Users \ {o} \subseteq Openers
    BY <1>1, <1>2
  <2>2. Cardinality(Users \ {o}) = Cardinality(Users) - 1
    BY <1>1, <1>2, <2>1, OneCounted
  <2>3. Users \ {o} = {}
    BY <1>1, <1>2, <2>1, <2>2, SubsetsCounted
  <2> QED
    BY <2>3, <1>2
<1> QED
  BY <1>1, <1>2, SubsetsCounted
----------------------------------------------------------------------------
(* Every step keeps every part *)

\* An open, a close, a type more or less: what is counted goes along.
LEMMA CountedStep ==
  ASSUME TypeOK, Locked, Counted, [Next]_vars
  PROVE  Counted'
<1>1. CASE DevInit
  BY <1>1 DEF DevInit, Counted, Users, Trackers, openers, task, ending, tracking
<1>2. CASE DevExpunge
  BY <1>2 DEF DevExpunge, StopServer, FreeBase, Counted, Users, Trackers, openers
<1>3. CASE Expunged
  BY <1>3 DEF Expunged, FreeBase, Counted, Users, Trackers, openers, task
<1>4. CASE ServerStarts
  BY <1>4 DEF ServerStarts, Counted, Users, Trackers, base, openers, ending, tracking
<1>5. CASE ServerInit
  BY <1>5 DEF ServerInit, Counted, Users, Trackers, base, openers, ending, tracking
<1>6. CASE Cleanup
  BY <1>6 DEF Cleanup, Counted, Users, Trackers, base, ending, tracking
<1>7. CASE ServerEnds
  BY <1>7 DEF ServerEnds, Counted, Users, Trackers, base, openers, tracking
<1>8. CASE GoOnline
  BY <1>8 DEF GoOnline, Counted, Users, Trackers, base, openers, ending, tracking
<1>9. CASE GoOffline
  BY <1>9 DEF GoOffline, Counted, Users, Trackers, base, openers, ending, tracking
<1>10. CASE Break
  BY <1>10 DEF Break, Counted, Users, Trackers, base, openers, ending, tracking
<1>11. ASSUME NEW o \in Openers, OpenWaits(o) PROVE Counted'
  <2>1. o \notin Users /\ o \in Openers /\ Users \subseteq Openers
    BY <1>11, Entered DEF OpenWaits, Users, Enters, base, task, ending, tracking
  <2>2. Users' = Users
    BY <1>11, <2>1, UsersStep DEF OpenWaits, base, task, ending, tracking
  <2>3. openCnt' = Cardinality(Users')
    BY <1>11, <2>1, <2>2, OneCounted DEF OpenWaits, Counted, base, task, ending, tracking
  <2>4. dev' # "freed" => \A t \in Types : track'[t] = Cardinality(Trackers(t)')
    BY <1>11 DEF OpenWaits, Counted, Trackers, base, task, ending, tracking
  <2> QED
    BY <2>1, <2>2, <2>3, <2>4 DEF Counted
<1>12. ASSUME NEW o \in Openers, OpenDenied(o) PROVE Counted'
  <2>1. o \notin Users /\ o \in Openers /\ Users \subseteq Openers
    BY <1>12, Entered DEF OpenDenied, Users, Enters, task, ending, tracking
  <2>2. Users' = Users
    BY <1>12, <2>1, UsersStep DEF OpenDenied, task, ending, tracking
  <2>3. openCnt' = Cardinality(Users')
    BY <1>12, <2>1, <2>2, OneCounted DEF OpenDenied, Counted, task, ending, tracking
  <2>4. dev' # "freed" => \A t \in Types : track'[t] = Cardinality(Trackers(t)')
    BY <1>12 DEF OpenDenied, Counted, Trackers, task, ending, tracking
  <2> QED
    BY <2>1, <2>2, <2>3, <2>4 DEF Counted
<1>13. ASSUME NEW o \in Openers, OpenFails(o) PROVE Counted'
  <2>1. o \notin Users /\ o \in Openers /\ Users \subseteq Openers
    BY <1>13, Entered DEF OpenFails, Users, Enters, task, ending, tracking
  <2>2. Users' = Users
    BY <1>13, <2>1, UsersStep DEF OpenFails, task, ending, tracking
  <2>3. openCnt' = Cardinality(Users')
    BY <1>13, <2>1, <2>2, OneCounted DEF OpenFails, Counted, task, ending, tracking
  <2>4. dev' # "freed" => \A t \in Types : track'[t] = Cardinality(Trackers(t)')
    BY <1>13 DEF OpenFails, Counted, Trackers, task, ending, tracking
  <2> QED
    BY <2>1, <2>2, <2>3, <2>4 DEF Counted
<1>14. ASSUME NEW o \in Openers, OpenSecond(o) PROVE Counted'
  <2>1. o \notin Users /\ o \in Openers /\ Users \subseteq Openers
    BY <1>14, Entered DEF OpenSecond, Users, Enters, task, ending, tracking
  <2>2. Users' = Users \cup {o}
    BY <1>14, <2>1, UsersStep DEF OpenSecond, task, ending, tracking
  <2>3. openCnt' = Cardinality(Users')
    BY <1>14, <2>1, <2>2, OneCounted DEF OpenSecond, Counted, task, ending, tracking
  <2>4. dev' # "freed" => \A t \in Types : track'[t] = Cardinality(Trackers(t)')
    BY <1>14 DEF OpenSecond, Counted, Trackers, task, ending, tracking
  <2> QED
    BY <2>1, <2>2, <2>3, <2>4 DEF Counted
<1>15. ASSUME NEW o \in Openers, OpenLaunches(o) PROVE Counted'
  <2>1. o \notin Users /\ o \in Openers /\ Users \subseteq Openers
    BY <1>15, Entered DEF OpenLaunches, Users, Enters, ending, tracking
  <2>2. Users' = Users \cup {o}
    BY <1>15, <2>1, UsersStep DEF OpenLaunches, ending, tracking
  <2>3. openCnt' = Cardinality(Users')
    BY <1>15, <2>1, <2>2, OneCounted DEF OpenLaunches, Counted, ending, tracking
  <2>4. dev' # "freed" => \A t \in Types : track'[t] = Cardinality(Trackers(t)')
    BY <1>15 DEF OpenLaunches, Counted, Trackers, ending, tracking
  <2> QED
    BY <2>1, <2>2, <2>3, <2>4 DEF Counted
<1>16. ASSUME NEW o \in Openers, OpenReturns(o) PROVE Counted'
  <2>1. o \in Users /\ o \in Openers /\ Users \subseteq Openers
    BY <1>16 DEF OpenReturns, Users, task, ending, tracking
  <2>2. startup = "ok" => Users' = Users /\ openCnt' = openCnt
    BY <1>16, <2>1, UsersStep DEF OpenReturns, task, ending, tracking
  <2>3. startup # "ok" => Users' = Users \ {o} /\ openCnt' = openCnt - 1
    BY <1>16, <2>1, UsersStep DEF OpenReturns, task, ending, tracking
  <2>4. openCnt' = Cardinality(Users')
    BY <1>16, <2>1, <2>2, <2>3, OneCounted DEF OpenReturns, Counted, task, ending, tracking
  <2>5. dev' # "freed" => \A t \in Types : track'[t] = Cardinality(Trackers(t)')
    BY <1>16 DEF OpenReturns, Counted, Trackers, task, ending, tracking
  <2> QED
    BY <2>1, <2>2, <2>3, <2>4, <2>5 DEF Counted
<1>17. ASSUME NEW o \in Openers, DevClose(o) PROVE Counted'
  <2>1. o \in Users /\ o \in Openers /\ Users \subseteq Openers
    BY <1>17 DEF DevClose, StopServer, FreeBase, Users
  <2>2. Users' = Users \ {o}
    BY <1>17, <2>1, UsersStep DEF DevClose, StopServer, FreeBase
  <2>3. openCnt' = Cardinality(Users')
    BY <1>17, <2>1, <2>2, OneCounted DEF DevClose, StopServer, FreeBase, Counted
  <2>4. dev' # "freed" => \A t \in Types : track'[t] = Cardinality(Trackers(t)')
    BY <1>17 DEF DevClose, StopServer, FreeBase, Counted, Trackers
  <2> QED
    BY <2>1, <2>2, <2>3, <2>4 DEF Counted
<1>18. ASSUME NEW o \in Openers, NEW t \in Types, TrackType(o, t) PROVE Counted'
  <2>1. openCnt' = Cardinality(Users')
    BY <1>18 DEF TrackType, Counted, Users, base, openers, task, ending
  <2>2. Trackers(t) \subseteq Openers /\ Trackers(t)' = Trackers(t) \cup {o}
       /\ \A u \in Types \ {t} : Trackers(u)' = Trackers(u)
    BY <1>18 DEF TrackType, Trackers, TypeOK, base, openers, task, ending
  <2>3. /\ track[t] = Cardinality(Trackers(t)) /\ track'[t] = track[t] + 1
       /\ o \notin Trackers(t)
    BY <1>18 DEF TrackType, TypeOK, Counted, Trackers, base, openers, task, ending
  <2>4. \A u \in Types \ {t} : track'[u] = track[u] /\ track[u] = Cardinality(Trackers(u))
    BY <1>18 DEF TrackType, TypeOK, Counted, base, openers, task, ending
  <2>5. track'[t] = Cardinality(Trackers(t)')
    BY <1>18, <2>2, <2>3, OneCounted DEF TrackType, base, openers, task, ending
  <2>6. \A u \in Types : track'[u] = Cardinality(Trackers(u)')
    BY <1>18, <2>2, <2>4, <2>5 DEF TrackType, base, openers, task, ending
  <2> QED
    BY <2>1, <2>2, <2>3, <2>4, <2>5, <2>6 DEF Counted
<1>19. ASSUME NEW o \in Openers, NEW t \in Types, UntrackType(o, t) PROVE Counted'
  <2>1. openCnt' = Cardinality(Users')
    BY <1>19 DEF UntrackType, Counted, Users, base, openers, task, ending
  <2>2. Trackers(t) \subseteq Openers /\ Trackers(t)' = Trackers(t) \ {o}
       /\ \A u \in Types \ {t} : Trackers(u)' = Trackers(u)
    BY <1>19 DEF UntrackType, Trackers, TypeOK, base, openers, task, ending
  <2>3. /\ track[t] = Cardinality(Trackers(t)) /\ track'[t] = track[t] - 1
       /\ o \in Trackers(t)
    BY <1>19 DEF UntrackType, TypeOK, Counted, Trackers, base, openers, task, ending
  <2>4. \A u \in Types \ {t} : track'[u] = track[u] /\ track[u] = Cardinality(Trackers(u))
    BY <1>19 DEF UntrackType, TypeOK, Counted, base, openers, task, ending
  <2>5. track'[t] = Cardinality(Trackers(t)')
    BY <1>19, <2>2, <2>3, OneCounted DEF UntrackType, base, openers, task, ending
  <2>6. \A u \in Types : track'[u] = Cardinality(Trackers(u)')
    BY <1>19, <2>2, <2>4, <2>5 DEF UntrackType, base, openers, task, ending
  <2> QED
    BY <2>1, <2>2, <2>3, <2>4, <2>5, <2>6 DEF Counted
<1>20. CASE UNCHANGED vars
  BY <1>20 DEF Counted, Users, Trackers, vars, base, openers, task, ending, tracking
<1> QED
  BY <1>1, <1>2, <1>3, <1>4, <1>5, <1>6, <1>7, <1>8, <1>9, <1>10, <1>11, <1>12, <1>13, <1>14,
     <1>15, <1>16, <1>17, <1>18, <1>19, <1>20 DEF Next, ServerStep

\* Who has the lock gives it to who waits; a server that failed to start is dead when its
\* opener learns of it.
LEMMA LockedStep ==
  ASSUME TypeOK, Locked, Launched, [Next]_vars
  PROVE  Locked'
<1> USE DEF TypeOK, Locked, Launched, Users
<1>1. CASE DevInit
  BY <1>1 DEF DevInit, openers, task, ending, tracking
<1>2. CASE DevExpunge
  BY <1>2 DEF DevExpunge, StopServer, FreeBase, openers
<1>3. CASE Expunged
  BY <1>3 DEF Expunged, FreeBase, openers, task
<1>4. CASE ServerStarts
  BY <1>4 DEF ServerStarts, base, openers, ending, tracking
<1>5. CASE ServerInit
  BY <1>5 DEF ServerInit, base, openers, ending, tracking
<1>6. CASE Cleanup
  BY <1>6 DEF Cleanup, Freed, base, ending, tracking
<1>7. CASE ServerEnds
  BY <1>7 DEF ServerEnds, base, openers, tracking
<1>8. CASE GoOnline
  BY <1>8 DEF GoOnline, base, openers, ending, tracking
<1>9. CASE GoOffline
  BY <1>9 DEF GoOffline, base, openers, ending, tracking
<1>10. CASE Break
  BY <1>10 DEF Break, base, openers, ending, tracking
<1>11. ASSUME NEW o \in Openers, OpenWaits(o) PROVE Locked'
  BY <1>11 DEF OpenWaits, base, task, ending, tracking
<1>12. ASSUME NEW o \in Openers, OpenDenied(o) PROVE Locked'
  BY <1>12, Entered, Released DEF OpenDenied, task, ending, tracking
<1>13. ASSUME NEW o \in Openers, OpenFails(o) PROVE Locked'
  BY <1>13, Entered, Released DEF OpenFails, task, ending, tracking
<1>14. ASSUME NEW o \in Openers, OpenSecond(o) PROVE Locked'
  BY <1>14, Entered, Released DEF OpenSecond, task, ending, tracking
<1>15. ASSUME NEW o \in Openers, OpenLaunches(o) PROVE Locked'
  BY <1>15, Entered DEF OpenLaunches, ending, tracking
<1>16. ASSUME NEW o \in Openers, OpenReturns(o) PROVE Locked'
  BY <1>16, Released DEF OpenReturns, task, ending, tracking
<1>17. ASSUME NEW o \in Openers, DevClose(o) PROVE Locked'
  BY <1>17 DEF DevClose, StopServer, FreeBase
<1>18. ASSUME NEW o \in Openers, NEW t \in Types, TrackType(o, t) PROVE Locked'
  BY <1>18 DEF TrackType, base, openers, task, ending
<1>19. ASSUME NEW o \in Openers, NEW t \in Types, UntrackType(o, t) PROVE Locked'
  BY <1>19 DEF UntrackType, base, openers, task, ending
<1>20. CASE UNCHANGED vars
  BY <1>20 DEF vars, base, openers, task, ending, tracking
<1> QED
  BY <1>1, <1>2, <1>3, <1>4, <1>5, <1>6, <1>7, <1>8, <1>9, <1>10, <1>11, <1>12, <1>13, <1>14,
     <1>15, <1>16, <1>17, <1>18, <1>19, <1>20 DEF Next, ServerStep

\* Only a server that never was is launched, and its opener waits for the answer.
LEMMA LaunchedStep ==
  ASSUME TypeOK, Locked, Launched, [Next]_vars
  PROVE  Launched'
<1> USE DEF TypeOK, Locked, Launched, Users
<1>1. CASE DevInit
  BY <1>1 DEF DevInit, openers, task, ending, tracking
<1>2. CASE DevExpunge
  BY <1>2 DEF DevExpunge, StopServer, FreeBase, openers
<1>3. CASE Expunged
  BY <1>3 DEF Expunged, FreeBase, openers, task
<1>4. CASE ServerStarts
  BY <1>4 DEF ServerStarts, base, openers, ending, tracking
<1>5. CASE ServerInit
  BY <1>5 DEF ServerInit, base, openers, ending, tracking
<1>6. CASE Cleanup
  BY <1>6 DEF Cleanup, Freed, base, ending, tracking
<1>7. CASE ServerEnds
  BY <1>7 DEF ServerEnds, base, openers, tracking
<1>8. CASE GoOnline
  BY <1>8 DEF GoOnline, base, openers, ending, tracking
<1>9. CASE GoOffline
  BY <1>9 DEF GoOffline, base, openers, ending, tracking
<1>10. CASE Break
  BY <1>10 DEF Break, base, openers, ending, tracking
<1>11. ASSUME NEW o \in Openers, OpenWaits(o) PROVE Launched'
  BY <1>11 DEF OpenWaits, base, task, ending, tracking
<1>12. ASSUME NEW o \in Openers, OpenDenied(o) PROVE Launched'
  BY <1>12, Entered, Released DEF OpenDenied, task, ending, tracking
<1>13. ASSUME NEW o \in Openers, OpenFails(o) PROVE Launched'
  BY <1>13, Entered, Released DEF OpenFails, task, ending, tracking
<1>14. ASSUME NEW o \in Openers, OpenSecond(o) PROVE Launched'
  BY <1>14, Entered, Released DEF OpenSecond, task, ending, tracking
<1>15. ASSUME NEW o \in Openers, OpenLaunches(o) PROVE Launched'
  BY <1>15, Entered DEF OpenLaunches, ending, tracking
<1>16. ASSUME NEW o \in Openers, OpenReturns(o) PROVE Launched'
  BY <1>16, Released DEF OpenReturns, task, ending, tracking
<1>17. ASSUME NEW o \in Openers, DevClose(o) PROVE Launched'
  BY <1>17 DEF DevClose, StopServer, FreeBase
<1>18. ASSUME NEW o \in Openers, NEW t \in Types, TrackType(o, t) PROVE Launched'
  BY <1>18 DEF TrackType, base, openers, task, ending
<1>19. ASSUME NEW o \in Openers, NEW t \in Types, UntrackType(o, t) PROVE Launched'
  BY <1>19 DEF UntrackType, base, openers, task, ending
<1>20. CASE UNCHANGED vars
  BY <1>20 DEF vars, base, openers, task, ending, tracking
<1> QED
  BY <1>1, <1>2, <1>3, <1>4, <1>5, <1>6, <1>7, <1>8, <1>9, <1>10, <1>11, <1>12, <1>13, <1>14,
     <1>15, <1>16, <1>17, <1>18, <1>19, <1>20 DEF Next, ServerStep

\* Types: the counter follows the openers that are counted, the lock is one opener's.
LEMMA TypeStep ==
  ASSUME TypeOK, Counted', Locked', [Next]_vars
  PROVE  TypeOK'
<1> USE DEF TypeOK, FirstStages, Stages
<1>0. openCnt' \in Nat /\ lock' \subseteq Openers /\ Cardinality(lock') <= 1
  <2>1. Users' \subseteq Openers
    BY DEF Users
  <2>2. openCnt' \in Nat
    BY <2>1, SubsetsCounted DEF Counted
  <2>3. lock' = {} \/ \E o \in Openers : lock' = {o}
    BY DEF Locked
  <2>4. Cardinality(lock') \in {0, 1}
    <3>1. CASE lock' = {}
      BY <3>1, FS_EmptySet
    <3>2. ASSUME NEW o \in Openers, lock' = {o} PROVE Cardinality(lock') = 1
      BY <3>2, FS_Singleton
    <3> QED
      BY <2>3, <3>1, <3>2
  <2> QED
    BY <2>2, <2>3, <2>4
<1>1. CASE DevInit
  BY <1>1 DEF DevInit, openers, task, ending, tracking
<1>2. CASE DevExpunge
  <2>1. at' \in [Openers -> {"out", "lock", "launch", "open"}] /\ mine' \in [Openers -> BOOLEAN]
    BY <1>2 DEF DevExpunge, StopServer, FreeBase, openers
  <2>2. {delexp', exclusive', server', offline', vector', ctrlC', woken', stopped'} \subseteq BOOLEAN
    BY <1>2 DEF DevExpunge, StopServer, FreeBase, openers
  <2>3. bms' \subseteq Openers /\ res' \subseteq FirstStages(6)
    BY <1>2 DEF DevExpunge, StopServer, FreeBase, openers
  <2>4. /\ dev' \in {"absent", "loaded", "removed", "freed"}
       /\ srv' \in {"none", "launched", "started", "failed", "running", "freed", "dead", "crashed"}
       /\ startup' \in {"none", "sent", "ok", "failed"} /\ expunge' \in {"none", "wait", "poll", "done"}
    BY <1>2 DEF DevExpunge, StopServer, FreeBase, openers
  <2>5. /\ track' \in [Types -> Nat] /\ holds' \in [Openers -> SUBSET Types]
       /\ mishaps' \subseteq {"start", "break", "attach"}
    BY <1>2 DEF DevExpunge, StopServer, FreeBase, openers
  <2> QED
    BY <1>0, <2>1, <2>2, <2>3, <2>4, <2>5
<1>3. CASE Expunged
  <2>1. at' \in [Openers -> {"out", "lock", "launch", "open"}] /\ mine' \in [Openers -> BOOLEAN]
    BY <1>3 DEF Expunged, FreeBase, openers, task
  <2>2. {delexp', exclusive', server', offline', vector', ctrlC', woken', stopped'} \subseteq BOOLEAN
    BY <1>3 DEF Expunged, FreeBase, openers, task
  <2>3. bms' \subseteq Openers /\ res' \subseteq FirstStages(6)
    BY <1>3 DEF Expunged, FreeBase, openers, task
  <2>4. /\ dev' \in {"absent", "loaded", "removed", "freed"}
       /\ srv' \in {"none", "launched", "started", "failed", "running", "freed", "dead", "crashed"}
       /\ startup' \in {"none", "sent", "ok", "failed"} /\ expunge' \in {"none", "wait", "poll", "done"}
    BY <1>3 DEF Expunged, FreeBase, openers, task
  <2>5. /\ track' \in [Types -> Nat] /\ holds' \in [Openers -> SUBSET Types]
       /\ mishaps' \subseteq {"start", "break", "attach"}
    BY <1>3 DEF Expunged, FreeBase, openers, task
  <2> QED
    BY <1>0, <2>1, <2>2, <2>3, <2>4, <2>5
<1>4. CASE ServerStarts
  BY <1>4 DEF ServerStarts, base, openers, ending, tracking
<1>5. CASE ServerInit
  <2>1. at' \in [Openers -> {"out", "lock", "launch", "open"}] /\ mine' \in [Openers -> BOOLEAN]
    BY <1>5 DEF ServerInit, base, openers, ending, tracking
  <2>2. {delexp', exclusive', server', offline', vector', ctrlC', woken', stopped'} \subseteq BOOLEAN
    BY <1>5 DEF ServerInit, base, openers, ending, tracking
  <2>3. bms' \subseteq Openers /\ res' \subseteq FirstStages(6)
    BY <1>5 DEF ServerInit, base, openers, ending, tracking
  <2>4. /\ dev' \in {"absent", "loaded", "removed", "freed"}
       /\ srv' \in {"none", "launched", "started", "failed", "running", "freed", "dead", "crashed"}
       /\ startup' \in {"none", "sent", "ok", "failed"} /\ expunge' \in {"none", "wait", "poll", "done"}
    BY <1>5 DEF ServerInit, base, openers, ending, tracking
  <2>5. /\ track' \in [Types -> Nat] /\ holds' \in [Openers -> SUBSET Types]
       /\ mishaps' \subseteq {"start", "break", "attach"}
    BY <1>5 DEF ServerInit, base, openers, ending, tracking
  <2> QED
    BY <1>0, <2>1, <2>2, <2>3, <2>4, <2>5
<1>6. CASE Cleanup
  BY <1>6 DEF Cleanup, Freed, base, ending, tracking
<1>7. CASE ServerEnds
  BY <1>7 DEF ServerEnds, base, openers, tracking
<1>8. CASE GoOnline
  <2>1. at' \in [Openers -> {"out", "lock", "launch", "open"}] /\ mine' \in [Openers -> BOOLEAN]
    BY <1>8 DEF GoOnline, base, openers, ending, tracking
  <2>2. {delexp', exclusive', server', offline', vector', ctrlC', woken', stopped'} \subseteq BOOLEAN
    BY <1>8 DEF GoOnline, base, openers, ending, tracking
  <2>3. bms' \subseteq Openers /\ res' \subseteq FirstStages(6)
    BY <1>8 DEF GoOnline, base, openers, ending, tracking
  <2>4. /\ dev' \in {"absent", "loaded", "removed", "freed"}
       /\ srv' \in {"none", "launched", "started", "failed", "running", "freed", "dead", "crashed"}
       /\ startup' \in {"none", "sent", "ok", "failed"} /\ expunge' \in {"none", "wait", "poll", "done"}
    BY <1>8 DEF GoOnline, base, openers, ending, tracking
  <2>5. /\ track' \in [Types -> Nat] /\ holds' \in [Openers -> SUBSET Types]
       /\ mishaps' \subseteq {"start", "break", "attach"}
    BY <1>8 DEF GoOnline, base, openers, ending, tracking
  <2> QED
    BY <1>0, <2>1, <2>2, <2>3, <2>4, <2>5
<1>9. CASE GoOffline
  BY <1>9 DEF GoOffline, base, openers, ending, tracking
<1>10. CASE Break
  BY <1>10 DEF Break, base, openers, ending, tracking
<1>11. ASSUME NEW o \in Openers, OpenWaits(o) PROVE TypeOK'
  <2>1. at' \in [Openers -> {"out", "lock", "launch", "open"}] /\ mine' \in [Openers -> BOOLEAN]
    BY <1>11 DEF OpenWaits, base, task, ending, tracking
  <2>2. {delexp', exclusive', server', offline', vector', ctrlC', woken', stopped'} \subseteq BOOLEAN
    BY <1>11 DEF OpenWaits, base, task, ending, tracking
  <2>3. bms' \subseteq Openers /\ res' \subseteq FirstStages(6)
    BY <1>11 DEF OpenWaits, base, task, ending, tracking
  <2>4. /\ dev' \in {"absent", "loaded", "removed", "freed"}
       /\ srv' \in {"none", "launched", "started", "failed", "running", "freed", "dead", "crashed"}
       /\ startup' \in {"none", "sent", "ok", "failed"} /\ expunge' \in {"none", "wait", "poll", "done"}
    BY <1>11 DEF OpenWaits, base, task, ending, tracking
  <2>5. /\ track' \in [Types -> Nat] /\ holds' \in [Openers -> SUBSET Types]
       /\ mishaps' \subseteq {"start", "break", "attach"}
    BY <1>11 DEF OpenWaits, base, task, ending, tracking
  <2> QED
    BY <1>0, <2>1, <2>2, <2>3, <2>4, <2>5
<1>12. ASSUME NEW o \in Openers, OpenDenied(o) PROVE TypeOK'
  <2>1. at' \in [Openers -> {"out", "lock", "launch", "open"}] /\ mine' \in [Openers -> BOOLEAN]
    BY <1>12 DEF OpenDenied, Release, Enters, task, ending, tracking
  <2>2. {delexp', exclusive', server', offline', vector', ctrlC', woken', stopped'} \subseteq BOOLEAN
    BY <1>12 DEF OpenDenied, Release, Enters, task, ending, tracking
  <2>3. bms' \subseteq Openers /\ res' \subseteq FirstStages(6)
    BY <1>12 DEF OpenDenied, Release, Enters, task, ending, tracking
  <2>4. /\ dev' \in {"absent", "loaded", "removed", "freed"}
       /\ srv' \in {"none", "launched", "started", "failed", "running", "freed", "dead", "crashed"}
       /\ startup' \in {"none", "sent", "ok", "failed"} /\ expunge' \in {"none", "wait", "poll", "done"}
    BY <1>12 DEF OpenDenied, Release, Enters, task, ending, tracking
  <2>5. /\ track' \in [Types -> Nat] /\ holds' \in [Openers -> SUBSET Types]
       /\ mishaps' \subseteq {"start", "break", "attach"}
    BY <1>12 DEF OpenDenied, Release, Enters, task, ending, tracking
  <2> QED
    BY <1>0, <2>1, <2>2, <2>3, <2>4, <2>5
<1>13. ASSUME NEW o \in Openers, OpenFails(o) PROVE TypeOK'
  <2>1. at' \in [Openers -> {"out", "lock", "launch", "open"}] /\ mine' \in [Openers -> BOOLEAN]
    BY <1>13 DEF OpenFails, Release, Enters, task, ending, tracking
  <2>2. {delexp', exclusive', server', offline', vector', ctrlC', woken', stopped'} \subseteq BOOLEAN
    BY <1>13 DEF OpenFails, Release, Enters, task, ending, tracking
  <2>3. bms' \subseteq Openers /\ res' \subseteq FirstStages(6)
    BY <1>13 DEF OpenFails, Release, Enters, task, ending, tracking
  <2>4. /\ dev' \in {"absent", "loaded", "removed", "freed"}
       /\ srv' \in {"none", "launched", "started", "failed", "running", "freed", "dead", "crashed"}
       /\ startup' \in {"none", "sent", "ok", "failed"} /\ expunge' \in {"none", "wait", "poll", "done"}
    BY <1>13 DEF OpenFails, Release, Enters, task, ending, tracking
  <2>5. /\ track' \in [Types -> Nat] /\ holds' \in [Openers -> SUBSET Types]
       /\ mishaps' \subseteq {"start", "break", "attach"}
    BY <1>13 DEF OpenFails, Release, Enters, task, ending, tracking
  <2> QED
    BY <1>0, <2>1, <2>2, <2>3, <2>4, <2>5
<1>14. ASSUME NEW o \in Openers, OpenSecond(o) PROVE TypeOK'
  <2>1. at' \in [Openers -> {"out", "lock", "launch", "open"}] /\ mine' \in [Openers -> BOOLEAN]
    BY <1>14 DEF OpenSecond, Release, Enters, task, ending, tracking
  <2>2. {delexp', exclusive', server', offline', vector', ctrlC', woken', stopped'} \subseteq BOOLEAN
    BY <1>14 DEF OpenSecond, Release, Enters, task, ending, tracking
  <2>3. bms' \subseteq Openers /\ res' \subseteq FirstStages(6)
    BY <1>14 DEF OpenSecond, Release, Enters, task, ending, tracking
  <2>4. /\ dev' \in {"absent", "loaded", "removed", "freed"}
       /\ srv' \in {"none", "launched", "started", "failed", "running", "freed", "dead", "crashed"}
       /\ startup' \in {"none", "sent", "ok", "failed"} /\ expunge' \in {"none", "wait", "poll", "done"}
    BY <1>14 DEF OpenSecond, Release, Enters, task, ending, tracking
  <2>5. /\ track' \in [Types -> Nat] /\ holds' \in [Openers -> SUBSET Types]
       /\ mishaps' \subseteq {"start", "break", "attach"}
    BY <1>14 DEF OpenSecond, Release, Enters, task, ending, tracking
  <2> QED
    BY <1>0, <2>1, <2>2, <2>3, <2>4, <2>5
<1>15. ASSUME NEW o \in Openers, OpenLaunches(o) PROVE TypeOK'
  <2>1. at' \in [Openers -> {"out", "lock", "launch", "open"}] /\ mine' \in [Openers -> BOOLEAN]
    BY <1>15 DEF OpenLaunches, Enters, ending, tracking
  <2>2. {delexp', exclusive', server', offline', vector', ctrlC', woken', stopped'} \subseteq BOOLEAN
    BY <1>15 DEF OpenLaunches, Enters, ending, tracking
  <2>3. bms' \subseteq Openers /\ res' \subseteq FirstStages(6)
    BY <1>15 DEF OpenLaunches, Enters, ending, tracking
  <2>4. /\ dev' \in {"absent", "loaded", "removed", "freed"}
       /\ srv' \in {"none", "launched", "started", "failed", "running", "freed", "dead", "crashed"}
       /\ startup' \in {"none", "sent", "ok", "failed"} /\ expunge' \in {"none", "wait", "poll", "done"}
    BY <1>15 DEF OpenLaunches, Enters, ending, tracking
  <2>5. /\ track' \in [Types -> Nat] /\ holds' \in [Openers -> SUBSET Types]
       /\ mishaps' \subseteq {"start", "break", "attach"}
    BY <1>15 DEF OpenLaunches, Enters, ending, tracking
  <2> QED
    BY <1>0, <2>1, <2>2, <2>3, <2>4, <2>5
<1>16. ASSUME NEW o \in Openers, OpenReturns(o) PROVE TypeOK'
  <2>1. at' \in [Openers -> {"out", "lock", "launch", "open"}] /\ mine' \in [Openers -> BOOLEAN]
    BY <1>16 DEF OpenReturns, Release, task, ending, tracking
  <2>2. {delexp', exclusive', server', offline', vector', ctrlC', woken', stopped'} \subseteq BOOLEAN
    BY <1>16 DEF OpenReturns, Release, task, ending, tracking
  <2>3. bms' \subseteq Openers /\ res' \subseteq FirstStages(6)
    BY <1>16 DEF OpenReturns, Release, task, ending, tracking
  <2>4. /\ dev' \in {"absent", "loaded", "removed", "freed"}
       /\ srv' \in {"none", "launched", "started", "failed", "running", "freed", "dead", "crashed"}
       /\ startup' \in {"none", "sent", "ok", "failed"} /\ expunge' \in {"none", "wait", "poll", "done"}
    BY <1>16 DEF OpenReturns, Release, task, ending, tracking
  <2>5. /\ track' \in [Types -> Nat] /\ holds' \in [Openers -> SUBSET Types]
       /\ mishaps' \subseteq {"start", "break", "attach"}
    BY <1>16 DEF OpenReturns, Release, task, ending, tracking
  <2> QED
    BY <1>0, <2>1, <2>2, <2>3, <2>4, <2>5
<1>17. ASSUME NEW o \in Openers, DevClose(o) PROVE TypeOK'
  <2>1. at' \in [Openers -> {"out", "lock", "launch", "open"}] /\ mine' \in [Openers -> BOOLEAN]
    BY <1>17 DEF DevClose, StopServer, FreeBase
  <2>2. {delexp', exclusive', server', offline', vector', ctrlC', woken', stopped'} \subseteq BOOLEAN
    BY <1>17 DEF DevClose, StopServer, FreeBase
  <2>3. bms' \subseteq Openers /\ res' \subseteq FirstStages(6)
    BY <1>17 DEF DevClose, StopServer, FreeBase
  <2>4. /\ dev' \in {"absent", "loaded", "removed", "freed"}
       /\ srv' \in {"none", "launched", "started", "failed", "running", "freed", "dead", "crashed"}
       /\ startup' \in {"none", "sent", "ok", "failed"} /\ expunge' \in {"none", "wait", "poll", "done"}
    BY <1>17 DEF DevClose, StopServer, FreeBase
  <2>5. /\ track' \in [Types -> Nat] /\ holds' \in [Openers -> SUBSET Types]
       /\ mishaps' \subseteq {"start", "break", "attach"}
    BY <1>17 DEF DevClose, StopServer, FreeBase
  <2> QED
    BY <1>0, <2>1, <2>2, <2>3, <2>4, <2>5
<1>18. ASSUME NEW o \in Openers, NEW t \in Types, TrackType(o, t) PROVE TypeOK'
  BY <1>18 DEF TrackType, base, openers, task, ending
<1>19. ASSUME NEW o \in Openers, NEW t \in Types, UntrackType(o, t) PROVE TypeOK'
  BY <1>19 DEF UntrackType, base, openers, task, ending
<1>20. CASE UNCHANGED vars
  BY <1>20 DEF vars, base, openers, task, ending, tracking
<1> QED
  BY <1>1, <1>2, <1>3, <1>4, <1>5, <1>6, <1>7, <1>8, <1>9, <1>10, <1>11, <1>12, <1>13, <1>14,
     <1>15, <1>16, <1>17, <1>18, <1>19, <1>20 DEF Next, ServerStep

\* The device is told to go with no opener left, or with a dead server; and stays gone.
LEMMA LeavingStep ==
  ASSUME TypeOK, Counted, Locked, Launched, Leaving, FreedUnused, [Next]_vars
  PROVE  Leaving' /\ FreedUnused'
<1> USE DEF TypeOK, Locked, Launched, Leaving, FreedUnused, Users
<1>1. CASE DevInit
  BY <1>1 DEF DevInit, openers, task, ending, tracking
<1>2. CASE DevExpunge
  BY <1>2, FewCounted DEF DevExpunge, StopServer, FreeBase, openers
<1>3. CASE Expunged
  BY <1>3 DEF Expunged, FreeBase, openers, task
<1>4. CASE ServerStarts
  BY <1>4 DEF ServerStarts, base, openers, ending, tracking
<1>5. CASE ServerInit
  BY <1>5 DEF ServerInit, base, openers, ending, tracking
<1>6. CASE Cleanup
  BY <1>6 DEF Cleanup, Freed, base, ending, tracking
<1>7. CASE ServerEnds
  BY <1>7 DEF ServerEnds, base, openers, tracking
<1>8. CASE GoOnline
  BY <1>8 DEF GoOnline, base, openers, ending, tracking
<1>9. CASE GoOffline
  BY <1>9 DEF GoOffline, base, openers, ending, tracking
<1>10. CASE Break
  BY <1>10 DEF Break, base, openers, ending, tracking
<1>11. ASSUME NEW o \in Openers, OpenWaits(o) PROVE Leaving' /\ FreedUnused'
  BY <1>11 DEF OpenWaits, base, task, ending, tracking
<1>12. ASSUME NEW o \in Openers, OpenDenied(o) PROVE Leaving' /\ FreedUnused'
  BY <1>12, Entered, Released DEF OpenDenied, task, ending, tracking
<1>13. ASSUME NEW o \in Openers, OpenFails(o) PROVE Leaving' /\ FreedUnused'
  BY <1>13, Entered, Released DEF OpenFails, task, ending, tracking
<1>14. ASSUME NEW o \in Openers, OpenSecond(o) PROVE Leaving' /\ FreedUnused'
  BY <1>14, Entered, Released DEF OpenSecond, task, ending, tracking
<1>15. ASSUME NEW o \in Openers, OpenLaunches(o) PROVE Leaving' /\ FreedUnused'
  BY <1>15, Entered DEF OpenLaunches, ending, tracking
<1>16. ASSUME NEW o \in Openers, OpenReturns(o) PROVE Leaving' /\ FreedUnused'
  BY <1>16, Released DEF OpenReturns, task, ending, tracking
<1>17. ASSUME NEW o \in Openers, DevClose(o) PROVE Leaving' /\ FreedUnused'
  BY <1>17, FewCounted DEF DevClose, StopServer, FreeBase
<1>18. ASSUME NEW o \in Openers, NEW t \in Types, TrackType(o, t) PROVE Leaving' /\ FreedUnused'
  BY <1>18 DEF TrackType, base, openers, task, ending
<1>19. ASSUME NEW o \in Openers, NEW t \in Types, UntrackType(o, t) PROVE Leaving' /\ FreedUnused'
  BY <1>19 DEF UntrackType, base, openers, task, ending
<1>20. CASE UNCHANGED vars
  BY <1>20 DEF vars, base, openers, task, ending, tracking
<1> QED
  BY <1>1, <1>2, <1>3, <1>4, <1>5, <1>6, <1>7, <1>8, <1>9, <1>10, <1>11, <1>12, <1>13, <1>14,
     <1>15, <1>16, <1>17, <1>18, <1>19, <1>20 DEF Next, ServerStep

\* An open is denied or keeps the openers alone that asked for it.
LEMMA AloneStep ==
  ASSUME TypeOK, Counted, Locked, Alone, [Next]_vars
  PROVE  Alone'
<1>1. CASE DevInit
  BY <1>1 DEF DevInit, TypeOK, Alone, Users, openers, task, ending, tracking
<1>2. CASE DevExpunge
  BY <1>2 DEF DevExpunge, StopServer, FreeBase, TypeOK, Alone, Users, openers
<1>3. CASE Expunged
  BY <1>3 DEF Expunged, FreeBase, TypeOK, Alone, Users, openers, task
<1>4. CASE ServerStarts
  BY <1>4 DEF ServerStarts, TypeOK, Alone, Users, base, openers, ending, tracking
<1>5. CASE ServerInit
  BY <1>5 DEF ServerInit, TypeOK, Alone, Users, base, openers, ending, tracking
<1>6. CASE Cleanup
  BY <1>6 DEF Cleanup, Freed, TypeOK, Alone, Users, base, ending, tracking
<1>7. CASE ServerEnds
  BY <1>7 DEF ServerEnds, TypeOK, Alone, Users, base, openers, tracking
<1>8. CASE GoOnline
  BY <1>8 DEF GoOnline, TypeOK, Alone, Users, base, openers, ending, tracking
<1>9. CASE GoOffline
  BY <1>9 DEF GoOffline, TypeOK, Alone, Users, base, openers, ending, tracking
<1>10. CASE Break
  BY <1>10 DEF Break, TypeOK, Alone, Users, base, openers, ending, tracking
<1>11. ASSUME NEW o \in Openers, OpenWaits(o) PROVE Alone'
  BY <1>11 DEF OpenWaits, TypeOK, Alone, Users, base, task, ending, tracking
<1>12. ASSUME NEW o \in Openers, OpenDenied(o) PROVE Alone'
  <2>1. o \notin Users /\ \A p \in Users : mine'[p] = mine[p]
    BY <1>12, Entered DEF OpenDenied, Enters, TypeOK, Users, task, ending, tracking
  <2>2. Users' = Users
    BY <1>12, <2>1 DEF OpenDenied, Users, TypeOK, task, ending, tracking
  <2> QED
    BY <2>1, <2>2, <1>12 DEF Alone, OpenDenied
<1>13. ASSUME NEW o \in Openers, OpenFails(o) PROVE Alone'
  <2>1. o \notin Users /\ \A p \in Users : mine'[p] = mine[p]
    BY <1>13, Entered DEF OpenFails, Enters, TypeOK, Users, task, ending, tracking
  <2>2. Users' = Users
    BY <1>13, <2>1 DEF OpenFails, Users, TypeOK, task, ending, tracking
  <2>3. Users = {} \/ exclusive' = exclusive
    BY <1>13, FewCounted DEF OpenFails, Denied, TypeOK, task, ending, tracking
  <2> QED
    BY <2>1, <2>2, <2>3, <1>13 DEF Alone, OpenFails
<1>14. ASSUME NEW o \in Openers, OpenSecond(o) PROVE Alone'
  <2>1. o \notin Users /\ \A p \in Users : mine'[p] = mine[p]
    BY <1>14, Entered DEF OpenSecond, Enters, TypeOK, Users, task, ending, tracking
  <2>2. Users' = Users \cup {o}
    BY <1>14 DEF OpenSecond, Users, TypeOK, task, ending, tracking
  <2>3. Users = {} => exclusive' = mine'[o]
    BY <1>14 DEF OpenSecond, Enters, TypeOK, task, ending, tracking
  <2>4. Users # {} => ~exclusive /\ ~mine'[o]
    BY <1>14, FewCounted DEF OpenSecond, Enters, Denied, TypeOK, task, ending, tracking
  <2> QED
    BY <2>1, <2>2, <2>3, <2>4, <1>14 DEF Alone, OpenSecond
<1>15. ASSUME NEW o \in Openers, OpenLaunches(o) PROVE Alone'
  <2>1. o \notin Users /\ \A p \in Users : mine'[p] = mine[p]
    BY <1>15, Entered DEF OpenLaunches, Enters, TypeOK, Users, ending, tracking
  <2>2. Users' = Users \cup {o}
    BY <1>15 DEF OpenLaunches, Users, TypeOK, ending, tracking
  <2>3. Users = {} => exclusive' = mine'[o]
    BY <1>15 DEF OpenLaunches, Enters, TypeOK, ending, tracking
  <2>4. Users # {} => ~exclusive /\ ~mine'[o]
    BY <1>15, FewCounted DEF OpenLaunches, Enters, Denied, TypeOK, ending, tracking
  <2> QED
    BY <2>1, <2>2, <2>3, <2>4, <1>15 DEF Alone, OpenLaunches
<1>16. ASSUME NEW o \in Openers, OpenReturns(o) PROVE Alone'
  BY <1>16, Released DEF OpenReturns, TypeOK, Alone, Users, task, ending, tracking
<1>17. ASSUME NEW o \in Openers, DevClose(o) PROVE Alone'
  BY <1>17 DEF DevClose, StopServer, FreeBase, TypeOK, Alone, Users
<1>18. ASSUME NEW o \in Openers, NEW t \in Types, TrackType(o, t) PROVE Alone'
  BY <1>18 DEF TrackType, TypeOK, Alone, Users, base, openers, task, ending
<1>19. ASSUME NEW o \in Openers, NEW t \in Types, UntrackType(o, t) PROVE Alone'
  BY <1>19 DEF UntrackType, TypeOK, Alone, Users, base, openers, task, ending
<1>20. CASE UNCHANGED vars
  BY <1>20 DEF Alone, Users, vars, base, openers, task, ending, tracking
<1> QED
  BY <1>1, <1>2, <1>3, <1>4, <1>5, <1>6, <1>7, <1>8, <1>9, <1>10, <1>11, <1>12, <1>13, <1>14,
     <1>15, <1>16, <1>17, <1>18, <1>19, <1>20 DEF Next, ServerStep

\* What stops the server is a failed start, a break or the last close.
LEMMA ServingStep ==
  ASSUME TypeOK, Counted, Locked, Launched, Leaving, Serving, [Next]_vars
  PROVE  Serving'
<1> USE DEF TypeOK, Locked, Launched, Leaving, Serving, Mishap, Users
<1>1. CASE DevInit
  BY <1>1 DEF DevInit, openers, task, ending, tracking
<1>2. CASE DevExpunge
  BY <1>2, FewCounted DEF DevExpunge, StopServer, FreeBase, openers
<1>3. CASE Expunged
  BY <1>3 DEF Expunged, FreeBase, openers, task
<1>4. CASE ServerStarts
  BY <1>4 DEF ServerStarts, base, openers, ending, tracking
<1>5. CASE ServerInit
  BY <1>5 DEF ServerInit, base, openers, ending, tracking
<1>6. CASE Cleanup
  BY <1>6 DEF Cleanup, Freed, base, ending, tracking
<1>7. CASE ServerEnds
  BY <1>7 DEF ServerEnds, base, openers, tracking
<1>8. CASE GoOnline
  BY <1>8 DEF GoOnline, base, openers, ending, tracking
<1>9. CASE GoOffline
  BY <1>9 DEF GoOffline, base, openers, ending, tracking
<1>10. CASE Break
  BY <1>10 DEF Break, base, openers, ending, tracking
<1>11. ASSUME NEW o \in Openers, OpenWaits(o) PROVE Serving'
  BY <1>11 DEF OpenWaits, base, task, ending, tracking
<1>12. ASSUME NEW o \in Openers, OpenDenied(o) PROVE Serving'
  BY <1>12, Entered, Released DEF OpenDenied, task, ending, tracking
<1>13. ASSUME NEW o \in Openers, OpenFails(o) PROVE Serving'
  BY <1>13, Entered, Released DEF OpenFails, task, ending, tracking
<1>14. ASSUME NEW o \in Openers, OpenSecond(o) PROVE Serving'
  BY <1>14, Entered, Released DEF OpenSecond, task, ending, tracking
<1>15. ASSUME NEW o \in Openers, OpenLaunches(o) PROVE Serving'
  BY <1>15, Entered DEF OpenLaunches, ending, tracking
<1>16. ASSUME NEW o \in Openers, OpenReturns(o) PROVE Serving'
  BY <1>16, Released DEF OpenReturns, task, ending, tracking
<1>17. ASSUME NEW o \in Openers, DevClose(o) PROVE Serving'
  BY <1>17, FewCounted DEF DevClose, StopServer, FreeBase
<1>18. ASSUME NEW o \in Openers, NEW t \in Types, TrackType(o, t) PROVE Serving'
  BY <1>18 DEF TrackType, base, openers, task, ending
<1>19. ASSUME NEW o \in Openers, NEW t \in Types, UntrackType(o, t) PROVE Serving'
  BY <1>19 DEF UntrackType, base, openers, task, ending
<1>20. CASE UNCHANGED vars
  BY <1>20 DEF vars, base, openers, task, ending, tracking
<1> QED
  BY <1>1, <1>2, <1>3, <1>4, <1>5, <1>6, <1>7, <1>8, <1>9, <1>10, <1>11, <1>12, <1>13, <1>14,
     <1>15, <1>16, <1>17, <1>18, <1>19, <1>20 DEF Next, ServerStep

\* Cleanup takes the driver offline and frees what the server has.
LEMMA OwnedStep ==
  ASSUME TypeOK, Owned, [Next]_vars
  PROVE  Owned'
<1> USE DEF TypeOK, Owned, FirstStages, Stages
<1>1. CASE DevInit
  BY <1>1 DEF DevInit, openers, task, ending, tracking
<1>2. CASE DevExpunge
  BY <1>2 DEF DevExpunge, StopServer, FreeBase, openers
<1>3. CASE Expunged
  BY <1>3 DEF Expunged, FreeBase, openers, task
<1>4. CASE ServerStarts
  BY <1>4 DEF ServerStarts, base, openers, ending, tracking
<1>5. CASE ServerInit
  BY <1>5 DEF ServerInit, base, openers, ending, tracking
<1>6. CASE Cleanup
  BY <1>6 DEF Cleanup, Freed, base, ending, tracking
<1>7. CASE ServerEnds
  BY <1>7 DEF ServerEnds, base, openers, tracking
<1>8. CASE GoOnline
  BY <1>8 DEF GoOnline, base, openers, ending, tracking
<1>9. CASE GoOffline
  BY <1>9 DEF GoOffline, base, openers, ending, tracking
<1>10. CASE Break
  BY <1>10 DEF Break, base, openers, ending, tracking
<1>11. ASSUME NEW o \in Openers, OpenWaits(o) PROVE Owned'
  BY <1>11 DEF OpenWaits, base, task, ending, tracking
<1>12. ASSUME NEW o \in Openers, OpenDenied(o) PROVE Owned'
  BY <1>12 DEF OpenDenied, task, ending, tracking
<1>13. ASSUME NEW o \in Openers, OpenFails(o) PROVE Owned'
  BY <1>13 DEF OpenFails, task, ending, tracking
<1>14. ASSUME NEW o \in Openers, OpenSecond(o) PROVE Owned'
  BY <1>14 DEF OpenSecond, task, ending, tracking
<1>15. ASSUME NEW o \in Openers, OpenLaunches(o) PROVE Owned'
  BY <1>15 DEF OpenLaunches, ending, tracking
<1>16. ASSUME NEW o \in Openers, OpenReturns(o) PROVE Owned'
  BY <1>16 DEF OpenReturns, task, ending, tracking
<1>17. ASSUME NEW o \in Openers, DevClose(o) PROVE Owned'
  BY <1>17 DEF DevClose, StopServer, FreeBase
<1>18. ASSUME NEW o \in Openers, NEW t \in Types, TrackType(o, t) PROVE Owned'
  BY <1>18 DEF TrackType, base, openers, task, ending
<1>19. ASSUME NEW o \in Openers, NEW t \in Types, UntrackType(o, t) PROVE Owned'
  BY <1>19 DEF UntrackType, base, openers, task, ending
<1>20. CASE UNCHANGED vars
  BY <1>20 DEF vars, base, openers, task, ending, tracking
<1> QED
  BY <1>1, <1>2, <1>3, <1>4, <1>5, <1>6, <1>7, <1>8, <1>9, <1>10, <1>11, <1>12, <1>13, <1>14,
     <1>15, <1>16, <1>17, <1>18, <1>19, <1>20 DEF Next, ServerStep
----------------------------------------------------------------------------
(* The theorems *)

\* Nothing is open before DevInit.
LEMMA StartsSound == Init => IInv
<1> SUFFICES ASSUME Init PROVE IInv
  OBVIOUS
<1>1. Users = {} /\ (\A t : Trackers(t) = {})
  BY DEF Init, Users, Trackers
<1>2. TypeOK /\ FreedUnused
  <2>1. {delexp, exclusive, server, offline, vector, ctrlC, woken, stopped} \subseteq BOOLEAN
    BY DEF Init
  <2> QED
    BY <2>1, FS_EmptySet DEF Init, TypeOK, FreedUnused
<1>3. Counted
  BY <1>1, FS_EmptySet DEF Init, Counted
<1>4. Locked /\ Launched /\ Leaving /\ Alone
  BY <1>1 DEF Init, Locked, Launched, Leaving, Alone
<1>5. Serving /\ Owned
  BY DEF Init, Serving, Owned
<1> QED
  BY <1>2, <1>3, <1>4, <1>5 DEF IInv

\* The parts keep each other.
LEMMA StepsSound == IInv /\ [Next]_vars => IInv'
<1> SUFFICES ASSUME IInv, [Next]_vars PROVE IInv'
  OBVIOUS
<1>1. Counted' /\ Locked' /\ Launched'
  BY CountedStep, LockedStep, LaunchedStep DEF IInv
<1>2. TypeOK'
  BY <1>1, TypeStep DEF IInv
<1>3. Leaving' /\ FreedUnused' /\ Alone' /\ Serving' /\ Owned'
  BY LeavingStep, AloneStep, ServingStep, OwnedStep DEF IInv
<1> QED
  BY <1>1, <1>2, <1>3 DEF IInv

\* The inductive invariant: who is counted, who has pb_Lock, how far the server and the
\* expunge are, and who is served.
THEOREM LifeSound == Spec => []IInv
  BY StartsSound, StepsSound, PTL DEF Spec

\* The base is freed (DevExpunge) when the server is dead and no opener is counted, for any
\* number of openers that come and go, wait for pb_Lock or launch the server.
THEOREM FreedLast == Spec => []LifeInv
<1>1. IInv => LifeInv
  BY DEF IInv, LifeInv
<1> QED
  BY <1>1, LifeSound, PTL

\* SANA2OPF_MINE: DevOpen lets nobody in beside an opener that asked to be alone.
THEOREM OneWhoIsAlone == Spec => []ExclusiveAlone
<1>1. IInv => ExclusiveAlone
  BY DEF IInv, ExclusiveAlone, Alone, Users
<1> QED
  BY <1>1, LifeSound, PTL

\* Between its open and its close an opener has a running server that knows its buffer
\* management, unless a start failed or a user broke the server, and its types are tracked.
THEOREM Served == Spec => []OpenServed
<1>1. IInv => OpenServed
  <2> SUFFICES ASSUME IInv, NEW o \in Openers, at[o] = "open"
               PROVE  /\ (srv = "running" /\ o \in bms) \/ Mishap
                      /\ \A t \in Types \cap holds[o] : track[t] > 0
    BY DEF OpenServed, Mishap, IInv, TypeOK
  <2>1. (srv = "running" /\ o \in bms) \/ Mishap
    BY DEF IInv, Serving, Launched, Locked, Users
  <2>2. ASSUME NEW t \in Types \cap holds[o] PROVE track[t] > 0
    <3>1. o \in Trackers(t) /\ Trackers(t) \subseteq Openers
      BY DEF Trackers
    <3>2. track[t] = Cardinality(Trackers(t))
      BY DEF IInv, FreedUnused, Counted
    <3> QED
      BY <3>1, <3>2, SubsetsCounted
  <2> QED
    BY <2>1, <2>2
<1> QED
  BY <1>1, LifeSound, PTL

\* A server that ended (cleanup, hw_cleanup) keeps nothing but the timer, and no interrupt
\* vector works on the memory it freed unless an attach failed.
THEOREM NothingKept == Spec => []NothingLeft
<1>1. IInv => NothingLeft
  BY DEF IInv, Owned, NothingLeft
<1> QED
  BY <1>1, LifeSound, PTL
=============================================================================
