---------------------------- MODULE SanaProofs ----------------------------
(***************************************************************************)
(* Proofs about Sana: for any requests, types and faults, no request is lost   *)
(* or in two places, the device keeps the promise of SanaService step by step, *)
(* and a rejection leaves nothing in the lists but late comers.              *)
(***************************************************************************)
EXTENDS Sana, SequenceTheorems, FiniteSetTheorems, TLAPS
----------------------------------------------------------------------------
(* The inductive invariant *)

\* Where a request may be that its client waits for.
Waiting == begun \cup Listed \cup ToSet(serverPort) \cup current \cup dropped

\* A request is pending while it is in one of these places, and it is in one of them only.
Placed ==
  /\ \A r \in Reqs : io[r] = "pending" <=> r \in Waiting
  /\ begun \cap Listed = {}
  /\ ToSet(serverPort) \cap (current \cup dropped) = {} /\ current \cap dropped = {}
  /\ \A l \in {readList, writeList, orphanList, serverPort} : IsInjective(l)

\* Each place is for requests of its commands.
Sorted ==
  /\ \A r \in begun : Cmd[r] \in Packet
  /\ \A r \in ToSet(readList) : Cmd[r] = "read"
  /\ \A r \in ToSet(writeList) : Cmd[r] = "write"
  /\ \A r \in ToSet(orphanList) : Cmd[r] = "orphan"
  /\ \A r \in eventList : Cmd[r] = "event"
  /\ \A r \in ToSet(serverPort) \cup current \cup dropped : Cmd[r] \in Control

\* What the server knows where it stands: the request it works on, the line and the port.
Rejects == {"reject_w", "reject_r", "reject_o"}
Standing ==
  /\ IF spc \in {"attach", "detach"} \cup Rejects
       THEN \E r \in Reqs : current = {r} ELSE current = {}
  /\ spc = "attach" => offline /\ \A r \in current : Cmd[r] \in {"online", "config"}
  /\ spc = "detach" => ~offline /\ \A r \in current : Cmd[r] \in {"offline", "config"}
  /\ spc \in Rejects => offline /\ \A r \in current : Cmd[r] = "offline"
  /\ spc \in {"deliver", "orphan"} => owned = "all"
  /\ spc = "sending" => writeList # <<>>
  /\ ~offline => owned = "all"

\* Who comes to a list that was rejected had begun before.
Latecomers ==
  /\ spc \in {"reject_r", "reject_o"} => ToSet(writeList) \cup BegunFor("write") \subseteq late
  /\ spc = "reject_o" => ToSet(readList) \cup BegunFor("read") \subseteq late

IInv == TypeOK /\ Placed /\ Sorted /\ Standing /\ Latecomers
----------------------------------------------------------------------------
(* Lists *)

\* The empty list.
LEMMA ListEmpty ==
  /\ \A S : <<>> \in Seq(S)
  /\ ToSet(<<>>) = {} /\ IsInjective(<<>>)
  BY DEF ToSet, IsInjective

\* A request that joins a list at its end.
LEMMA ListAppend ==
  ASSUME NEW S, NEW s \in Seq(S), NEW e \in S, e \notin ToSet(s), IsInjective(s)
  PROVE  /\ Append(s, e) \in Seq(S)
         /\ ToSet(Append(s, e)) = ToSet(s) \cup {e}
         /\ IsInjective(Append(s, e))
<1> DEFINE t == Append(s, e)
           n == Len(s)
<1>1. n \in Nat /\ DOMAIN s = 1..n /\ t \in Seq(S) /\ Len(t) = n + 1 /\ DOMAIN t = 1..n+1
      /\ (\A i \in 1..n : t[i] = s[i]) /\ t[n + 1] = e
  OBVIOUS
<1>2. ToSet(t) = ToSet(s) \cup {e}
  BY <1>1 DEF ToSet
<1>3. IsInjective(t)
  BY <1>1 DEF ToSet, IsInjective
<1> QED
  BY <1>1, <1>2, <1>3

\* The first of a list is taken.
LEMMA ListTail ==
  ASSUME NEW S, NEW s \in Seq(S), s # <<>>, IsInjective(s)
  PROVE  /\ Head(s) \in S /\ Head(s) \in ToSet(s)
         /\ Tail(s) \in Seq(S)
         /\ ToSet(Tail(s)) = ToSet(s) \ {Head(s)}
         /\ IsInjective(Tail(s))
<1> DEFINE t == Tail(s)
           n == Len(s)
<1>1. n \in Nat \ {0} /\ DOMAIN s = 1..n /\ t \in Seq(S) /\ DOMAIN t = 1..n-1 /\ Head(s) = s[1]
      /\ Head(s) \in S
  OBVIOUS
<1>2. \A i \in 1..n-1 : t[i] = s[i + 1]
  OBVIOUS
<1>3. IsInjective(t)
  BY <1>1, <1>2 DEF IsInjective
<1>4. ToSet(t) \subseteq ToSet(s) \ {Head(s)}
  BY <1>1, <1>2 DEF ToSet, IsInjective
<1>5. ASSUME NEW i \in 1..n, s[i] # s[1] PROVE s[i] \in ToSet(t)
  <2>1. i - 1 \in 1..n-1 /\ t[i - 1] = s[i]
    BY <1>1, <1>2, <1>5
  <2> QED
    BY <1>1, <2>1 DEF ToSet
<1>6. ToSet(s) \ {Head(s)} \subseteq ToSet(t)
  BY <1>1, <1>5 DEF ToSet
<1>7. Head(s) \in ToSet(s)
  BY <1>1 DEF ToSet
<1> QED
  BY <1>1, <1>3, <1>4, <1>6, <1>7

\* One leaves from the middle.
LEMMA ListRemoveAt ==
  ASSUME NEW S, NEW s \in Seq(S), NEW i \in DOMAIN s, IsInjective(s)
  PROVE  /\ s[i] \in S
         /\ RemoveAt(s, i) \in Seq(S)
         /\ ToSet(RemoveAt(s, i)) = ToSet(s) \ {s[i]}
         /\ IsInjective(RemoveAt(s, i))
<1> DEFINE t == RemoveAt(s, i)
           n == Len(s)
           u == SubSeq(s, 1, i-1)
           v == SubSeq(s, i+1, n)
<1>1. n \in Nat /\ DOMAIN s = 1..n /\ i \in 1..n /\ \A j \in 1..n : s[j] \in S
  OBVIOUS
<1>2. u \in Seq(S) /\ Len(u) = i - 1 /\ \A j \in 1..i-1 : u[j] = s[j]
  BY <1>1, SubSeqProperties
<1>3. v \in Seq(S) /\ Len(v) = n - i /\ \A j \in 1..n-i : v[j] = s[j + i]
  BY <1>1, SubSeqProperties
<1>4. t = u \o v
  BY DEF RemoveAt
<1> HIDE DEF t, u, v
<1>5. t \in Seq(S) /\ Len(t) = n - 1 /\ DOMAIN t = 1..n-1
  <2>1. t \in Seq(S) /\ Len(t) = Len(u) + Len(v)
    BY <1>2, <1>3, <1>4, ConcatProperties
  <2>2. Len(t) = n - 1
    BY <1>1, <1>2, <1>3, <2>1
  <2> QED
    BY <2>1, <2>2
<1>6. \A j \in 1..n-1 : t[j] = IF j < i THEN s[j] ELSE s[j + 1]
  <2>1. \A j \in 1..n-1 : t[j] = IF j <= i - 1 THEN u[j] ELSE v[j - (i - 1)]
    BY <1>1, <1>2, <1>3, <1>4
  <2>2. ASSUME NEW j \in 1..n-1, j < i PROVE t[j] = s[j]
    BY <1>1, <1>2, <2>1, <2>2
  <2>3. ASSUME NEW j \in 1..n-1, ~(j < i) PROVE t[j] = s[j + 1]
    <3>1. j - (i - 1) \in 1..n-i /\ (j - (i - 1)) + i = j + 1
      BY <1>1, <2>3
    <3>2. v[j - (i - 1)] = s[(j - (i - 1)) + i]
      BY <1>3, <3>1
    <3>3. t[j] = v[j - (i - 1)]
      BY <1>1, <2>1, <2>3
    <3> QED
      BY <3>1, <3>2, <3>3
  <2> QED
    BY <2>2, <2>3
<1>7. IsInjective(t)
  BY <1>1, <1>5, <1>6 DEF IsInjective
<1>8. ToSet(t) \subseteq ToSet(s) \ {s[i]}
  BY <1>1, <1>5, <1>6 DEF ToSet, IsInjective
<1>9. ASSUME NEW j \in 1..n, s[j] # s[i] PROVE s[j] \in ToSet(t)
  <2>1. CASE j < i
    BY <1>1, <1>5, <1>6, <2>1 DEF ToSet
  <2>2. CASE j > i
    <3>1. j - 1 \in 1..n-1 /\ t[j - 1] = s[j]
      BY <1>1, <1>6, <2>2
    <3> QED
      BY <1>5, <3>1 DEF ToSet
  <2> QED
    BY <1>1, <1>9, <2>1, <2>2
<1>10. ToSet(s) \ {s[i]} \subseteq ToSet(t)
  BY <1>1, <1>9 DEF ToSet
<1> QED
  BY <1>1, <1>5, <1>7, <1>8, <1>10 DEF t

\* A request leaves the list it is in; a list it is not in stays.
LEMMA ListRemoveFirst ==
  ASSUME NEW S, NEW s \in Seq(S), NEW e, IsInjective(s)
  PROVE  /\ RemoveFirst(s, e) \in Seq(S)
         /\ ToSet(RemoveFirst(s, e)) = ToSet(s) \ {e}
         /\ IsInjective(RemoveFirst(s, e))
<1>1. Len(s) \in Nat /\ DOMAIN s = 1..Len(s)
  OBVIOUS
<1>2. ASSUME NEW i \in 1..Len(s), s[i] = e
      PROVE  RemoveFirst(s, e) = RemoveAt(s, i)
  <2>1. {j \in 1..Len(s) : s[j] = e} = {i}
    BY <1>1, <1>2 DEF IsInjective
  <2>2. Min({i}) = i
    BY <1>2 DEF Min
  <2>3. SelectInSeq(s, LAMBDA v: v = e) = i
    BY <2>1, <2>2 DEF SelectInSeq
  <2> QED
    BY <1>2, <2>3 DEF RemoveFirst
<1>3. CASE \E i \in 1..Len(s) : s[i] = e
  BY <1>1, <1>2, <1>3, ListRemoveAt
<1>4. CASE ~\E i \in 1..Len(s) : s[i] = e
  BY <1>1, <1>4 DEF RemoveFirst, ToSet
<1> QED
  BY <1>3, <1>4
----------------------------------------------------------------------------
(* What a step does to the requests *)

\* The step answers the requests of S with one of the results, and some that wait for an
\* event; all others it leaves alone.
Gives(S, results) ==
  /\ io' \in [Reqs -> {"unused", "pending"} \cup Results]
  /\ eventList' \subseteq eventList
  /\ \A r \in Reqs : \/ r \in S /\ io'[r] \in results
                     \/ r \notin S /\ r \in eventList \ eventList' /\ io'[r] = "ok"
                     \/ r \notin S /\ r \notin eventList \ eventList' /\ io'[r] = io[r]

\* Answer gives the result it names.
LEMMA AnswerGives ==
  ASSUME TypeOK, NEW S \in SUBSET Reqs, NEW result \in Results, NEW events,
         Answer(S, result, events)
  PROVE  Gives(S, {result})
  BY DEF TypeOK, DeviceTypeOK, Answer, Wanting, Results, Gives

\* So does DevTermIO; the lists it leaves to its caller.
LEMMA TermGives ==
  ASSUME TypeOK, NEW S \in SUBSET Reqs, NEW result \in Results, Term(S, result),
         eventList' = eventList \/ eventList' = eventList \ S
  PROVE  Gives(S, {result})
  BY DEF TypeOK, DeviceTypeOK, Term, Results, Gives

\* A step may answer nobody.
LEMMA NothingGiven ==
  ASSUME TypeOK, UNCHANGED <<io, eventList>>
  PROVE  Gives({}, {"ok"})
  BY DEF TypeOK, DeviceTypeOK, Gives

\* A frame is copied into the buffer of a request, or cannot be.
LEMMA ReadGives ==
  ASSUME TypeOK, NEW r \in Reqs, ReadFrame(r)
  PROVE  Gives({r}, {"ok", "error"})
<1>1. Gives({r}, {"ok"}) \/ Gives({r}, {"error"})
  BY AnswerGives DEF ReadFrame, Results
<1> QED
  BY <1>1 DEF Gives

\* The places are apart, by the commands they are for or as the steps of a request.
LEMMA PlacesApart ==
  ASSUME Placed, Sorted
  PROVE  /\ begun \cap (Listed \cup ToSet(serverPort) \cup current \cup dropped) = {}
         /\ ToSet(readList) \cap (ToSet(writeList) \cup ToSet(orphanList)) = {}
         /\ ToSet(writeList) \cap ToSet(orphanList) = {}
         /\ eventList \cap (ToSet(readList) \cup ToSet(writeList) \cup ToSet(orphanList)) = {}
         /\ Listed \cap (ToSet(serverPort) \cup current \cup dropped) = {}
         /\ ToSet(serverPort) \cap current = {} /\ ToSet(serverPort) \cap dropped = {}
         /\ current \cap dropped = {}
  BY DEF Placed, Sorted, Listed, Packet, Control

\* A packet request is answered instead of queued.
LEMMA RefuseSound ==
  ASSUME IInv, NEW r \in Reqs, Refuse(r), UNCHANGED serverVars
  PROVE  IInv'
<1>1. TypeOK'
  BY
     DEF Refuse, Term, Refusal, lists, serverVars, IInv, TypeOK, DeviceTypeOK, ServerTypeOK,
            ServerPcs, Results, Signals
<1>2. Placed'
  BY
     DEF Refuse, Term, Refusal, lists, serverVars, IInv, TypeOK, DeviceTypeOK, ServerTypeOK,
            Placed, Waiting, Listed, Sorted, Standing, Rejects
<1>3. Sorted'
  BY
     DEF Refuse, Term, Refusal, lists, serverVars, IInv, TypeOK, DeviceTypeOK, Sorted,
            Packet, Control
<1>4. Standing'
  BY
     DEF Refuse, Term, Refusal, lists, serverVars, IInv, TypeOK, DeviceTypeOK, ServerTypeOK,
            Standing, Rejects, Sorted, Placed, Control
<1>5. Latecomers'
  BY
     DEF Refuse, Term, Refusal, lists, serverVars, IInv, TypeOK, Latecomers, BegunFor,
            Standing, Rejects
<1> QED
  BY <1>1, <1>2, <1>3, <1>4, <1>5 DEF IInv

\* A packet request passes the tests of DevBeginIO and is nowhere but there.
LEMMA PassSound ==
  ASSUME IInv, NEW r \in Reqs, Pass(r), UNCHANGED serverVars
  PROVE  IInv'
<1>1. TypeOK'
  BY
     DEF Pass, Refusal, lists, serverVars, IInv, TypeOK, DeviceTypeOK, ServerTypeOK,
            ServerPcs, Results, Signals
<1>2. Placed'
  BY
     DEF Pass, Refusal, lists, serverVars, IInv, TypeOK, DeviceTypeOK, ServerTypeOK, Placed,
            Waiting, Listed, Sorted, Standing, Rejects
<1>3. Sorted'
  BY
     DEF Pass, Refusal, lists, serverVars, IInv, TypeOK, DeviceTypeOK, Sorted, Packet, Control
<1>4. Standing'
  BY
     DEF Pass, Refusal, lists, serverVars, IInv, TypeOK, DeviceTypeOK, ServerTypeOK,
            Standing, Rejects, Sorted, Placed, Control
<1>5. Latecomers'
  BY
     DEF Pass, Refusal, lists, serverVars, IInv, TypeOK, Latecomers, BegunFor, Standing,
            Rejects
<1> QED
  BY <1>1, <1>2, <1>3, <1>4, <1>5 DEF IInv

\* A read joins its list.
LEMMA QueueReadSound ==
  ASSUME IInv, NEW r \in Reqs, QueueRead(r), UNCHANGED serverVars
  PROVE  IInv'
<1>1. readList' \in Seq(Reqs) /\ ToSet(readList') = ToSet(readList) \cup {r} /\ IsInjective(readList')
  BY ListAppend DEF QueueRead, serverVars, IInv, TypeOK, DeviceTypeOK, Placed, Waiting, Listed
<1>2. TypeOK'
  BY <1>1
     DEF QueueRead, serverVars, IInv, TypeOK, DeviceTypeOK, ServerTypeOK, ServerPcs, Results,
            Signals
<1>3. Placed'
  BY <1>1
     DEF QueueRead, serverVars, IInv, TypeOK, DeviceTypeOK, ServerTypeOK, Placed, Waiting,
            Listed, Sorted, Standing, Rejects
<1>4. Sorted'
  BY <1>1 DEF QueueRead, serverVars, IInv, TypeOK, DeviceTypeOK, Sorted, Packet, Control
<1>5. Standing'
  BY <1>1
     DEF QueueRead, serverVars, IInv, TypeOK, DeviceTypeOK, ServerTypeOK, Standing, Rejects,
            Sorted, Placed, Control
<1>6. Latecomers'
  BY <1>1 DEF QueueRead, serverVars, IInv, TypeOK, Latecomers, BegunFor, Standing, Rejects
<1> QED
  BY <1>2, <1>3, <1>4, <1>5, <1>6 DEF IInv

\* A read for what nobody asked for joins its list.
LEMMA QueueOrphanSound ==
  ASSUME IInv, NEW r \in Reqs, QueueOrphan(r), UNCHANGED serverVars
  PROVE  IInv'
<1>1. orphanList' \in Seq(Reqs) /\ ToSet(orphanList') = ToSet(orphanList) \cup {r} /\ IsInjective(orphanList')
  BY ListAppend
     DEF QueueOrphan, serverVars, IInv, TypeOK, DeviceTypeOK, Placed, Waiting, Listed
<1>2. TypeOK'
  BY <1>1
     DEF QueueOrphan, serverVars, IInv, TypeOK, DeviceTypeOK, ServerTypeOK, ServerPcs,
            Results, Signals
<1>3. Placed'
  BY <1>1
     DEF QueueOrphan, serverVars, IInv, TypeOK, DeviceTypeOK, ServerTypeOK, Placed, Waiting,
            Listed, Sorted, Standing, Rejects
<1>4. Sorted'
  BY <1>1 DEF QueueOrphan, serverVars, IInv, TypeOK, DeviceTypeOK, Sorted, Packet, Control
<1>5. Standing'
  BY <1>1
     DEF QueueOrphan, serverVars, IInv, TypeOK, DeviceTypeOK, ServerTypeOK, Standing,
            Rejects, Sorted, Placed, Control
<1>6. Latecomers'
  BY <1>1 DEF QueueOrphan, serverVars, IInv, TypeOK, Latecomers, BegunFor, Standing, Rejects
<1> QED
  BY <1>2, <1>3, <1>4, <1>5, <1>6 DEF IInv

\* A write joins its list, and not while the server is at it.
LEMMA QueueWriteSound ==
  ASSUME IInv, NEW r \in Reqs, QueueWrite(r), UNCHANGED serverVars, ~WriteListHeld
  PROVE  IInv'
<1>1. writeList' \in Seq(Reqs) /\ ToSet(writeList') = ToSet(writeList) \cup {r} /\ IsInjective(writeList')
  BY ListAppend
     DEF QueueWrite, serverVars, IInv, TypeOK, DeviceTypeOK, Placed, Waiting, Listed
<1>2. TypeOK'
  BY <1>1
     DEF QueueWrite, serverVars, IInv, TypeOK, DeviceTypeOK, ServerTypeOK, ServerPcs,
            Results, Signals
<1>3. Placed'
  BY <1>1
     DEF QueueWrite, serverVars, IInv, TypeOK, DeviceTypeOK, ServerTypeOK, Placed, Waiting,
            Listed, Sorted, Standing, Rejects
<1>4. Sorted'
  BY <1>1 DEF QueueWrite, serverVars, IInv, TypeOK, DeviceTypeOK, Sorted, Packet, Control
<1>5. Standing'
  BY <1>1
     DEF QueueWrite, serverVars, IInv, TypeOK, DeviceTypeOK, ServerTypeOK, Standing, Rejects,
            Sorted, Placed, Control, WriteListHeld
<1>6. Latecomers'
  BY <1>1 DEF QueueWrite, serverVars, IInv, TypeOK, Latecomers, BegunFor, Standing, Rejects
<1> QED
  BY <1>2, <1>3, <1>4, <1>5, <1>6 DEF IInv

\* S2_ONEVENT waits or is answered.
LEMMA OnEventSound ==
  ASSUME IInv, NEW r \in Reqs, OnEvent(r), UNCHANGED serverVars
  PROVE  IInv'
<1>1. TypeOK'
  BY
     DEF OnEvent, serverVars, IInv, TypeOK, DeviceTypeOK, ServerTypeOK, ServerPcs, Results,
            Signals
<1>2. Placed'
  BY
     DEF OnEvent, serverVars, IInv, TypeOK, DeviceTypeOK, ServerTypeOK, Placed, Waiting,
            Listed, Sorted, Standing, Rejects
<1>3. Sorted'
  BY DEF OnEvent, serverVars, IInv, TypeOK, DeviceTypeOK, Sorted, Packet, Control
<1>4. Standing'
  BY
     DEF OnEvent, serverVars, IInv, TypeOK, DeviceTypeOK, ServerTypeOK, Standing, Rejects,
            Sorted, Placed, Control
<1>5. Latecomers'
  BY DEF OnEvent, serverVars, IInv, TypeOK, Latecomers, BegunFor, Standing, Rejects
<1> QED
  BY <1>1, <1>2, <1>3, <1>4, <1>5 DEF IInv

\* A request for the line goes to the port.
LEMMA ForwardSound ==
  ASSUME IInv, NEW r \in Reqs, Forward(r), UNCHANGED serverVars
  PROVE  IInv'
<1>1. serverPort' \in Seq(Reqs) /\ ToSet(serverPort') = ToSet(serverPort) \cup {r} /\ IsInjective(serverPort')
  BY ListAppend DEF Forward, serverVars, IInv, TypeOK, DeviceTypeOK, Placed, Waiting, Listed
<1>2. TypeOK'
  BY <1>1
     DEF Forward, serverVars, IInv, TypeOK, DeviceTypeOK, ServerTypeOK, ServerPcs, Results,
            Signals
<1>3. Placed'
  BY <1>1
     DEF Forward, serverVars, IInv, TypeOK, DeviceTypeOK, ServerTypeOK, Placed, Waiting,
            Listed, Sorted, Standing, Rejects
<1>4. Sorted'
  BY <1>1 DEF Forward, serverVars, IInv, TypeOK, DeviceTypeOK, Sorted, Packet, Control
<1>5. Standing'
  BY <1>1
     DEF Forward, serverVars, IInv, TypeOK, DeviceTypeOK, ServerTypeOK, Standing, Rejects,
            Sorted, Placed, Control
<1>6. Latecomers'
  BY <1>1 DEF Forward, serverVars, IInv, TypeOK, Latecomers, BegunFor, Standing, Rejects
<1> QED
  BY <1>2, <1>3, <1>4, <1>5, <1>6 DEF IInv

\* A request that is aborted leaves its list.
LEMMA AbortSound ==
  ASSUME IInv, NEW r \in Reqs, Abort(r), UNCHANGED serverVars, ~WriteListHeld
  PROVE  IInv'
<1>1. readList' \in Seq(Reqs) /\ ToSet(readList') = ToSet(readList) \ {r} /\ IsInjective(readList')
  BY ListRemoveFirst DEF Abort, Term, serverVars, IInv, TypeOK, DeviceTypeOK, Placed
<1>2. writeList' \in Seq(Reqs) /\ ToSet(writeList') = ToSet(writeList) \ {r} /\ IsInjective(writeList')
  BY ListRemoveFirst DEF Abort, Term, serverVars, IInv, TypeOK, DeviceTypeOK, Placed
<1>3. orphanList' \in Seq(Reqs) /\ ToSet(orphanList') = ToSet(orphanList) \ {r} /\ IsInjective(orphanList')
  BY ListRemoveFirst DEF Abort, Term, serverVars, IInv, TypeOK, DeviceTypeOK, Placed
<1>4. Gives({r}, {"aborted"})
  BY <1>1, <1>2, <1>3, TermGives
     DEF Abort, Term, serverVars, IInv, Listed, TypeOK, DeviceTypeOK, Results
<1>5. TypeOK'
  BY <1>1, <1>2, <1>3, <1>4
     DEF Abort, serverVars, IInv, TypeOK, DeviceTypeOK, ServerTypeOK, ServerPcs, Results,
            Signals, Gives
<1>6. Placed'
  <2>1. Waiting' = Waiting \ ({r} \cup (eventList \ eventList'))
    BY <1>1, <1>2, <1>3, <1>4, PlacesApart
       DEF Abort, serverVars, IInv, Waiting, Listed, Gives, TypeOK, DeviceTypeOK, Standing,
              Rejects
  <2>2. \A q \in Reqs : io'[q] = "pending" <=> q \in Waiting'
    BY <1>4, <2>1 DEF IInv, Placed, Gives, Waiting, Listed
  <2>3. begun' \cap Listed' = {} /\ ToSet(serverPort') \cap (current' \cup dropped') = {}
       /\ current' \cap dropped' = {}
       /\ \A l \in {readList', writeList', orphanList', serverPort'} : IsInjective(l)
    BY <1>1, <1>2, <1>3, <1>4 DEF Abort, serverVars, IInv, Placed, Listed, Gives
  <2> QED
    BY <2>2, <2>3 DEF Placed
<1>7. Sorted'
  BY <1>1, <1>2, <1>3, <1>4
     DEF Abort, serverVars, IInv, TypeOK, DeviceTypeOK, Sorted, Packet, Control, Gives
<1>8. Standing'
  BY <1>1, <1>2, <1>3, <1>4
     DEF Abort, serverVars, IInv, TypeOK, DeviceTypeOK, ServerTypeOK, Standing, Rejects,
            Sorted, Placed, Control, WriteListHeld
<1>9. Latecomers'
  BY <1>1, <1>2, <1>3, <1>4
     DEF Abort, serverVars, IInv, TypeOK, Latecomers, BegunFor, Standing, Rejects
<1> QED
  BY <1>5, <1>6, <1>7, <1>8, <1>9 DEF IInv

\* A frame is offered; no request moves.
LEMMA InterruptSound ==
  ASSUME IInv, Interrupt
  PROVE  IInv'
<1>1. TypeOK'
  <2>1. DeviceTypeOK'
    BY DEF Interrupt, lists, hist, IInv, TypeOK, DeviceTypeOK, Gives, Signals
  <2>2. ServerTypeOK'
    BY ServerAssumption
       DEF Interrupt, lists, hist, IInv, TypeOK, DeviceTypeOK, ServerTypeOK, ServerPcs,
              BegunFor, Signals
  <2> QED
    BY <2>1, <2>2 DEF TypeOK
<1>2. Placed'
  BY
     DEF Interrupt, lists, hist, IInv, TypeOK, DeviceTypeOK, ServerTypeOK, Placed, Waiting,
            Listed, Sorted, Standing, Rejects
<1>3. Sorted'
  BY DEF Interrupt, lists, hist, IInv, TypeOK, DeviceTypeOK, Sorted, Packet, Control
<1>4. Standing'
  BY
     DEF Interrupt, lists, hist, IInv, TypeOK, DeviceTypeOK, ServerTypeOK, Standing, Rejects,
            Sorted, Placed, Control
<1>5. Latecomers'
  BY DEF Interrupt, lists, hist, IInv, TypeOK, Latecomers, BegunFor, Standing, Rejects
<1> QED
  BY <1>1, <1>2, <1>3, <1>4, <1>5 DEF IInv

\* The head of the loop.
LEMMA LoopHeadSound ==
  ASSUME IInv, LoopHead
  PROVE  IInv'
<1>1. TypeOK'
  BY
     DEF LoopHead, Goto, deviceVars, hist, hw, lists, IInv, TypeOK, DeviceTypeOK,
            ServerTypeOK, ServerPcs, Results, Signals
<1>2. Placed'
  BY
     DEF LoopHead, Goto, deviceVars, hist, hw, lists, IInv, TypeOK, DeviceTypeOK,
            ServerTypeOK, Placed, Waiting, Listed, Sorted, Standing, Rejects
<1>3. Sorted'
  BY
     DEF LoopHead, Goto, deviceVars, hist, hw, lists, IInv, TypeOK, DeviceTypeOK, Sorted,
            Packet, Control
<1>4. Standing'
  BY
     DEF LoopHead, Goto, deviceVars, hist, hw, lists, IInv, TypeOK, DeviceTypeOK,
            ServerTypeOK, Standing, Rejects, Sorted, Placed, Control
<1>5. Latecomers'
  BY
     DEF LoopHead, Goto, deviceVars, hist, hw, lists, IInv, TypeOK, Latecomers, BegunFor,
            Standing, Rejects
<1> QED
  BY <1>1, <1>2, <1>3, <1>4, <1>5 DEF IInv

\* The server takes its signals.
LEMMA WaitSound ==
  ASSUME IInv, Wait
  PROVE  IInv'
<1>1. TypeOK'
  BY
     DEF Wait, lists, hist, hw, IInv, TypeOK, DeviceTypeOK, ServerTypeOK, ServerPcs, Results,
            Signals
<1>2. Placed'
  BY
     DEF Wait, lists, hist, hw, IInv, TypeOK, DeviceTypeOK, ServerTypeOK, Placed, Waiting,
            Listed, Sorted, Standing, Rejects
<1>3. Sorted'
  BY DEF Wait, lists, hist, hw, IInv, TypeOK, DeviceTypeOK, Sorted, Packet, Control
<1>4. Standing'
  BY
     DEF Wait, lists, hist, hw, IInv, TypeOK, DeviceTypeOK, ServerTypeOK, Standing, Rejects,
            Sorted, Placed, Control
<1>5. Latecomers'
  BY DEF Wait, lists, hist, hw, IInv, TypeOK, Latecomers, BegunFor, Standing, Rejects
<1> QED
  BY <1>1, <1>2, <1>3, <1>4, <1>5 DEF IInv

\* The server looks for a frame.
LEMMA CheckReceiveSound ==
  ASSUME IInv, CheckReceive
  PROVE  IInv'
<1>1. TypeOK'
  BY
     DEF CheckReceive, Goto, deviceVars, hist, hw, lists, IInv, TypeOK, DeviceTypeOK,
            ServerTypeOK, ServerPcs, Results, Signals
<1>2. Placed'
  BY
     DEF CheckReceive, Goto, deviceVars, hist, hw, lists, IInv, TypeOK, DeviceTypeOK,
            ServerTypeOK, Placed, Waiting, Listed, Sorted, Standing, Rejects
<1>3. Sorted'
  BY
     DEF CheckReceive, Goto, deviceVars, hist, hw, lists, IInv, TypeOK, DeviceTypeOK, Sorted,
            Packet, Control
<1>4. Standing'
  BY
     DEF CheckReceive, Goto, deviceVars, hist, hw, lists, IInv, TypeOK, DeviceTypeOK,
            ServerTypeOK, Standing, Rejects, Sorted, Placed, Control
<1>5. Latecomers'
  BY
     DEF CheckReceive, Goto, deviceVars, hist, hw, lists, IInv, TypeOK, Latecomers, BegunFor,
            Standing, Rejects
<1> QED
  BY <1>1, <1>2, <1>3, <1>4, <1>5 DEF IInv

\* A frame is received with the port, or the event of an error goes out.
LEMMA RecvFrameSound ==
  ASSUME IInv, RecvFrame
  PROVE  IInv'
<1>1. Gives({}, {"ok"})
  BY AnswerGives, NothingGiven DEF RecvFrame, hist, IInv, Results
<1>2. TypeOK'
  BY <1>1
     DEF RecvFrame, hist, IInv, TypeOK, DeviceTypeOK, ServerTypeOK, ServerPcs, Results,
            Signals, Gives
<1>3. Placed'
  <2>1. Waiting' = Waiting \ ({} \cup (eventList \ eventList'))
    BY <1>1, PlacesApart
       DEF RecvFrame, hist, IInv, Waiting, Listed, Gives, TypeOK, DeviceTypeOK, Standing,
              Rejects
  <2>2. \A r \in Reqs : io'[r] = "pending" <=> r \in Waiting'
    BY <1>1, <2>1 DEF IInv, Placed, Gives, Waiting, Listed
  <2>3. begun' \cap Listed' = {} /\ ToSet(serverPort') \cap (current' \cup dropped') = {}
       /\ current' \cap dropped' = {}
       /\ \A l \in {readList', writeList', orphanList', serverPort'} : IsInjective(l)
    BY <1>1 DEF RecvFrame, hist, IInv, Placed, Listed, Gives
  <2> QED
    BY <2>2, <2>3 DEF Placed
<1>4. Sorted'
  BY <1>1 DEF RecvFrame, hist, IInv, TypeOK, DeviceTypeOK, Sorted, Packet, Control, Gives
<1>5. Standing'
  BY <1>1
     DEF RecvFrame, hist, IInv, TypeOK, DeviceTypeOK, ServerTypeOK, Standing, Rejects,
            Sorted, Placed, Control
<1>6. Latecomers'
  BY <1>1 DEF RecvFrame, hist, IInv, TypeOK, Latecomers, BegunFor, Standing, Rejects
<1> QED
  BY <1>2, <1>3, <1>4, <1>5, <1>6 DEF IInv

\* The frame goes to a reader, which leaves its list.
LEMMA DeliverSound ==
  ASSUME IInv, Deliver
  PROVE  IInv'
<1>1. ASSUME NEW i \in Reader, ReadFrame(readList[i]), readList' = RemoveAt(readList, i), Delivered
      PROVE  IInv'
  <2>1. i \in DOMAIN readList /\ readList[i] \in ToSet(readList)
    BY <1>1 DEF Deliver, Delivered, hw, hist, Reader, ToSet
  <2>2. /\ readList[i] \in Reqs \cap ToSet(readList) /\ readList' \in Seq(Reqs)
       /\ ToSet(readList') = ToSet(readList) \ {readList[i]} /\ IsInjective(readList')
    BY <1>1, <2>1, <2>1, ListRemoveAt
       DEF Deliver, Delivered, hw, hist, IInv, TypeOK, DeviceTypeOK, Placed
  <2>3. Gives({readList[i]}, {"ok", "error"})
    BY <1>1, <2>1, <2>2, ReadGives DEF Deliver, Delivered, hw, hist, IInv
  <2>4. DeviceTypeOK'
    BY <1>1, <2>1, <2>2, <2>3
       DEF Deliver, Delivered, hw, hist, IInv, TypeOK, DeviceTypeOK, Gives
  <2>5. ServerTypeOK'
    BY <1>1, <2>1, <2>2, <2>3
       DEF Deliver, Delivered, hw, hist, IInv, TypeOK, ServerTypeOK, ServerPcs, DeviceTypeOK
  <2>6. Placed'
    <3>1. Waiting' = Waiting \ ({readList[i]} \cup (eventList \ eventList'))
      BY <1>1, <2>1, <2>2, <2>3, PlacesApart
         DEF Deliver, Delivered, hw, hist, IInv, Waiting, Listed, Gives, TypeOK,
                DeviceTypeOK, Standing, Rejects
    <3>2. \A r \in Reqs : io'[r] = "pending" <=> r \in Waiting'
      BY <2>3, <3>1 DEF IInv, Placed, Gives, Waiting, Listed
    <3>3. begun' \cap Listed' = {} /\ ToSet(serverPort') \cap (current' \cup dropped') = {}
         /\ current' \cap dropped' = {}
         /\ \A l \in {readList', writeList', orphanList', serverPort'} : IsInjective(l)
      BY <1>1, <2>1, <2>2, <2>3, PlacesApart
         DEF Deliver, Delivered, hw, hist, IInv, Placed, Listed, Gives
    <3> QED
      BY <3>2, <3>3 DEF Placed
  <2>7. Sorted'
    BY <1>1, <2>1, <2>2, <2>3
       DEF Deliver, Delivered, hw, hist, IInv, TypeOK, DeviceTypeOK, Sorted, Packet, Control,
              Gives
  <2>8. Standing'
    BY <1>1, <2>1, <2>2, <2>3
       DEF Deliver, Delivered, hw, hist, IInv, TypeOK, DeviceTypeOK, ServerTypeOK, Standing,
              Rejects, Sorted, Control
  <2>9. Latecomers'
    BY <1>1, <2>1, <2>2, <2>3
       DEF Deliver, Delivered, hw, hist, IInv, TypeOK, Latecomers, BegunFor, Standing, Rejects
  <2> QED
    BY <2>4, <2>5, <2>6, <2>7, <2>8, <2>9 DEF IInv, TypeOK
<1>2. CASE Goto("orphan") /\ UNCHANGED <<io, eventList, readList>>
  <2>1. Gives({}, {"ok"})
    BY <1>2, NothingGiven DEF Deliver, Goto, hw, hist, IInv
  <2>2. DeviceTypeOK'
    BY <1>2, <2>1 DEF Deliver, Goto, hw, hist, IInv, TypeOK, DeviceTypeOK, Gives
  <2>3. ServerTypeOK'
    BY <1>2, <2>1
       DEF Deliver, Goto, hw, hist, IInv, TypeOK, ServerTypeOK, ServerPcs, DeviceTypeOK
  <2>4. Placed'
    <3>1. Waiting' = Waiting \ ({} \cup (eventList \ eventList'))
      BY <1>2, <2>1, PlacesApart
         DEF Deliver, Goto, hw, hist, IInv, Waiting, Listed, Gives, TypeOK, DeviceTypeOK,
                Standing, Rejects
    <3>2. \A r \in Reqs : io'[r] = "pending" <=> r \in Waiting'
      BY <2>1, <3>1 DEF IInv, Placed, Gives, Waiting, Listed
    <3>3. begun' \cap Listed' = {} /\ ToSet(serverPort') \cap (current' \cup dropped') = {}
         /\ current' \cap dropped' = {}
         /\ \A l \in {readList', writeList', orphanList', serverPort'} : IsInjective(l)
      BY <1>2, <2>1, PlacesApart DEF Deliver, Goto, hw, hist, IInv, Placed, Listed, Gives
    <3> QED
      BY <3>2, <3>3 DEF Placed
  <2>5. Sorted'
    BY <1>2, <2>1
       DEF Deliver, Goto, hw, hist, IInv, TypeOK, DeviceTypeOK, Sorted, Packet, Control, Gives
  <2>6. Standing'
    BY <1>2, <2>1
       DEF Deliver, Goto, hw, hist, IInv, TypeOK, DeviceTypeOK, ServerTypeOK, Standing,
              Rejects, Sorted, Control
  <2>7. Latecomers'
    BY <1>2, <2>1
       DEF Deliver, Goto, hw, hist, IInv, TypeOK, Latecomers, BegunFor, Standing, Rejects
  <2> QED
    BY <2>2, <2>3, <2>4, <2>5, <2>6, <2>7 DEF IInv, TypeOK
<1> QED
  BY <1>1, <1>2 DEF Deliver

\* The frame goes to who reads the rest.
LEMMA DeliverOrphanSound ==
  ASSUME IInv, DeliverOrphan
  PROVE  IInv'
<1>1. CASE orphanList # <<>> /\ ReadFrame(Head(orphanList)) /\ orphanList' = Tail(orphanList)
  <2>1. /\ Head(orphanList) \in Reqs \cap ToSet(orphanList) /\ orphanList' \in Seq(Reqs)
       /\ ToSet(orphanList') = ToSet(orphanList) \ {Head(orphanList)}
       /\ IsInjective(orphanList')
    BY <1>1, ListTail
       DEF DeliverOrphan, Delivered, hw, hist, IInv, TypeOK, DeviceTypeOK, Placed
  <2>2. Gives({Head(orphanList)}, {"ok", "error"})
    BY <1>1, <2>1, ReadGives DEF DeliverOrphan, Delivered, hw, hist, IInv
  <2>3. DeviceTypeOK'
    BY <1>1, <2>1, <2>2
       DEF DeliverOrphan, Delivered, hw, hist, IInv, TypeOK, DeviceTypeOK, Gives
  <2>4. ServerTypeOK'
    BY <1>1, <2>1, <2>2
       DEF DeliverOrphan, Delivered, hw, hist, IInv, TypeOK, ServerTypeOK, ServerPcs,
              DeviceTypeOK
  <2>5. Placed'
    <3>1. Waiting' = Waiting \ ({Head(orphanList)} \cup (eventList \ eventList'))
      BY <1>1, <2>1, <2>2, PlacesApart
         DEF DeliverOrphan, Delivered, hw, hist, IInv, Waiting, Listed, Gives, TypeOK,
                DeviceTypeOK, Standing, Rejects
    <3>2. \A r \in Reqs : io'[r] = "pending" <=> r \in Waiting'
      BY <2>2, <3>1 DEF IInv, Placed, Gives, Waiting, Listed
    <3>3. begun' \cap Listed' = {} /\ ToSet(serverPort') \cap (current' \cup dropped') = {}
         /\ current' \cap dropped' = {}
         /\ \A l \in {readList', writeList', orphanList', serverPort'} : IsInjective(l)
      BY <1>1, <2>1, <2>2, PlacesApart
         DEF DeliverOrphan, Delivered, hw, hist, IInv, Placed, Listed, Gives
    <3> QED
      BY <3>2, <3>3 DEF Placed
  <2>6. Sorted'
    BY <1>1, <2>1, <2>2
       DEF DeliverOrphan, Delivered, hw, hist, IInv, TypeOK, DeviceTypeOK, Sorted, Packet,
              Control, Gives
  <2>7. Standing'
    BY <1>1, <2>1, <2>2
       DEF DeliverOrphan, Delivered, hw, hist, IInv, TypeOK, DeviceTypeOK, ServerTypeOK,
              Standing, Rejects, Sorted, Control
  <2>8. Latecomers'
    BY <1>1, <2>1, <2>2
       DEF DeliverOrphan, Delivered, hw, hist, IInv, TypeOK, Latecomers, BegunFor, Standing,
              Rejects
  <2> QED
    BY <2>3, <2>4, <2>5, <2>6, <2>7, <2>8 DEF IInv, TypeOK
<1>2. CASE UNCHANGED <<io, eventList, orphanList>>
  <2>1. Gives({}, {"ok"})
    BY <1>2, NothingGiven DEF DeliverOrphan, Delivered, hw, hist, IInv
  <2>2. DeviceTypeOK'
    BY <1>2, <2>1 DEF DeliverOrphan, Delivered, hw, hist, IInv, TypeOK, DeviceTypeOK, Gives
  <2>3. ServerTypeOK'
    BY <1>2, <2>1
       DEF DeliverOrphan, Delivered, hw, hist, IInv, TypeOK, ServerTypeOK, ServerPcs,
              DeviceTypeOK
  <2>4. Placed'
    <3>1. Waiting' = Waiting \ ({} \cup (eventList \ eventList'))
      BY <1>2, <2>1, PlacesApart
         DEF DeliverOrphan, Delivered, hw, hist, IInv, Waiting, Listed, Gives, TypeOK,
                DeviceTypeOK, Standing, Rejects
    <3>2. \A r \in Reqs : io'[r] = "pending" <=> r \in Waiting'
      BY <2>1, <3>1 DEF IInv, Placed, Gives, Waiting, Listed
    <3>3. begun' \cap Listed' = {} /\ ToSet(serverPort') \cap (current' \cup dropped') = {}
         /\ current' \cap dropped' = {}
         /\ \A l \in {readList', writeList', orphanList', serverPort'} : IsInjective(l)
      BY <1>2, <2>1, PlacesApart
         DEF DeliverOrphan, Delivered, hw, hist, IInv, Placed, Listed, Gives
    <3> QED
      BY <3>2, <3>3 DEF Placed
  <2>5. Sorted'
    BY <1>2, <2>1
       DEF DeliverOrphan, Delivered, hw, hist, IInv, TypeOK, DeviceTypeOK, Sorted, Packet,
              Control, Gives
  <2>6. Standing'
    BY <1>2, <2>1
       DEF DeliverOrphan, Delivered, hw, hist, IInv, TypeOK, DeviceTypeOK, ServerTypeOK,
              Standing, Rejects, Sorted, Control
  <2>7. Latecomers'
    BY <1>2, <2>1
       DEF DeliverOrphan, Delivered, hw, hist, IInv, TypeOK, Latecomers, BegunFor, Standing,
              Rejects
  <2> QED
    BY <2>2, <2>3, <2>4, <2>5, <2>6, <2>7 DEF IInv, TypeOK
<1> QED
  BY <1>1, <1>2 DEF DeliverOrphan

\* The server sends only with a frame in the list.
LEMMA NextWriteSound ==
  ASSUME IInv, NextWrite
  PROVE  IInv'
<1>1. TypeOK'
  BY
     DEF NextWrite, Goto, deviceVars, hist, hw, lists, IInv, TypeOK, DeviceTypeOK,
            ServerTypeOK, ServerPcs, Results, Signals
<1>2. Placed'
  BY
     DEF NextWrite, Goto, deviceVars, hist, hw, lists, IInv, TypeOK, DeviceTypeOK,
            ServerTypeOK, Placed, Waiting, Listed, Sorted, Standing, Rejects
<1>3. Sorted'
  BY
     DEF NextWrite, Goto, deviceVars, hist, hw, lists, IInv, TypeOK, DeviceTypeOK, Sorted,
            Packet, Control
<1>4. Standing'
  BY
     DEF NextWrite, Goto, deviceVars, hist, hw, lists, IInv, TypeOK, DeviceTypeOK,
            ServerTypeOK, Standing, Rejects, Sorted, Placed, Control
<1>5. Latecomers'
  BY
     DEF NextWrite, Goto, deviceVars, hist, hw, lists, IInv, TypeOK, Latecomers, BegunFor,
            Standing, Rejects
<1> QED
  BY <1>1, <1>2, <1>3, <1>4, <1>5 DEF IInv

\* The frame is sent or not, its request answered.
LEMMA SendFrameSound ==
  ASSUME IInv, SendFrame
  PROVE  IInv'
<1>1. /\ Head(writeList) \in Reqs \cap ToSet(writeList) /\ writeList' \in Seq(Reqs)
       /\ ToSet(writeList') = ToSet(writeList) \ {Head(writeList)} /\ IsInjective(writeList')
  BY ListTail DEF SendFrame, Goto, hist, hw, IInv, TypeOK, DeviceTypeOK, Placed, Standing
<1>2. Gives({Head(writeList)}, {"ok", "error"})
  <2>1. Gives({Head(writeList)}, {"ok"}) \/ Gives({Head(writeList)}, {"error"})
    BY <1>1, AnswerGives DEF SendFrame, Sent, IInv, Results
  <2> QED
    BY <2>1 DEF Gives
<1>3. TypeOK'
  BY <1>1, <1>2
     DEF SendFrame, Goto, hist, hw, IInv, TypeOK, DeviceTypeOK, ServerTypeOK, ServerPcs,
            Results, Signals, Gives
<1>4. Placed'
  <2>1. Waiting' = Waiting \ ({Head(writeList)} \cup (eventList \ eventList'))
    BY <1>1, <1>2, PlacesApart
       DEF SendFrame, Goto, hist, hw, IInv, Waiting, Listed, Gives, TypeOK, DeviceTypeOK,
              Standing, Rejects
  <2>2. \A r \in Reqs : io'[r] = "pending" <=> r \in Waiting'
    BY <1>2, <2>1 DEF IInv, Placed, Gives, Waiting, Listed
  <2>3. begun' \cap Listed' = {} /\ ToSet(serverPort') \cap (current' \cup dropped') = {}
       /\ current' \cap dropped' = {}
       /\ \A l \in {readList', writeList', orphanList', serverPort'} : IsInjective(l)
    BY <1>1, <1>2 DEF SendFrame, Goto, hist, hw, IInv, Placed, Listed, Gives
  <2> QED
    BY <2>2, <2>3 DEF Placed
<1>5. Sorted'
  BY <1>1, <1>2
     DEF SendFrame, Goto, hist, hw, IInv, TypeOK, DeviceTypeOK, Sorted, Packet, Control, Gives
<1>6. Standing'
  BY <1>1, <1>2
     DEF SendFrame, Goto, hist, hw, IInv, TypeOK, DeviceTypeOK, ServerTypeOK, Standing,
            Rejects, Sorted, Placed, Control
<1>7. Latecomers'
  BY <1>1, <1>2
     DEF SendFrame, Goto, hist, hw, IInv, TypeOK, Latecomers, BegunFor, Standing, Rejects
<1> QED
  BY <1>3, <1>4, <1>5, <1>6, <1>7 DEF IInv

\* The port is empty.
LEMMA PortEmptySound ==
  ASSUME IInv, PortEmpty
  PROVE  IInv'
<1>1. TypeOK'
  BY
     DEF PortEmpty, Goto, deviceVars, hist, hw, lists, IInv, TypeOK, DeviceTypeOK,
            ServerTypeOK, ServerPcs, Results, Signals
<1>2. Placed'
  BY
     DEF PortEmpty, Goto, deviceVars, hist, hw, lists, IInv, TypeOK, DeviceTypeOK,
            ServerTypeOK, Placed, Waiting, Listed, Sorted, Standing, Rejects
<1>3. Sorted'
  BY
     DEF PortEmpty, Goto, deviceVars, hist, hw, lists, IInv, TypeOK, DeviceTypeOK, Sorted,
            Packet, Control
<1>4. Standing'
  BY
     DEF PortEmpty, Goto, deviceVars, hist, hw, lists, IInv, TypeOK, DeviceTypeOK,
            ServerTypeOK, Standing, Rejects, Sorted, Placed, Control
<1>5. Latecomers'
  BY
     DEF PortEmpty, Goto, deviceVars, hist, hw, lists, IInv, TypeOK, Latecomers, BegunFor,
            Standing, Rejects
<1> QED
  BY <1>1, <1>2, <1>3, <1>4, <1>5 DEF IInv

\* A request is dropped: it waits for ever, in no list.
LEMMA DropRequestSound ==
  ASSUME IInv, DropRequest
  PROVE  IInv'
<1>1. /\ Head(serverPort) \in Reqs \cap ToSet(serverPort) /\ serverPort' \in Seq(Reqs)
       /\ ToSet(serverPort') = ToSet(serverPort) \ {Head(serverPort)} /\ IsInjective(serverPort')
  BY ListTail DEF DropRequest, Goto, hw, IInv, TypeOK, DeviceTypeOK, Placed, Standing
<1>2. TypeOK'
  BY <1>1
     DEF DropRequest, Goto, hw, IInv, TypeOK, DeviceTypeOK, ServerTypeOK, ServerPcs, Results,
            Signals
<1>3. Placed'
  BY <1>1
     DEF DropRequest, Goto, hw, IInv, TypeOK, DeviceTypeOK, ServerTypeOK, Placed, Waiting,
            Listed, Sorted, Standing, Rejects
<1>4. Sorted'
  BY <1>1 DEF DropRequest, Goto, hw, IInv, TypeOK, DeviceTypeOK, Sorted, Packet, Control
<1>5. Standing'
  BY <1>1
     DEF DropRequest, Goto, hw, IInv, TypeOK, DeviceTypeOK, ServerTypeOK, Standing, Rejects,
            Sorted, Placed, Control
<1>6. Latecomers'
  BY <1>1 DEF DropRequest, Goto, hw, IInv, TypeOK, Latecomers, BegunFor, Standing, Rejects
<1> QED
  BY <1>2, <1>3, <1>4, <1>5, <1>6 DEF IInv

\* A request for the line is taken from the port and answered or worked on.
LEMMA TakeRequestSound ==
  ASSUME IInv, TakeRequest
  PROVE  IInv'
<1>1. CASE Answer({Head(serverPort)}, "ok", {}) /\ Goto("port")
  <2>1. /\ Head(serverPort) \in Reqs \cap ToSet(serverPort) /\ serverPort' \in Seq(Reqs)
       /\ ToSet(serverPort') = ToSet(serverPort) \ {Head(serverPort)} /\ IsInjective(serverPort')
    BY <1>1, ListTail
       DEF TakeRequest, Goto, hw, hist, IInv, TypeOK, DeviceTypeOK, Placed, Standing
  <2>2. Gives({Head(serverPort)}, {"ok"})
    BY <1>1, <2>1, AnswerGives DEF TakeRequest, Goto, hw, hist, IInv, Results
  <2>3. DeviceTypeOK'
    BY <1>1, <2>1, <2>2 DEF TakeRequest, Goto, hw, hist, IInv, TypeOK, DeviceTypeOK, Gives
  <2>4. ServerTypeOK'
    BY <1>1, <2>1, <2>2
       DEF TakeRequest, Goto, hw, hist, IInv, TypeOK, ServerTypeOK, ServerPcs, DeviceTypeOK
  <2>5. Placed'
    <3>1. Waiting' = Waiting \ ({Head(serverPort)} \cup (eventList \ eventList'))
      BY <1>1, <2>1, <2>2, PlacesApart
         DEF TakeRequest, Goto, hw, hist, IInv, Waiting, Listed, Gives, TypeOK, DeviceTypeOK,
                Standing, Rejects
    <3>2. \A r \in Reqs : io'[r] = "pending" <=> r \in Waiting'
      BY <2>2, <3>1 DEF IInv, Placed, Gives, Waiting, Listed
    <3>3. begun' \cap Listed' = {} /\ ToSet(serverPort') \cap (current' \cup dropped') = {}
         /\ current' \cap dropped' = {}
         /\ \A l \in {readList', writeList', orphanList', serverPort'} : IsInjective(l)
      BY <1>1, <2>1, <2>2, PlacesApart
         DEF TakeRequest, Goto, hw, hist, IInv, Placed, Listed, Gives
    <3> QED
      BY <3>2, <3>3 DEF Placed
  <2>6. Sorted'
    BY <1>1, <2>1, <2>2
       DEF TakeRequest, Goto, hw, hist, IInv, TypeOK, DeviceTypeOK, Sorted, Packet, Control,
              Gives
  <2>7. Standing'
    BY <1>1, <2>1, <2>2
       DEF TakeRequest, Goto, hw, hist, IInv, TypeOK, DeviceTypeOK, ServerTypeOK, Standing,
              Rejects, Sorted, Control
  <2>8. Latecomers'
    BY <1>1, <2>1, <2>2
       DEF TakeRequest, Goto, hw, hist, IInv, TypeOK, Latecomers, BegunFor, Standing, Rejects
  <2> QED
    BY <2>3, <2>4, <2>5, <2>6, <2>7, <2>8 DEF IInv, TypeOK
<1>2. CASE /\ Cmd[Head(serverPort)] # "online" \/ offline
           /\ spc' = IF Cmd[Head(serverPort)] = "offline" THEN (IF offline THEN "reject_w" ELSE "detach")
                     ELSE (IF offline THEN "attach" ELSE "detach")
           /\ current' = {Head(serverPort)}
           /\ UNCHANGED <<io, eventList, portSeen, inFrame>>
  <2>1. /\ Head(serverPort) \in Reqs \cap ToSet(serverPort) /\ serverPort' \in Seq(Reqs)
       /\ ToSet(serverPort') = ToSet(serverPort) \ {Head(serverPort)} /\ IsInjective(serverPort')
    BY <1>2, ListTail DEF TakeRequest, hw, hist, IInv, TypeOK, DeviceTypeOK, Placed, Standing
  <2>2. Gives({}, {"ok"})
    BY <1>2, <2>1, NothingGiven DEF TakeRequest, hw, hist, IInv
  <2>3. DeviceTypeOK'
    BY <1>2, <2>1, <2>2 DEF TakeRequest, hw, hist, IInv, TypeOK, DeviceTypeOK, Gives
  <2>4. ServerTypeOK'
    BY <1>2, <2>1, <2>2
       DEF TakeRequest, hw, hist, IInv, TypeOK, ServerTypeOK, ServerPcs, DeviceTypeOK
  <2>5. Placed'
    <3>1. Waiting' = Waiting \ ({} \cup (eventList \ eventList'))
      BY <1>2, <2>1, <2>2, PlacesApart
         DEF TakeRequest, hw, hist, IInv, Waiting, Listed, Gives, TypeOK, DeviceTypeOK,
                Standing, Rejects
    <3>2. \A r \in Reqs : io'[r] = "pending" <=> r \in Waiting'
      BY <2>2, <3>1 DEF IInv, Placed, Gives, Waiting, Listed
    <3>3. begun' \cap Listed' = {} /\ ToSet(serverPort') \cap (current' \cup dropped') = {}
         /\ current' \cap dropped' = {}
         /\ \A l \in {readList', writeList', orphanList', serverPort'} : IsInjective(l)
      BY <1>2, <2>1, <2>2, PlacesApart DEF TakeRequest, hw, hist, IInv, Placed, Listed, Gives
    <3> QED
      BY <3>2, <3>3 DEF Placed
  <2>6. Sorted'
    BY <1>2, <2>1, <2>2
       DEF TakeRequest, hw, hist, IInv, TypeOK, DeviceTypeOK, Sorted, Packet, Control, Gives
  <2>7. Standing'
    BY <1>2, <2>1, <2>2
       DEF TakeRequest, hw, hist, IInv, TypeOK, DeviceTypeOK, ServerTypeOK, Standing,
              Rejects, Sorted, Control
  <2>8. Latecomers'
    BY <1>2, <2>1, <2>2
       DEF TakeRequest, hw, hist, IInv, TypeOK, Latecomers, BegunFor, Standing, Rejects
  <2> QED
    BY <2>3, <2>4, <2>5, <2>6, <2>7, <2>8 DEF IInv, TypeOK
<1> QED
  BY <1>1, <1>2 DEF TakeRequest

\* Going online is answered.
LEMMA AttachSound ==
  ASSUME IInv, Attach
  PROVE  IInv'
<1>1. Gives(current, {"ok"}) \/ Gives(current, {"error"})
  BY AnswerGives DEF Attach, Finish, hist, IInv, TypeOK, ServerTypeOK, Results
<1>2. TypeOK'
  BY <1>1
     DEF Attach, Finish, hist, IInv, TypeOK, DeviceTypeOK, ServerTypeOK, ServerPcs, Results,
            Signals, Gives
<1>3. Placed'
  <2>1. Waiting' = Waiting \ (current \cup (eventList \ eventList'))
    BY <1>1, PlacesApart
       DEF Attach, Finish, hist, IInv, Waiting, Listed, Gives, TypeOK, DeviceTypeOK,
              Standing, Rejects
  <2>2. \A r \in Reqs : io'[r] = "pending" <=> r \in Waiting'
    BY <1>1, <2>1 DEF IInv, Placed, Gives, Waiting, Listed
  <2>3. begun' \cap Listed' = {} /\ ToSet(serverPort') \cap (current' \cup dropped') = {}
       /\ current' \cap dropped' = {}
       /\ \A l \in {readList', writeList', orphanList', serverPort'} : IsInjective(l)
    BY <1>1 DEF Attach, Finish, hist, IInv, Placed, Listed, Gives
  <2> QED
    BY <2>2, <2>3 DEF Placed
<1>4. Sorted'
  BY <1>1 DEF Attach, Finish, hist, IInv, TypeOK, DeviceTypeOK, Sorted, Packet, Control, Gives
<1>5. Standing'
  BY <1>1
     DEF Attach, Finish, hist, IInv, TypeOK, DeviceTypeOK, ServerTypeOK, Standing, Rejects,
            Sorted, Placed, Control
<1>6. Latecomers'
  BY <1>1 DEF Attach, Finish, hist, IInv, TypeOK, Latecomers, BegunFor, Standing, Rejects
<1> QED
  BY <1>2, <1>3, <1>4, <1>5, <1>6 DEF IInv

\* Going offline, before the answer.
LEMMA DetachSound ==
  ASSUME IInv, Detach
  PROVE  IInv'
<1>1. Gives({}, {"ok"})
  BY AnswerGives DEF Detach, Goto, hist, IInv, Results
<1>2. TypeOK'
  BY <1>1
     DEF Detach, Goto, hist, IInv, TypeOK, DeviceTypeOK, ServerTypeOK, ServerPcs, Results,
            Signals, Gives
<1>3. Placed'
  <2>1. Waiting' = Waiting \ ({} \cup (eventList \ eventList'))
    BY <1>1, PlacesApart
       DEF Detach, Goto, hist, IInv, Waiting, Listed, Gives, TypeOK, DeviceTypeOK, Standing,
              Rejects
  <2>2. \A r \in Reqs : io'[r] = "pending" <=> r \in Waiting'
    BY <1>1, <2>1 DEF IInv, Placed, Gives, Waiting, Listed
  <2>3. begun' \cap Listed' = {} /\ ToSet(serverPort') \cap (current' \cup dropped') = {}
       /\ current' \cap dropped' = {}
       /\ \A l \in {readList', writeList', orphanList', serverPort'} : IsInjective(l)
    BY <1>1 DEF Detach, Goto, hist, IInv, Placed, Listed, Gives
  <2> QED
    BY <2>2, <2>3 DEF Placed
<1>4. Sorted'
  BY <1>1 DEF Detach, Goto, hist, IInv, TypeOK, DeviceTypeOK, Sorted, Packet, Control, Gives
<1>5. Standing'
  BY <1>1
     DEF Detach, Goto, hist, IInv, TypeOK, DeviceTypeOK, ServerTypeOK, Standing, Rejects,
            Sorted, Placed, Control
<1>6. Latecomers'
  BY <1>1 DEF Detach, Goto, hist, IInv, TypeOK, Latecomers, BegunFor, Standing, Rejects
<1> QED
  BY <1>2, <1>3, <1>4, <1>5, <1>6 DEF IInv

\* The writes are rejected; those begun come late.
LEMMA RejectWritesSound ==
  ASSUME IInv, RejectWrites
  PROVE  IInv'
<1>1. writeList' \in Seq(Reqs) /\ ToSet(writeList') = {} /\ IsInjective(writeList')
  BY ListEmpty DEF RejectWrites, Reject, Term, Goto, hw
<1>2. Gives(ToSet(writeList), {"outofservice"})
  BY <1>1, TermGives
     DEF RejectWrites, Reject, Term, Goto, hw, IInv, Results, Sorted, TypeOK, DeviceTypeOK,
            ToSet
<1>3. TypeOK'
  <2>1. DeviceTypeOK'
    BY <1>1, <1>2 DEF RejectWrites, Reject, Goto, hw, IInv, TypeOK, DeviceTypeOK, Gives
  <2>2. ServerTypeOK'
    BY <1>1, <1>2
       DEF RejectWrites, Reject, Goto, hw, IInv, TypeOK, DeviceTypeOK, ServerTypeOK,
              ServerPcs, BegunFor
  <2> QED
    BY <2>1, <2>2 DEF TypeOK
<1>4. Placed'
  <2>1. Waiting' = Waiting \ (ToSet(writeList) \cup (eventList \ eventList'))
    BY <1>1, <1>2, PlacesApart
       DEF RejectWrites, Reject, Goto, hw, IInv, Waiting, Listed, Gives, TypeOK,
              DeviceTypeOK, Standing, Rejects
  <2>2. \A r \in Reqs : io'[r] = "pending" <=> r \in Waiting'
    BY <1>2, <2>1 DEF IInv, Placed, Gives, Waiting, Listed
  <2>3. begun' \cap Listed' = {} /\ ToSet(serverPort') \cap (current' \cup dropped') = {}
       /\ current' \cap dropped' = {}
       /\ \A l \in {readList', writeList', orphanList', serverPort'} : IsInjective(l)
    BY <1>1, <1>2 DEF RejectWrites, Reject, Goto, hw, IInv, Placed, Listed, Gives
  <2> QED
    BY <2>2, <2>3 DEF Placed
<1>5. Sorted'
  BY <1>1, <1>2
     DEF RejectWrites, Reject, Goto, hw, IInv, TypeOK, DeviceTypeOK, Sorted, Packet, Control,
            Gives
<1>6. Standing'
  BY <1>1, <1>2
     DEF RejectWrites, Reject, Goto, hw, IInv, TypeOK, DeviceTypeOK, ServerTypeOK, Standing,
            Rejects, Sorted, Placed, Control
<1>7. Latecomers'
  BY <1>1, <1>2
     DEF RejectWrites, Reject, Goto, hw, IInv, TypeOK, Latecomers, BegunFor, Standing, Rejects
<1> QED
  BY <1>3, <1>4, <1>5, <1>6, <1>7 DEF IInv

\* So are the reads.
LEMMA RejectReadsSound ==
  ASSUME IInv, RejectReads
  PROVE  IInv'
<1>1. readList' \in Seq(Reqs) /\ ToSet(readList') = {} /\ IsInjective(readList')
  BY ListEmpty DEF RejectReads, Reject, Term, Goto, hw
<1>2. Gives(ToSet(readList), {"outofservice"})
  BY <1>1, TermGives
     DEF RejectReads, Reject, Term, Goto, hw, IInv, Results, TypeOK, DeviceTypeOK, ToSet
<1>3. TypeOK'
  <2>1. DeviceTypeOK'
    BY <1>1, <1>2 DEF RejectReads, Reject, Goto, hw, IInv, TypeOK, DeviceTypeOK, Gives
  <2>2. ServerTypeOK'
    BY <1>1, <1>2
       DEF RejectReads, Reject, Goto, hw, IInv, TypeOK, DeviceTypeOK, ServerTypeOK,
              ServerPcs, BegunFor
  <2> QED
    BY <2>1, <2>2 DEF TypeOK
<1>4. Placed'
  <2>1. Waiting' = Waiting \ (ToSet(readList) \cup (eventList \ eventList'))
    BY <1>1, <1>2, PlacesApart
       DEF RejectReads, Reject, Goto, hw, IInv, Waiting, Listed, Gives, TypeOK, DeviceTypeOK,
              Standing, Rejects
  <2>2. \A r \in Reqs : io'[r] = "pending" <=> r \in Waiting'
    BY <1>2, <2>1 DEF IInv, Placed, Gives, Waiting, Listed
  <2>3. begun' \cap Listed' = {} /\ ToSet(serverPort') \cap (current' \cup dropped') = {}
       /\ current' \cap dropped' = {}
       /\ \A l \in {readList', writeList', orphanList', serverPort'} : IsInjective(l)
    BY <1>1, <1>2 DEF RejectReads, Reject, Goto, hw, IInv, Placed, Listed, Gives
  <2> QED
    BY <2>2, <2>3 DEF Placed
<1>5. Sorted'
  BY <1>1, <1>2
     DEF RejectReads, Reject, Goto, hw, IInv, TypeOK, DeviceTypeOK, Sorted, Packet, Control,
            Gives
<1>6. Standing'
  BY <1>1, <1>2
     DEF RejectReads, Reject, Goto, hw, IInv, TypeOK, DeviceTypeOK, ServerTypeOK, Standing,
            Rejects, Sorted, Placed, Control
<1>7. Latecomers'
  BY <1>1, <1>2
     DEF RejectReads, Reject, Goto, hw, IInv, TypeOK, Latecomers, BegunFor, Standing, Rejects
<1> QED
  BY <1>3, <1>4, <1>5, <1>6, <1>7 DEF IInv

\* And the rest, and S2_OFFLINE is answered.
LEMMA RejectOrphansSound ==
  ASSUME IInv, RejectOrphans
  PROVE  IInv'
<1>1. orphanList' \in Seq(Reqs) /\ ToSet(orphanList') = {} /\ IsInjective(orphanList')
  BY ListEmpty DEF RejectOrphans, hw
<1>2. Gives(current \cup ToSet(orphanList), {"ok", "outofservice"})
  BY <1>1 DEF RejectOrphans, hw, IInv, TypeOK, DeviceTypeOK, ServerTypeOK, Results, Gives
<1>3. TypeOK'
  <2>1. DeviceTypeOK'
    BY <1>1, <1>2 DEF RejectOrphans, hw, IInv, TypeOK, DeviceTypeOK, Gives
  <2>2. ServerTypeOK'
    BY <1>1, <1>2
       DEF RejectOrphans, hw, IInv, TypeOK, DeviceTypeOK, ServerTypeOK, ServerPcs, BegunFor
  <2> QED
    BY <2>1, <2>2 DEF TypeOK
<1>4. Placed'
  <2>1. Waiting' = Waiting \ ((current \cup ToSet(orphanList)) \cup (eventList \ eventList'))
    BY <1>1, <1>2, PlacesApart
       DEF RejectOrphans, hw, IInv, Waiting, Listed, Gives, TypeOK, DeviceTypeOK, Standing,
              Rejects
  <2>2. \A r \in Reqs : io'[r] = "pending" <=> r \in Waiting'
    BY <1>2, <2>1 DEF IInv, Placed, Gives, Waiting, Listed
  <2>3. begun' \cap Listed' = {} /\ ToSet(serverPort') \cap (current' \cup dropped') = {}
       /\ current' \cap dropped' = {}
       /\ \A l \in {readList', writeList', orphanList', serverPort'} : IsInjective(l)
    BY <1>1, <1>2 DEF RejectOrphans, hw, IInv, Placed, Listed, Gives
  <2> QED
    BY <2>2, <2>3 DEF Placed
<1>5. Sorted'
  BY <1>1, <1>2
     DEF RejectOrphans, hw, IInv, TypeOK, DeviceTypeOK, Sorted, Packet, Control, Gives
<1>6. Standing'
  BY <1>1, <1>2
     DEF RejectOrphans, hw, IInv, TypeOK, DeviceTypeOK, ServerTypeOK, Standing, Rejects,
            Sorted, Placed, Control
<1>7. Latecomers'
  BY <1>1, <1>2 DEF RejectOrphans, hw, IInv, TypeOK, Latecomers, BegunFor, Standing, Rejects
<1> QED
  BY <1>3, <1>4, <1>5, <1>6, <1>7 DEF IInv

----------------------------------------------------------------------------
(* The promise of SanaService, and the end of a rejection *)

\* What a step answers fits the command and the line; a request for S2_OFFLINE is answered
\* when the lists are left to the late comers.
Fitting ==
  \A r \in Reqs : io'[r] # io[r] =>
    \/ io[r] = "unused" /\ io'[r] = "pending"
    \/ io[r] \in {"unused", "pending"} /\ io'[r] \in Promise!Allowed(Cmd[r], Line')
LineAsked ==
  Line' # Line => \E r \in Reqs : Cmd[r] \in Promise!Control /\ io[r] = "pending"
OfflineLast ==
  \A r \in Reqs : Cmd[r] = "offline" /\ io[r] = "pending" /\ io'[r] = "ok" =>
    (Listed' \ eventList') \subseteq late'
Keeps == Fitting /\ LineAsked /\ OfflineLast

\* An answer that fits all it goes to is an answer that fits; the events fit.
LEMMA GivesFitting ==
  ASSUME IInv, NEW S \in SUBSET Reqs, NEW results, Gives(S, results),
         \A r \in S : /\ io[r] \in {"unused", "pending"}
                      /\ results \subseteq Promise!Allowed(Cmd[r], Line')
                      /\ Cmd[r] = "offline" => "ok" \notin results
  PROVE  Fitting /\ OfflineLast
<1>1. \A r \in eventList : Cmd[r] = "event" /\ io[r] = "pending" /\ r \in Reqs
  BY DEF IInv, Sorted, Placed, Waiting, Listed, TypeOK, DeviceTypeOK
<1>2. "ok" \in Promise!Allowed("event", Line')
  BY DEF Promise!Allowed, Promise!Packet
<1>3. Fitting
  BY <1>1, <1>2 DEF Gives, Fitting
<1>4. OfflineLast
  BY <1>1 DEF Gives, OfflineLast
<1> QED
  BY <1>3, <1>4

\* With one request that is answered.
LEMMA OneFitting ==
  ASSUME IInv, NEW r \in Reqs, NEW results, Gives({r}, results),
         io[r] \in {"unused", "pending"}, results \subseteq Promise!Allowed(Cmd[r], Line'),
         Cmd[r] # "offline" \/ "ok" \notin results
  PROVE  Fitting /\ OfflineLast
<1>1. {r} \in SUBSET Reqs
  OBVIOUS
<1> QED
  BY <1>1, GivesFitting

\* Where nothing is answered there is nothing to fit.
LEMMA SilentFitting ==
  ASSUME UNCHANGED io
  PROVE  Fitting /\ OfflineLast
  BY DEF Fitting, OfflineLast

\* The results of packets, of requests for the line, and of waiting for an event.
LEMMA AllowedResults ==
  /\ \A m : \A c \in Packet : {"error", "aborted"} \subseteq Promise!Allowed(c, m)
  /\ \A m : \A c \in Packet : m # "online" => "outofservice" \in Promise!Allowed(c, m)
  /\ \A m : \A c \in Packet : m # "offline" => "ok" \in Promise!Allowed(c, m)
  /\ \A c \in {"online", "config"} : "ok" \in Promise!Allowed(c, "online")
  /\ \A m : \A c \in {"online", "config"} : m # "online" => "error" \in Promise!Allowed(c, m)
  /\ \A m : m # "online" => "ok" \in Promise!Allowed("offline", m)
  /\ \A m : {"ok", "aborted"} \subseteq Promise!Allowed("event", m)
<1>1. Promise!Packet = {"read", "write", "orphan"} /\ Packet = {"read", "write", "orphan"}
  BY DEF Promise!Packet, Packet
<1> QED
  BY <1>1 DEF Promise!Allowed

\* Every step keeps the promise.
LEMMA StepKeeps ==
  ASSUME IInv, Next
  PROVE  Keeps
<1>1. ASSUME NEW r \in Reqs, Refuse(r), UNCHANGED serverVars PROVE Keeps
  <2>1. PICK bad \in BOOLEAN : /\ bad => r \in Bad
                               /\ Refusal(r, bad) # "none" /\ Term({r}, Refusal(r, bad))
    BY <1>1 DEF Refuse
  <2>2. Refusal(r, bad) \in {"outofservice", "error"}
        /\ (Refusal(r, bad) = "outofservice" => Line # "online") /\ Line' = Line
    BY <1>1, <2>1 DEF Refuse, Refusal, Line, serverVars
  <2>3. Gives({r}, {Refusal(r, bad)})
    BY <1>1, <2>1, <2>2, TermGives DEF Refuse, lists, IInv, Results
  <2>4. io[r] = "unused" /\ Cmd[r] \in Packet /\ Cmd[r] # "offline"
    BY <1>1 DEF Refuse, Packet
  <2>5. {Refusal(r, bad)} \subseteq Promise!Allowed(Cmd[r], Line')
    BY <2>2, <2>4, AllowedResults
  <2> QED
    BY <2>2, <2>3, <2>4, <2>5, OneFitting DEF Keeps, LineAsked, Packet
<1>2. ASSUME NEW r \in Reqs, Pass(r), UNCHANGED serverVars PROVE Keeps
  BY <1>2 DEF Pass, serverVars, lists, IInv, TypeOK, DeviceTypeOK, Keeps, Fitting, LineAsked,
           OfflineLast, Line
<1>3. ASSUME NEW r \in Reqs, QueueRead(r), UNCHANGED serverVars PROVE Keeps
    BY <1>3 DEF QueueRead, serverVars, lists, Keeps, Fitting, LineAsked, OfflineLast, Line
<1>4. ASSUME NEW r \in Reqs, QueueOrphan(r), UNCHANGED serverVars PROVE Keeps
    BY <1>4 DEF QueueOrphan, serverVars, lists, Keeps, Fitting, LineAsked, OfflineLast, Line
<1>5. ASSUME NEW r \in Reqs, QueueWrite(r), UNCHANGED serverVars PROVE Keeps
    BY <1>5 DEF QueueWrite, serverVars, lists, Keeps, Fitting, LineAsked, OfflineLast, Line
<1>6. ASSUME NEW r \in Reqs, OnEvent(r), UNCHANGED serverVars PROVE Keeps
  <2>1. /\ io[r] = "unused" /\ Cmd[r] = "event" /\ io'[r] \in {"ok", "pending"}
        /\ \A q \in Reqs \ {r} : io'[q] = io[q]
    BY <1>6 DEF OnEvent, IInv, TypeOK, DeviceTypeOK
  <2>2. Line' = Line
    BY <1>6 DEF OnEvent, serverVars, Line
  <2> QED
    BY <2>1, <2>2, AllowedResults DEF Keeps, Fitting, LineAsked, OfflineLast
<1>7. ASSUME NEW r \in Reqs, Forward(r), UNCHANGED serverVars PROVE Keeps
  BY <1>7 DEF Forward, serverVars, IInv, TypeOK, DeviceTypeOK, Keeps, Fitting, LineAsked,
           OfflineLast, Line
<1>8. ASSUME NEW r \in Reqs, Abort(r), UNCHANGED serverVars PROVE Keeps
  <2>1. Gives({r}, {"aborted"})
    BY <1>8, TermGives DEF Abort, IInv, TypeOK, DeviceTypeOK, Listed, Results
  <2>2. io[r] = "pending" /\ Cmd[r] \in Packet \cup {"event"}
    BY <1>8 DEF Abort, IInv, Placed, Sorted, Waiting, Listed, Packet
  <2>3. {"aborted"} \subseteq Promise!Allowed(Cmd[r], Line')
    BY <2>2, AllowedResults
  <2>4. LineAsked
    BY <1>8 DEF Abort, serverVars, LineAsked, Line
  <2> QED
    BY <2>1, <2>2, <2>3, <2>4, OneFitting DEF Keeps
<1>9. CASE Interrupt
    BY <1>9 DEF Interrupt, lists, hist, Keeps, Fitting, LineAsked, OfflineLast, Line
<1>10. CASE LoopHead
    BY <1>10
       DEF LoopHead, Goto, deviceVars, hist, hw, lists, Keeps, Fitting, LineAsked,
              OfflineLast, Line
<1>11. CASE Wait
    BY <1>11 DEF Wait, lists, hist, hw, Keeps, Fitting, LineAsked, OfflineLast, Line
<1>12. CASE CheckReceive
    BY <1>12
       DEF CheckReceive, Goto, deviceVars, hist, hw, lists, Keeps, Fitting, LineAsked,
              OfflineLast, Line
<1>13. CASE RecvFrame
  <2>1. Gives({}, {"ok"})
    BY <1>13, AnswerGives, NothingGiven DEF RecvFrame, hist, IInv, Results
  <2>2. \A q \in {} : /\ q \in Reqs /\ io[q] \in {"unused", "pending"}
               /\ {"ok"} \subseteq Promise!Allowed(Cmd[q], Line')
               /\ Cmd[q] = "offline" => "ok" \notin {"ok"}
    BY <1>13, AllowedResults DEF RecvFrame, hist
  <2>3. LineAsked
    BY <1>13 DEF RecvFrame, hist, LineAsked, Line
  <2> QED
    BY <2>1, <2>2, <2>3, GivesFitting DEF Keeps
<1>14. CASE Deliver
  <2>1. LineAsked
    BY <1>14 DEF Deliver, hw, LineAsked, Line
  <2>2. ASSUME NEW i \in Reader, ReadFrame(readList[i]) PROVE Fitting /\ OfflineLast
    <3>1. readList[i] \in Reqs \cap ToSet(readList)
      BY DEF Reader, ToSet, IInv, TypeOK, DeviceTypeOK
    <3>2. Gives({readList[i]}, {"ok", "error"})
      BY <2>2, <3>1, ReadGives DEF IInv
    <3>3. io[readList[i]] = "pending" /\ Cmd[readList[i]] = "read"
      BY <3>1 DEF IInv, Placed, Waiting, Listed, Sorted
    <3>4. Line' # "offline"
      BY <1>14 DEF Deliver, hw, IInv, Standing, Line
    <3>5. {"ok", "error"} \subseteq Promise!Allowed("read", Line')
      BY <3>4, AllowedResults DEF Packet
    <3> QED
      BY <3>1, <3>2, <3>3, <3>5, OneFitting
  <2>3. CASE UNCHANGED <<io, eventList, readList>>
    BY <2>1, <2>3, SilentFitting DEF Keeps
  <2> QED
    BY <1>14, <2>1, <2>2, <2>3 DEF Deliver, Keeps
<1>15. CASE DeliverOrphan
  <2>1. LineAsked
    BY <1>15 DEF DeliverOrphan, hw, LineAsked, Line
  <2>2. CASE orphanList # <<>> /\ ReadFrame(Head(orphanList))
    <3>1. Head(orphanList) \in Reqs \cap ToSet(orphanList)
      BY <2>2, ListTail DEF IInv, TypeOK, DeviceTypeOK, Placed
    <3>2. Gives({Head(orphanList)}, {"ok", "error"})
      BY <2>2, <3>1, ReadGives DEF IInv
    <3>3. io[Head(orphanList)] = "pending" /\ Cmd[Head(orphanList)] = "orphan"
      BY <3>1 DEF IInv, Placed, Waiting, Listed, Sorted
    <3>4. Line' # "offline"
      BY <1>15 DEF DeliverOrphan, hw, IInv, Standing, Line
    <3>5. {"ok", "error"} \subseteq Promise!Allowed("orphan", Line')
      BY <3>4, AllowedResults DEF Packet
    <3> QED
      BY <2>1, <3>1, <3>2, <3>3, <3>5, OneFitting DEF Keeps
  <2>3. CASE UNCHANGED <<io, eventList, orphanList>>
    BY <2>1, <2>3, SilentFitting DEF Keeps
  <2> QED
    BY <1>15, <2>1, <2>2, <2>3 DEF DeliverOrphan, Keeps
<1>16. CASE NextWrite
    BY <1>16
       DEF NextWrite, Goto, deviceVars, hist, hw, lists, Keeps, Fitting, LineAsked,
              OfflineLast, Line
<1>17. CASE SendFrame
  <2>1. LineAsked
    BY <1>17 DEF SendFrame, hw, LineAsked, Line
  <2>2. Head(writeList) \in Reqs \cap ToSet(writeList)
    BY <1>17, ListTail DEF SendFrame, IInv, TypeOK, DeviceTypeOK, Placed, Standing
  <2>3. io[Head(writeList)] = "pending" /\ Cmd[Head(writeList)] = "write"
    BY <2>2 DEF IInv, Placed, Waiting, Listed, Sorted
  <2>4. CASE owned = "all" /\ Answer({Head(writeList)}, "ok", {})
    <3>1. Gives({Head(writeList)}, {"ok"})
      BY <2>2, <2>4, AnswerGives DEF IInv, Results
    <3>2. Line' # "offline"
      BY <1>17, <2>4 DEF SendFrame, hw, Line
    <3>3. {"ok"} \subseteq Promise!Allowed("write", Line')
      BY <3>2, AllowedResults DEF Packet
    <3> QED
      BY <2>1, <2>2, <2>3, <3>1, <3>3, GivesFitting DEF Keeps
  <2>5. CASE Answer({Head(writeList)}, "error", {"error"})
    <3>1. Gives({Head(writeList)}, {"error"})
      BY <2>2, <2>5, AnswerGives DEF IInv, Results
    <3>2. {"error"} \subseteq Promise!Allowed("write", Line')
      BY AllowedResults DEF Packet
    <3> QED
      BY <2>1, <2>2, <2>3, <3>1, <3>2, GivesFitting DEF Keeps
  <2> QED
    BY <1>17, <2>4, <2>5 DEF SendFrame, Sent
<1>18. CASE PortEmpty
    BY <1>18
       DEF PortEmpty, Goto, deviceVars, hist, hw, lists, Keeps, Fitting, LineAsked,
              OfflineLast, Line
<1>19. CASE DropRequest
    BY <1>19 DEF DropRequest, Goto, hw, lists, Keeps, Fitting, LineAsked, OfflineLast, Line
<1>20. CASE TakeRequest
  <2>1. LineAsked
    BY <1>20 DEF TakeRequest, hw, LineAsked, Line
  <2>2. Head(serverPort) \in Reqs \cap ToSet(serverPort)
    BY <1>20, ListTail DEF TakeRequest, IInv, TypeOK, DeviceTypeOK, Placed
  <2>3. CASE /\ Cmd[Head(serverPort)] = "online" /\ ~offline
             /\ Answer({Head(serverPort)}, "ok", {})
    <3>1. Gives({Head(serverPort)}, {"ok"})
      BY <2>2, <2>3, AnswerGives DEF IInv, Results
    <3>2. io[Head(serverPort)] = "pending"
      BY <2>2 DEF IInv, Placed, Waiting
    <3>3. Line' = "online"
      BY <1>20, <2>3 DEF TakeRequest, Line
    <3>4. {"ok"} \subseteq Promise!Allowed("online", Line')
      BY <3>3, AllowedResults
    <3> QED
      BY <2>1, <2>2, <2>3, <3>1, <3>2, <3>4, GivesFitting DEF Keeps
  <2>4. CASE UNCHANGED <<io, eventList>>
    BY <2>1, <2>4, SilentFitting DEF Keeps
  <2> QED
    BY <1>20, <2>3, <2>4 DEF TakeRequest
<1>21. CASE Attach
  <2>1. /\ current \subseteq Reqs /\ \A r \in current : io[r] = "pending"
        /\ \A r \in current : Cmd[r] \in {"online", "config"}
        /\ \E r \in current : r \in Reqs
    BY <1>21 DEF Attach, IInv, TypeOK, ServerTypeOK, Placed, Waiting, Standing
  <2>2. LineAsked
    BY <2>1 DEF LineAsked, Promise!Control
  <2>3. CASE Answer(current, "ok", {"online"}) /\ ~offline'
    <3>1. Gives(current, {"ok"})
      BY <2>1, <2>3, AnswerGives DEF IInv, Results
    <3>2. Line' = "online"
      BY <2>3 DEF Line
    <3>3. \A r \in current : {"ok"} \subseteq Promise!Allowed(Cmd[r], Line')
      BY <2>1, <3>2, AllowedResults
    <3>4. \A r \in current : Cmd[r] # "offline"
      BY <2>1
    <3> QED
      BY <2>1, <2>2, <3>1, <3>3, <3>4, GivesFitting DEF Keeps
  <2>4. CASE Answer(current, "error", {}) /\ UNCHANGED offline
    <3>1. Gives(current, {"error"})
      BY <2>1, <2>4, AnswerGives DEF IInv, Results
    <3>2. Line' # "online"
      BY <1>21, <2>4 DEF Attach, IInv, Standing, Line
    <3>3. \A r \in current : {"error"} \subseteq Promise!Allowed(Cmd[r], Line')
      BY <2>1, <3>2, AllowedResults
    <3> QED
      BY <2>1, <2>2, <3>1, <3>3, GivesFitting DEF Keeps
  <2> QED
    BY <1>21, <2>3, <2>4 DEF Attach, Finish
<1>22. CASE Detach
  <2>1. \E r \in current : r \in Reqs /\ io[r] = "pending" /\ Cmd[r] \in {"offline", "config"}
    BY <1>22 DEF Detach, IInv, TypeOK, ServerTypeOK, Placed, Waiting, Standing
  <2>2. LineAsked
    BY <2>1 DEF LineAsked, Promise!Control, IInv, TypeOK, ServerTypeOK
  <2>3. Gives({}, {"ok"})
    BY <1>22, AnswerGives DEF Detach, IInv, Results
  <2> QED
    BY <2>2, <2>3, GivesFitting DEF Keeps
<1>23. CASE RejectWrites
  <2>1. \A r \in ToSet(writeList) : r \in Reqs /\ io[r] = "pending" /\ Cmd[r] = "write"
    BY DEF IInv, TypeOK, DeviceTypeOK, Placed, Waiting, Listed, Sorted, ToSet
  <2>2. Gives(ToSet(writeList), {"outofservice"})
    BY <1>23, <2>1, TermGives DEF RejectWrites, Reject, IInv, Results
  <2>3. Line' = Line /\ Line # "online"
    BY <1>23 DEF RejectWrites, Reject, hw, Line, IInv, Standing, Rejects
  <2>4. {"outofservice"} \subseteq Promise!Allowed("write", Line')
    BY <2>3, AllowedResults DEF Packet
  <2> QED
    BY <2>1, <2>2, <2>3, <2>4, GivesFitting DEF Keeps, LineAsked
<1>24. CASE RejectReads
  <2>1. \A r \in ToSet(readList) : r \in Reqs /\ io[r] = "pending" /\ Cmd[r] = "read"
    BY DEF IInv, TypeOK, DeviceTypeOK, Placed, Waiting, Listed, Sorted, ToSet
  <2>2. Gives(ToSet(readList), {"outofservice"})
    BY <1>24, <2>1, TermGives DEF RejectReads, Reject, IInv, Results
  <2>3. Line' = Line /\ Line # "online"
    BY <1>24 DEF RejectReads, Reject, hw, Line, IInv, Standing, Rejects
  <2>4. {"outofservice"} \subseteq Promise!Allowed("read", Line')
    BY <2>3, AllowedResults DEF Packet
  <2> QED
    BY <2>1, <2>2, <2>3, <2>4, GivesFitting DEF Keeps, LineAsked
<1>25. CASE RejectOrphans
  <2>1. \A r \in ToSet(orphanList) : r \in Reqs /\ io[r] = "pending" /\ Cmd[r] = "orphan"
    BY DEF IInv, TypeOK, DeviceTypeOK, Placed, Waiting, Listed, Sorted, ToSet
  <2>2. \A r \in current : r \in Reqs /\ io[r] = "pending" /\ Cmd[r] = "offline"
    BY <1>25 DEF RejectOrphans, IInv, TypeOK, ServerTypeOK, Placed, Waiting, Standing, Rejects
  <2>3. Line' = Line /\ Line # "online"
    BY <1>25 DEF RejectOrphans, hw, Line, IInv, Standing, Rejects
  <2>4. "outofservice" \in Promise!Allowed("orphan", Line') /\ "ok" \in Promise!Allowed("offline", Line')
    BY <2>3, AllowedResults DEF Packet
  <2>5. Fitting
    BY <1>25, <2>1, <2>2, <2>4 DEF RejectOrphans, Fitting
  <2>6. (Listed' \ eventList') \subseteq late'
    BY <1>25, ListEmpty DEF RejectOrphans, Listed, IInv, Latecomers
  <2> QED
    BY <2>3, <2>5, <2>6 DEF Keeps, LineAsked, OfflineLast
<1> QED
  BY <1>1, <1>2, <1>3, <1>4, <1>5, <1>6, <1>7, <1>8, <1>9, <1>10, <1>11, <1>12, <1>13, <1>14,
         <1>15, <1>16, <1>17, <1>18, <1>19, <1>20, <1>21, <1>22, <1>23, <1>24, <1>25
     DEF Next, ClientStep, Queue, ServerStep
----------------------------------------------------------------------------
(* The theorems *)

\* Nothing is asked for.
LEMMA StartsSound == Init => IInv
<1> SUFFICES ASSUME Init PROVE IInv
  OBVIOUS
<1> USE DEF Init, DeviceInit, ServerInit
<1>1. TypeOK
  <2>1. DeviceTypeOK
    BY ListEmpty DEF DeviceTypeOK
  <2>2. ServerTypeOK
    <3>1. {recvPending, portSeen} \subseteq BOOLEAN
      OBVIOUS
    <3>2. packets \in 0..MaxPackets
      BY ServerAssumption DEF ServerAssumption
    <3>3. /\ spc \in ServerPcs /\ owned \in {"none", "part", "all"}
          /\ inFrame \in Types \cup {"none"}
      BY DEF ServerPcs
    <3>4. current \subseteq Reqs /\ dropped \subseteq Reqs /\ late \subseteq Reqs
      OBVIOUS
    <3> QED
      BY <3>1, <3>2, <3>3, <3>4 DEF ServerTypeOK
  <2> QED
    BY <2>1, <2>2 DEF TypeOK
<1>2. Placed
  BY ListEmpty DEF Placed, Waiting, Listed
<1>3. Sorted /\ Standing /\ Latecomers
  BY ListEmpty DEF Sorted, Standing, Rejects, Latecomers
<1> QED
  BY <1>1, <1>2, <1>3 DEF IInv

\* One action after the other.
LEMMA StepsSound == IInv /\ [Next]_vars => IInv'
<1> SUFFICES ASSUME IInv, [Next]_vars PROVE IInv'
  OBVIOUS
<1>1. CASE ClientStep
  <2>1. ASSUME NEW r \in Reqs, Queue(r), UNCHANGED serverVars PROVE IInv'
    BY <2>1, QueueReadSound, QueueOrphanSound, QueueWriteSound DEF Queue
  <2> QED
    BY <1>1, <2>1, RefuseSound, PassSound, OnEventSound, ForwardSound, AbortSound
       DEF ClientStep
<1>2. CASE ServerStep
  BY <1>2, LoopHeadSound, WaitSound, CheckReceiveSound, RecvFrameSound, DeliverSound,
     DeliverOrphanSound, NextWriteSound, SendFrameSound, PortEmptySound, DropRequestSound,
     TakeRequestSound, AttachSound, DetachSound, RejectWritesSound, RejectReadsSound,
     RejectOrphansSound
     DEF ServerStep
<1>3. CASE Interrupt
  BY <1>3, InterruptSound
<1>4. CASE UNCHANGED vars
  BY <1>4 DEF vars, deviceVars, serverVars, lists, IInv, TypeOK, DeviceTypeOK, ServerTypeOK,
     Placed, Waiting, Listed, Sorted, Standing, Latecomers, BegunFor
<1> QED
  BY <1>1, <1>2, <1>3, <1>4 DEF Next

\* The inductive invariant: every pending request is in one place, the one for its command,
\* and the server stands where the line and the port are as it believes.
THEOREM SanaSound == Spec => []IInv
  BY StartsSound, StepsSound, PTL DEF Spec

\* A request has one holder or none: the places are apart.
LEMMA OneHolder == IInv => NoneLost
<1> SUFFICES ASSUME IInv, NEW r \in Reqs
             PROVE  Cardinality(Holders(r)) = IF io[r] = "pending" THEN 1 ELSE 0
  BY DEF NoneLost, IInv, Placed
<1> DEFINE Places == {"begun", "read", "write", "orphan", "event", "port", "current", "dropped"}
<1>1. /\ "begun" \in Holders(r) <=> r \in begun
      /\ "read" \in Holders(r) <=> r \in ToSet(readList)
      /\ "write" \in Holders(r) <=> r \in ToSet(writeList)
      /\ "orphan" \in Holders(r) <=> r \in ToSet(orphanList)
      /\ "event" \in Holders(r) <=> r \in eventList
      /\ "port" \in Holders(r) <=> r \in ToSet(serverPort)
      /\ "current" \in Holders(r) <=> r \in current
      /\ "dropped" \in Holders(r) <=> r \in dropped
  BY DEF Holders
<1>2. Holders(r) \subseteq Places
  BY DEF Holders
<1>3. \A p, q \in Holders(r) : p = q
  BY <1>1, <1>2, PlacesApart DEF IInv, Listed
<1>4. io[r] = "pending" <=> Holders(r) # {}
  BY <1>1, <1>2 DEF IInv, Placed, Waiting, Listed
<1>5. CASE io[r] = "pending"
  <2>1. PICK p : Holders(r) = {p}
    BY <1>3, <1>4, <1>5
  <2> QED
    BY <1>5, <2>1, FS_Singleton
<1>6. CASE io[r] # "pending"
  BY <1>4, <1>6, FS_EmptySet
<1> QED
  BY <1>5, <1>6

\* No request is lost or in two places, whatever the clients ask for, abort and race with,
\* and whatever fails (NoneLost), for any number of requests and types.
THEOREM NoneIsLost == Spec => []SanaInv
<1>1. IInv => SanaInv
  BY OneHolder DEF IInv, SanaInv
<1> QED
  BY <1>1, SanaSound, PTL

\* The first state is the service's.
LEMMA StartsServing == Init => Promise!Init
  BY DEF Init, DeviceInit, ServerInit, Promise!Init, Line

\* Every step of the device is one of the service, or none.
LEMMA StepsServing == IInv /\ IInv' /\ [Next]_vars => [Promise!Next]_<<io, Line>>
<1> SUFFICES ASSUME IInv, IInv', [Next]_vars PROVE [Promise!Next]_<<io, Line>>
  OBVIOUS
<1>1. CASE UNCHANGED vars
  BY <1>1 DEF vars, deviceVars, serverVars, Line
<1>2. CASE Next
  <2>1. Fitting /\ LineAsked
    BY <1>2, StepKeeps DEF Keeps
  <2>2. Line' \in {"online", "offline", "failed"}
    BY DEF Line
  <2>3. io' \in [Reqs -> {"unused", "pending"} \cup Promise!Results]
    BY DEF IInv, TypeOK, DeviceTypeOK, Results, Promise!Results
  <2> QED
    BY <2>1, <2>2, <2>3 DEF Promise!Next, Fitting, LineAsked
<1> QED
  BY <1>1, <1>2

\* The device implements SanaService: each request is answered once, with a result that
\* fits its command and the line, and the line changes on request only.
THEOREM KeepsPromise == Spec => Service
  BY SanaSound, StartsServing, StepsServing, PTL DEF Spec, Service, Promise!Spec

\* When S2_OFFLINE is answered (rejectpackets, dos2reqs) no request for packets is left in a
\* list, except those a client was about to queue.
THEOREM NothingLeftInLists == Spec => RejectsAll
<1>1. ASSUME IInv, [Next]_vars, NEW r \in Reqs,
             Cmd[r] = "offline", io[r] = "pending", io'[r] = "ok"
      PROVE  (Listed' \ eventList') \subseteq late'
  <2>1. Next
    BY <1>1 DEF vars, deviceVars
  <2> QED
    BY <1>1, <2>1, StepKeeps DEF Keeps, OfflineLast
<1>2. IInv /\ [Next]_vars =>
        [\A r \in Reqs : Cmd[r] = "offline" /\ io[r] = "pending" /\ io'[r] = "ok" =>
           (Listed' \ eventList') \subseteq late']_vars
  BY <1>1
<1> QED
  BY <1>2, SanaSound, PTL DEF Spec, RejectsAll
=============================================================================
