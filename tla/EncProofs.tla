------------------------------ MODULE EncProofs -----------------------------
(***************************************************************************)
(* What the driver of the controller keeps for every size of the ring and of   *)
(* the frames and however many arrive.  Places in the ring are compared by     *)
(* how far they are ahead of Base, the first byte the controller has not been  *)
(* given back: from there the frames follow each other up to the controller's  *)
(* write pointer within one turn, and the limit is the byte before it.         *)
(***************************************************************************)
EXTENDS Enc28j60, Integers, FiniteSetTheorems, SequenceTheorems, TLAPS

(* Places in the ring *)

\* How far a is ahead of b.
Ahead(b, a) == IF a < b THEN N + a - b ELSE a - b
Even(n) == n % 2 = 0

\* The ring has RxStop + 1 bytes.
LEMMA RingSize ==
  RxStop \in Nat /\ N \in Nat /\ N = RxStop + 1 /\ Ring = 0..N-1
<1>1. RxStop \in Nat
  BY RingAssumption DEF RingAssumption
<1> QED
  BY <1>1 DEF N, Ring

\* Odd and even.
LEMMA Parity ==
  ASSUME NEW n \in Int
  PROVE  /\ n % 2 = 1 => Even(n + 1)
         /\ Even(n) => (n - 1) % 2 = 1
         /\ \A m \in Int : Even(n) /\ Even(m) => Even(n + m) /\ Even(n - m)
BY DEF Even

\* Its size is even and its addresses have 16 bits.
LEMMA RingBound ==
  RxStop <= 65534 /\ RxStop % 2 = 1 /\ Even(N)
<1>1. RxStop \in 0..65534 /\ RxStop % 2 = 1
  BY RingAssumption DEF RingAssumption
<1> QED
  BY <1>1, RingSize, Parity

\* A frame takes its header, its bytes and its checksum, and a byte more if these are odd.
LEMMA Spans ==
  ASSUME NEW size \in Nat
  PROVE  /\ Span(size) \in Nat /\ Span(size) >= HeaderSize + size + Crc
         /\ Even(Span(size)) /\ HeaderSize = 6 /\ Crc = 4
BY DEF Span, HeaderSize, Crc, Even

\* A sum that wraps once.
LEMMA Wraps ==
  ASSUME NEW s \in Ring, NEW k \in 0..N
  PROVE  (s + k) % N = IF s + k < N THEN s + k ELSE s + k - N
<1>1. s \in 0..N-1 /\ N \in Nat \ {0}
  BY RingSize
<1>2. CASE s + k < N
  <2>1. \A n \in Nat \ {0} : \A x \in 0..n-1 : x % n = x
    BY SMT
  <2> QED
    BY <1>1, <1>2, <2>1
<1>3. CASE ~(s + k < N)
  <2>1. s + k - N \in 0..N-1
    BY <1>1, <1>3
  <2>2. \A n \in Nat \ {0} : \A x \in 0..n-1 : (x + n) % n = x
    BY SMT
  <2>3. s + k = (s + k - N) + N
    BY <1>1
  <2>4. ((s + k - N) + N) % N = s + k - N
    BY ONLY <1>1, <2>1, <2>2
  <2> QED
    BY <1>3, <2>3, <2>4
<1> QED
  BY <1>2, <1>3

\* k bytes further on, within one turn.
LEMMA AheadOf ==
  ASSUME NEW b \in Ring, NEW s \in Ring, NEW k \in 0..N, Ahead(b, s) + k <= RxStop
  PROVE  (s + k) % N \in Ring /\ Ahead(b, (s + k) % N) = Ahead(b, s) + k
<1>1. (s + k) % N = IF s + k < N THEN s + k ELSE s + k - N
  BY Wraps
<1> QED
  BY <1>1, RingSize DEF Ahead

\* Distances are less than the ring.
LEMMA AheadInRing ==
  ASSUME NEW b \in Ring, NEW a \in Ring
  PROVE  Ahead(b, a) \in 0..RxStop /\ Ahead(b, b) = 0
BY RingSize DEF Ahead

\* The cells of a stretch are those less than its length ahead of its start.
LEMMA InCells ==
  ASSUME NEW s \in Ring, NEW n \in 0..N, NEW a \in Ring
  PROVE  a \in Cells(s, n) <=> Ahead(s, a) < n
<1>1. \A i \in 0..n-1 : (s + i) % N = IF s + i < N THEN s + i ELSE s + i - N
  BY Wraps, RingSize
<1>2. ASSUME a \in Cells(s, n)
      PROVE  Ahead(s, a) < n
  <2>1. PICK i \in 0..n-1 : a = (s + i) % N
    BY <1>2 DEF Cells
  <2>2. a = IF s + i < N THEN s + i ELSE s + i - N
    BY <1>1, <2>1
  <2> QED
    BY <2>2, RingSize DEF Ahead
<1>3. ASSUME Ahead(s, a) < n
      PROVE  a \in Cells(s, n)
  <2>. DEFINE i == Ahead(s, a)
  <2>1. i \in 0..n-1
    BY <1>3, AheadInRing
  <2>2. a = IF s + i < N THEN s + i ELSE s + i - N
    BY RingSize DEF Ahead
  <2> HIDE DEF i
  <2> QED
    BY <1>1, <2>1, <2>2 DEF Cells
<1> QED
  BY <1>2, <1>3

\* A stretch lies in the ring.
LEMMA CellsInRing ==
  ASSUME NEW s \in Ring, NEW n \in 0..N
  PROVE  Cells(s, n) \subseteq Ring
<1>1. \A i \in 0..n-1 : (s + i) % N = IF s + i < N THEN s + i ELSE s + i - N
  BY Wraps, RingSize
<1>2. \A i \in 0..n-1 : (s + i) % N \in Ring
  BY <1>1, RingSize
<1> QED
  BY <1>2 DEF Cells

\* Two stretches of the ring in order have no cell in common.
LEMMA Disjoint ==
  ASSUME NEW b \in Ring, NEW s \in Ring, NEW m \in 0..N, NEW t \in Ring, NEW n \in 0..N,
         Ahead(b, s) + m <= Ahead(b, t), Ahead(b, t) + n <= RxStop
  PROVE  Cells(s, m) \cap Cells(t, n) = {}
<1>1. SUFFICES ASSUME NEW a \in Ring, Ahead(s, a) < m, Ahead(t, a) < n
               PROVE  FALSE
  BY InCells, CellsInRing
<1>2. Ahead(b, a) = Ahead(b, t) + Ahead(t, a)
  BY <1>1, RingSize DEF Ahead
<1>3. Ahead(b, a) = Ahead(b, s) + Ahead(s, a)
  BY <1>1, RingSize DEF Ahead
<1>4. /\ Ahead(b, s) \in Int /\ Ahead(b, t) \in Int /\ Ahead(s, a) \in Int
      /\ Ahead(t, a) \in Int /\ Ahead(t, a) >= 0
  BY <1>1, AheadInRing, RingSize
<1> QED
  BY ONLY <1>1, <1>2, <1>3, <1>4, Ahead(b, s) + m <= Ahead(b, t), m \in Int

\* Measured from a place further on.
LEMMA Shifted ==
  ASSUME NEW b \in Ring, NEW c \in Ring, NEW a \in Ring, Ahead(b, c) <= Ahead(b, a)
  PROVE  Ahead(c, a) = Ahead(b, a) - Ahead(b, c)
BY RingSize DEF Ahead

\* next_pkt: the limit is the byte before, the last of the ring for 0, and odd.
LEMMA Limits ==
  ASSUME NEW b \in Ring
  PROVE  /\ Limit(b) = (IF b = 0 THEN RxStop ELSE b - 1) /\ Limit(b) \in Ring
         /\ Even(b) => Limit(b) % 2 = 1
<1>1. b \in Nat /\ b <= RxStop /\ b <= 65534
  BY RingSize, RingBound
<1>2. (b + 65535) % 65536 = IF b = 0 THEN 65535 ELSE b - 1
  BY ONLY <1>1
<1>3. Limit(b) = IF b = 0 THEN RxStop ELSE b - 1
  BY <1>1, <1>2, RingSize, RingBound DEF Limit
<1>4. Limit(b) \in Ring
  BY <1>1, <1>3, RingSize
<1>5. ASSUME Even(b)
      PROVE  Limit(b) % 2 = 1
  <2>1. (b - 1) % 2 = 1
    BY <1>1, <1>5, Parity
  <2> QED
    BY <1>3, <2>1, RingBound
<1> QED
  BY <1>3, <1>4, <1>5

\* Why the controller never writes over what the driver keeps.
LEMMA Room ==
  ASSUME NEW b \in Ring, wr \in Ring, rdpt \in Ring,
         \/ rdpt = Limit(b) /\ Ahead(b, wr) < RxStop
         \/ rdpt = 0 /\ b = 0
  PROVE  /\ Ahead(b, wr) + Free <= RxStop
         /\ rdpt = Limit(b) => Ahead(b, wr) + Free < RxStop
<1>1. CASE rdpt = Limit(b) /\ Ahead(b, wr) < RxStop
  <2>1. rdpt = IF b = 0 THEN RxStop ELSE b - 1
    BY <1>1, Limits
  <2>2. wr # rdpt
    BY <1>1, <2>1, RingSize DEF Ahead
  <2> QED
    BY <1>1, <2>1, <2>2, RingSize DEF Free, Ahead
<1>2. CASE rdpt = 0 /\ b = 0
  <2>1. Limit(b) = RxStop
    BY <1>2, Limits
  <2>2. RxStop # 0
    BY RingBound
  <2> QED
    BY <1>2, <2>1, <2>2, RingSize DEF Free, Ahead
<1> QED
  BY <1>1, <1>2

----------------------------------------------------------------------------
(* The inductive invariant of the ring *)

\* Frames are numbered as they arrive.  The first that is not read, and the first whose
\* space is not given back.
First == Len(frames) - Len(unread) + 1
Held == IF rpc = "free" THEN First - 1 ELSE First

\* Where a frame is, or where the next one will be, and how long it is.
Place(id) == IF id <= Len(frames) THEN frames[id].start ELSE wr
Long(id) == Span(frames[id].size)
Base == Place(Held)

\* The frames not read are the last ones; which frame the driver is at.
Ids ==
  /\ Len(unread) <= Len(frames)
  /\ \A i \in 1..Len(unread) : unread[i] = First - 1 + i
  /\ rpc \in {"header", "data"} => Len(unread) > 0 /\ hdr = First
  /\ rpc \in {"free", "dec"} => hdr = First - 1 /\ First > 1
  /\ pktcnt = Len(unread) + IF rpc \in {"free", "dec"} THEN 1 ELSE 0

\* Frames begin at even addresses.
Evens == \A id \in 1..Len(frames) + 1 : Even(Place(id))

\* Each frame ends where the next begins, and from the first whose space is not given back to
\* the controller's pointer they follow each other within one turn of the ring.
Chained ==
  /\ \A id \in Held..Len(frames) : (Place(id) + Long(id)) % N = Place(id + 1)
  /\ \A i \in Held..Len(frames), j \in Held..Len(frames) + 1 :
       i < j => Ahead(Base, Place(i)) + Long(i) <= Ahead(Base, Place(j))
  /\ next = Place(IF rpc = "data" THEN First + 1 ELSE First)

\* Frames not read are as they were stored.
Intact == \A id \in First..Len(frames) : \A a \in Cells(Place(id), Long(id)) : mem[a] = id

\* The limit is the byte before that frame, or has never been moved.
Limited == \/ rdpt = Limit(Base) /\ Ahead(Base, wr) < RxStop
           \/ rdpt = 0 /\ Base = 0

\* What is kept of the ring.
RingInv == RingTypeOK /\ Ids /\ Evens /\ Chained /\ Intact /\ Limited

FrameRec == [start : Ring, size : Sizes, intact : BOOLEAN]

\* A sequence with one more element.
LEMMA Appended ==
  ASSUME NEW S, NEW s \in Seq(S), NEW e \in S
  PROVE  /\ Append(s, e) \in Seq(S) /\ Len(s) \in Nat
         /\ Len(Append(s, e)) = Len(s) + 1
         /\ \A i \in 1..Len(s) : Append(s, e)[i] = s[i] /\ s[i] \in S
         /\ Append(s, e)[Len(s) + 1] = e
BY AppendProperties

\* A sequence without its first element.
LEMMA Tailed ==
  ASSUME NEW S, NEW s \in Seq(S), Len(s) > 0
  PROVE  /\ Tail(s) \in Seq(S) /\ Len(s) \in Nat
         /\ Len(Tail(s)) = Len(s) - 1
         /\ \A i \in 1..Len(s) - 1 : Tail(s)[i] = s[i + 1]
         /\ s # <<>> /\ Head(s) = s[1] /\ s[1] \in S
BY HeadTailProperties, EmptySeq

\* Every frame has a place and a length.
LEMMA FrameTypes ==
  ASSUME RingTypeOK
  PROVE  /\ Len(frames) \in Nat /\ Len(unread) \in Nat /\ First \in Int
         /\ \A id \in 1..Len(frames) :
              /\ frames[id] \in FrameRec /\ frames[id].size \in Nat \ {0}
              /\ Place(id) = frames[id].start
              /\ Long(id) \in Nat /\ Long(id) >= 6 + frames[id].size + 4 /\ Even(Long(id))
         /\ \A id \in 1..Len(frames) + 1 : Place(id) \in Ring
         /\ Place(Len(frames) + 1) = wr
<1>1. frames \in Seq(FrameRec) /\ wr \in Ring /\ unread \in Seq(1..MaxFrames)
  BY DEF RingTypeOK, FrameRec
<1>2. Len(frames) \in Nat /\ Len(unread) \in Nat /\ \A id \in 1..Len(frames) : frames[id] \in FrameRec
  BY <1>1
<1>3. \A id \in 1..Len(frames) : frames[id].size \in Nat \ {0} /\ frames[id].start \in Ring
  <2>1. \A f \in FrameRec : f.size \in Sizes /\ f.start \in Ring
    BY DEF FrameRec
  <2>2. Sizes \subseteq Nat \ {0}
    BY RingAssumption DEF RingAssumption
  <2> QED
    BY <1>2, <2>1, <2>2
<1>4. \A id \in 1..Len(frames) : Place(id) = frames[id].start
  BY <1>2 DEF Place
<1>5. Place(Len(frames) + 1) = wr
  BY <1>2 DEF Place
<1>6. \A id \in 1..Len(frames) + 1 : Place(id) \in Ring
  BY <1>1, <1>2, <1>3 DEF Place
<1>7. \A id \in 1..Len(frames) :
        Long(id) \in Nat /\ Long(id) >= 6 + frames[id].size + 4 /\ Even(Long(id))
  BY <1>3, Spans DEF Long
<1>8. First \in Int
  BY <1>2 DEF First
<1> QED
  BY <1>2, <1>3, <1>4, <1>5, <1>6, <1>7, <1>8

\* The frames not given back lie between Base and the write pointer.
LEMMA Basics ==
  ASSUME RingInv
  PROVE  /\ First \in 1..Len(frames) + 1 /\ Held \in 1..Len(frames) + 1
         /\ Held = First \/ (rpc = "free" /\ Held = First - 1)
         /\ Base \in Ring
         /\ \A id \in Held..Len(frames) : /\ Long(id) <= RxStop
                                          /\ Ahead(Base, Place(id)) + Long(id) <= Ahead(Base, wr)
<1>1. Len(frames) \in Nat /\ Len(unread) \in Nat /\ Len(unread) <= Len(frames) /\ RingTypeOK
  BY FrameTypes DEF RingInv, Ids
<1>2. First \in 1..Len(frames) + 1
  BY <1>1 DEF First
<1>3. Held \in 1..Len(frames) + 1 /\ (Held = First \/ (rpc = "free" /\ Held = First - 1))
  BY <1>1, <1>2 DEF Held, RingInv, Ids
<1>4. Base \in Ring
  BY <1>1, <1>3, FrameTypes DEF Base
<1>5. ASSUME NEW id \in Held..Len(frames)
      PROVE  /\ Long(id) <= RxStop
             /\ Ahead(Base, Place(id)) + Long(id) <= Ahead(Base, wr)
  <2>1. id \in 1..Len(frames) /\ Len(frames) + 1 \in Held..Len(frames) + 1 /\ id < Len(frames) + 1
    BY <1>1, <1>3
  <2>2. Place(id) \in Ring /\ Place(Len(frames) + 1) = wr /\ wr \in Ring /\ Long(id) \in Nat
    BY <1>1, <2>1, FrameTypes
  <2>3. Ahead(Base, Place(id)) + Long(id) <= Ahead(Base, wr)
    BY <1>5, <2>1, <2>2 DEF RingInv, Chained
  <2>4. Ahead(Base, wr) \in 0..RxStop /\ Ahead(Base, Place(id)) \in 0..RxStop
    BY <1>4, <2>2, AheadInRing
  <2> QED
    BY <2>2, <2>3, <2>4, RingSize
<1> QED
  BY <1>2, <1>3, <1>4, <1>5

----------------------------------------------------------------------------
(* The steps *)

\* A frame that arrives is stored behind the others and over none of them.
LEMMA ArrivesOK ==
  ASSUME RingInv, FrameArrives
  PROVE  RingInv'
<1>0. PICK top, new \in Nat : top = Len(frames) /\ new = top + 1
  <2>1. Len(frames) \in Nat
    BY FrameTypes DEF RingInv
  <2> QED
    BY <2>1
<1>1. PICK size \in Sizes, intact \in BOOLEAN :
        /\ Span(size) <= Free
        /\ mem' = [a \in Ring |-> IF a \in Cells(wr, Span(size)) THEN new ELSE mem[a]]
        /\ wr' = (wr + Span(size)) % N
        /\ frames' = Append(frames, [start |-> wr, size |-> size, intact |-> intact])
        /\ unread' = Append(unread, new)
        /\ pktcnt' = pktcnt + 1
  BY <1>0 DEF FrameArrives
<1>. DEFINE n == Span(size)
<1>2. /\ UNCHANGED <<rdpt, rpc, next, hdr, got, inits>> /\ Len(frames) < MaxFrames
  BY DEF FrameArrives, driver
<1>3. /\ RingTypeOK /\ wr \in Ring /\ rdpt \in Ring
      /\ top \in Nat /\ new = top + 1 /\ top = Len(frames) /\ top < MaxFrames /\ MaxFrames \in Nat
  <2>1. RingTypeOK /\ wr \in Ring /\ rdpt \in Ring
    BY DEF RingInv, RingTypeOK
  <2>2. MaxFrames \in Nat
    BY RingAssumption DEF RingAssumption
  <2> QED
    BY <1>0, <1>2, <2>1, <2>2
<1>4. size \in Nat /\ n \in Nat /\ n >= 10 + size /\ Even(n)
  <2>1. size \in Nat
    BY <1>1, RingAssumption DEF RingAssumption
  <2> QED
    BY <2>1, Spans
<1>5. Base \in Ring /\ First \in 1..new /\ Held \in 1..new
  BY <1>3, Basics
<1>6. /\ Ahead(Base, wr) \in 0..RxStop /\ Ahead(Base, wr) + n <= RxStop
      /\ rdpt = Limit(Base) => Ahead(Base, wr) + n < RxStop
  <2>1. Limited
    BY DEF RingInv
  <2>2. /\ Ahead(Base, wr) + Free <= RxStop
        /\ rdpt = Limit(Base) => Ahead(Base, wr) + Free < RxStop
    BY <1>3, <1>5, <2>1, Room DEF Limited
  <2>3. Ahead(Base, wr) \in 0..RxStop
    BY <1>3, <1>5, AheadInRing
  <2>4. Free \in Int
    BY <1>3, RingSize DEF Free
  <2> QED
    BY <1>1, <1>4, <2>2, <2>3, <2>4, RingSize
<1>7. n \in 0..N /\ n <= RxStop /\ wr' \in Ring /\ Ahead(Base, wr') = Ahead(Base, wr) + n
  <2>1. n \in 0..N /\ n <= RxStop
    BY <1>4, <1>6, RingSize
  <2> QED
    BY <1>1, <1>3, <1>5, <1>6, <2>1, AheadOf
<1>8. /\ frames' \in Seq(FrameRec) /\ Len(frames') = new
      /\ \A id \in 1..top : frames'[id] = frames[id]
      /\ frames'[new] = [start |-> wr, size |-> size, intact |-> intact]
  <2>1. frames \in Seq(FrameRec) /\ [start |-> wr, size |-> size, intact |-> intact] \in FrameRec
    BY <1>1, <1>3 DEF RingTypeOK, FrameRec
  <2> QED
    BY <1>1, <1>3, <2>1, Appended
<1>9. /\ unread' \in Seq(1..MaxFrames) /\ Len(unread) \in Nat /\ Len(unread') = Len(unread) + 1
      /\ \A i \in 1..Len(unread) : unread'[i] = unread[i]
      /\ unread'[Len(unread) + 1] = new
  <2>1. unread \in Seq(1..MaxFrames) /\ new \in 1..MaxFrames
    BY <1>3 DEF RingTypeOK
  <2> QED
    BY <1>1, <2>1, Appended
<1>10. /\ First' = First /\ Held' = Held
       /\ \A id \in 1..new : Place(id)' = Place(id)
       /\ Place(new + 1)' = wr'
       /\ \A id \in 1..top : Long(id)' = Long(id)
       /\ Long(new)' = n
  <2>1. First' = First
    BY <1>3, <1>8, <1>9 DEF First
  <2>2. Held' = Held
    BY <1>2, <2>1 DEF Held
  <2>3. \A id \in 1..new : Place(id)' = Place(id)
    BY <1>3, <1>8 DEF Place
  <2>4. Place(new + 1)' = wr'
    BY <1>3, <1>8 DEF Place
  <2>5. \A id \in 1..top : Long(id)' = Long(id)
    BY <1>8 DEF Long
  <2>6. Long(new)' = n
    BY <1>8 DEF Long
  <2> QED
    BY <2>1, <2>2, <2>3, <2>4, <2>5, <2>6
<1>11. Base' = Base
  BY <1>5, <1>10 DEF Base
<1>12. Place(new) = wr /\ \A id \in 1..new : Place(id) \in Ring
  BY <1>3, FrameTypes
<1> HIDE DEF n
<1>13. RingTypeOK'
  <2>1. mem' \in [Ring -> 0..MaxFrames]
    BY <1>1, <1>3 DEF RingTypeOK
  <2>2. pktcnt' \in 0..MaxFrames
    BY <1>1, <1>3, <1>9, <1>5 DEF RingInv, Ids, First, RingTypeOK
  <2> QED
    BY <1>2, <1>3, <1>7, <1>8, <1>9, <2>1, <2>2 DEF RingTypeOK, FrameRec
<1>14. Ids'
  <2>1. Len(unread') <= Len(frames')
    BY <1>3, <1>8, <1>9 DEF RingInv, Ids
  <2>2. \A i \in 1..Len(unread') : unread'[i] = First - 1 + i
    <3>1. \A i \in 1..Len(unread) : unread'[i] = First - 1 + i
      BY <1>9 DEF RingInv, Ids
    <3>2. unread'[Len(unread) + 1] = First - 1 + (Len(unread) + 1)
      BY <1>3, <1>9 DEF First
    <3> QED
      BY <1>9, <3>1, <3>2
  <2>3. pktcnt' = Len(unread') + IF rpc \in {"free", "dec"} THEN 1 ELSE 0
    BY <1>1, <1>3, <1>9 DEF RingInv, Ids, RingTypeOK
  <2> QED
    BY <1>2, <1>9, <1>10, <2>1, <2>2, <2>3 DEF RingInv, Ids
<1>15. Evens'
  <2>1. Even(wr')
    <3>1. wr' = IF wr + n < N THEN wr + n ELSE wr + n - N
      BY <1>1, <1>3, <1>7, Wraps DEF n
    <3>2. Even(wr) /\ wr \in Int /\ n \in Int /\ N \in Int
      BY <1>3, <1>4, <1>12, RingSize DEF RingInv, Evens
    <3>3. Even(wr + n) /\ Even((wr + n) - N) /\ Even(N)
      <4>1. Even(n)
        BY <1>4 DEF n
      <4>2. Even(wr + n) /\ wr + n \in Int /\ Even(N)
        BY <3>2, <4>1, Parity, RingBound
      <4> QED
        BY <3>2, <4>2, Parity
    <3>4. wr' = wr + n \/ wr' = (wr + n) - N
      BY <3>1, <3>2
    <3> QED
      BY <3>3, <3>4, Zenon
  <2>2. \A id \in 1..new : Even(Place(id))
    BY <1>3 DEF RingInv, Evens
  <2>3. \A id \in 1..new : Even(Place(id)')
    BY <1>10, <2>2
  <2>4. \A id \in 1..new + 1 : id \in 1..new \/ id = new + 1
    BY <1>3
  <2> QED
    BY <1>8, <1>10, <2>1, <2>3, <2>4 DEF Evens
<1>16. Chained'
  <2>1. \A id \in Held..new : (Place(id)' + Long(id)') % N = Place(id + 1)'
    <3>1. SUFFICES ASSUME NEW id \in Held..new
                   PROVE  (Place(id)' + Long(id)') % N = Place(id + 1)'
      OBVIOUS
    <3>2. CASE id = new
      BY <1>1, <1>3, <1>10, <1>12, <3>2 DEF n
    <3>3. CASE id # new
      <4>1. id \in Held..top /\ id \in 1..top /\ id \in 1..new /\ id + 1 \in 1..new
        BY <1>3, <1>5, <3>3
      <4>2. (Place(id) + Long(id)) % N = Place(id + 1)
        BY <1>3, <4>1 DEF RingInv, Chained
      <4> QED
        BY <1>10, <4>1, <4>2
    <3> QED
      BY <3>2, <3>3
  <2>2. \A i \in Held..new, j \in Held..new + 1 :
          i < j => Ahead(Base, Place(i)') + Long(i)' <= Ahead(Base, Place(j)')
    <3>1. SUFFICES ASSUME NEW i \in Held..new, NEW j \in Held..new + 1, i < j
                   PROVE  Ahead(Base, Place(i)') + Long(i)' <= Ahead(Base, Place(j)')
      OBVIOUS
    <3>2. CASE i = new
      <4>1. j = new + 1
        BY <1>3, <3>1, <3>2
      <4> QED
        BY <1>3, <1>5, <1>6, <1>7, <1>10, <1>12, <3>2, <4>1, RingSize
    <3>3. CASE i # new /\ j = new + 1
      <4>1. i \in Held..top /\ i \in 1..top /\ i \in 1..new
        BY <1>3, <1>5, <3>3
      <4>2. Ahead(Base, Place(i)) + Long(i) <= Ahead(Base, wr) /\ Long(i) \in Nat
        BY <4>1, <1>3, Basics, FrameTypes
      <4>3. Ahead(Base, Place(i)) \in Int
        BY <1>5, <1>12, <4>1, AheadInRing
      <4> QED
        BY <1>4, <1>6, <1>7, <1>10, <3>3, <4>1, <4>2, <4>3
    <3>4. CASE i # new /\ j # new + 1
      <4>1. i \in Held..top /\ i \in 1..top /\ i \in 1..new /\ j \in Held..new /\ j \in 1..new
        BY <1>3, <1>5, <3>4
      <4>2. Ahead(Base, Place(i)) + Long(i) <= Ahead(Base, Place(j))
        BY <1>3, <3>1, <4>1 DEF RingInv, Chained
      <4> QED
        BY <1>10, <4>1, <4>2
    <3> QED
      BY <3>2, <3>3, <3>4
  <2>3. next' = Place(IF rpc = "data" THEN First + 1 ELSE First)'
    <3>1. (IF rpc = "data" THEN First + 1 ELSE First) \in 1..new
      BY <1>3, <1>5 DEF RingInv, Ids, First
    <3>2. next = Place(IF rpc = "data" THEN First + 1 ELSE First)
      BY DEF RingInv, Chained
    <3>3. (IF rpc = "data" THEN First + 1 ELSE First)' = IF rpc = "data" THEN First + 1 ELSE First
      BY <1>2, <1>10
    <3> QED
      BY <1>2, <1>10, <3>1, <3>2, <3>3
  <2> QED
    BY <1>2, <1>8, <1>10, <1>11, <2>1, <2>2, <2>3 DEF Chained
<1>17. Intact'
  <2>1. SUFFICES ASSUME NEW id \in First..new, NEW a \in Cells(Place(id)', Long(id)')
                 PROVE  mem'[a] = id
    BY <1>8, <1>10 DEF Intact
  <2>2. CASE id = new
    <3>1. a \in Cells(wr, n)
      BY <1>3, <1>10, <1>12, <2>1, <2>2
    <3>2. a \in Ring
      BY <1>3, <1>7, <3>1, CellsInRing
    <3> QED
      BY <1>1, <2>2, <3>1, <3>2 DEF n
  <2>3. CASE id # new
    <3>1. id \in First..top /\ id \in Held..top /\ id \in 1..top
      BY <1>3, <1>5, <2>3, Basics
    <3>2. a \in Cells(Place(id), Long(id))
      BY <1>10, <2>1, <3>1
    <3>3. /\ Place(id) \in Ring /\ Long(id) \in 0..N
          /\ Ahead(Base, Place(id)) + Long(id) <= Ahead(Base, wr)
      BY <1>3, <1>12, <3>1, Basics, FrameTypes, RingSize
    <3>4. a \in Ring /\ a \notin Cells(wr, n)
      BY <1>3, <1>5, <1>6, <1>7, <3>2, <3>3, Disjoint, CellsInRing
    <3>5. mem[a] = id
      BY <1>3, <3>1, <3>2 DEF RingInv, Intact
    <3> QED
      BY <1>1, <3>4, <3>5 DEF n
  <2> QED
    BY <2>2, <2>3
<1>18. Limited'
  <2>1. rdpt' = rdpt
    BY <1>2
  <2> QED
    BY <1>6, <1>7, <1>11, <2>1 DEF RingInv, Limited, Limit
<1> QED
  BY <1>13, <1>14, <1>15, <1>16, <1>17, <1>18 DEF RingInv

\* The header read at gNextPacketPtr is that of the oldest frame.
LEMMA BeginsOK ==
  ASSUME RingInv, RecvBegins
  PROVE  RingInv'
<1>1. /\ rpc = "idle" /\ rpc' = "header" /\ pktcnt > 0
      /\ hdr' = FrameIn(Cells(next, HeaderSize))
      /\ UNCHANGED <<mem, wr, rdpt, pktcnt, frames, next, unread, got, inits>>
  BY DEF RecvBegins, chip
<1>2. /\ RingTypeOK /\ Len(frames) \in Nat /\ Len(unread) \in Nat
      /\ First \in 1..Len(frames) + 1 /\ Held \in 1..Len(frames) + 1
  BY FrameTypes, Basics DEF RingInv
<1>3. Len(unread) > 0 /\ First \in 1..Len(frames) /\ next = Place(First) /\ Held = First
  BY <1>1, <1>2 DEF RingInv, Ids, First, Chained, Held
<1>4. hdr' = First
  <2>1. /\ Place(First) \in Ring /\ Long(First) \in Nat /\ Long(First) >= 10 /\ Long(First) <= RxStop
    <3>1. /\ Place(First) \in Ring /\ Long(First) \in Nat
          /\ Long(First) >= 6 + frames[First].size + 4 /\ frames[First].size \in Nat
      BY <1>2, <1>3, FrameTypes
    <3>2. Long(First) <= RxStop
      BY <1>2, <1>3, Basics
    <3> QED
      BY <3>1, <3>2
  <2>. DEFINE head == Cells(next, HeaderSize)
  <2>2. \A a \in head : mem[a] = First
    <3>1. \A a \in head : a \in Cells(Place(First), Long(First))
      BY <1>3, <2>1 DEF Cells, HeaderSize
    <3> QED
      BY <1>2, <1>3, <3>1 DEF RingInv, Intact
  <2>3. next \in head
    <3>1. 0 \in 0..HeaderSize-1 /\ (next + 0) % N = next
      BY <1>3, <2>1, Wraps, RingSize DEF HeaderSize
    <3> QED
      BY <3>1 DEF Cells
  <2>4. First \in 1..Len(frames) /\ \A id \in 1..Len(frames) : (\A a \in head : mem[a] = id) => id = First
    BY <1>3, <2>2, <2>3
  <2> HIDE DEF head
  <2>5. FrameIn(head) = First
    BY <2>2, <2>4 DEF FrameIn
  <2> QED
    BY <1>1, <2>5 DEF head
<1>5. First' = First /\ Held' = Held /\ Base' = Base
      /\ \A id : Place(id)' = Place(id) /\ Long(id)' = Long(id)
  BY <1>1, <1>3 DEF First, Held, Place, Long, Base
<1>6. RingTypeOK'
  <2>1. First \in 1..MaxFrames
    <3>1. unread[1] \in 1..MaxFrames
      BY <1>2, <1>3, Tailed DEF RingTypeOK
    <3>2. unread[1] = First - 1 + 1 /\ First \in Int
      BY <1>2, <1>3 DEF RingInv, Ids
    <3> QED
      BY <3>1, <3>2
  <2> QED
    BY <1>1, <1>2, <1>4, <2>1 DEF RingTypeOK
<1>7. Ids'
  BY <1>1, <1>3, <1>4, <1>5 DEF RingInv, Ids
<1>8. Evens' /\ Chained' /\ Intact' /\ Limited'
  BY <1>1, <1>5 DEF RingInv, Evens, Chained, Intact, Limited, Limit
<1> QED
  BY <1>6, <1>7, <1>8 DEF RingInv

\* The place of the next frame, from the header, is where that frame is or will be.
LEMMA HeaderOK ==
  ASSUME RingInv, HeaderRead
  PROVE  RingInv'
<1>1. /\ rpc = "header"
      /\ next' = (frames[hdr].start + Span(frames[hdr].size)) % N
      /\ \/ rpc' = "data" /\ unread' = unread
         \/ rpc' = "free" /\ unread' = Tail(unread)
      /\ UNCHANGED <<mem, wr, rdpt, pktcnt, frames, hdr, got, inits>>
  BY DEF HeaderRead, chip
<1>2. /\ RingTypeOK /\ Len(frames) \in Nat /\ Len(unread) \in Nat
      /\ First \in 1..Len(frames) + 1 /\ Held = First
  BY <1>1, FrameTypes, Basics DEF RingInv, Held
<1>3. Len(unread) > 0 /\ First \in 1..Len(frames) /\ hdr = First
  BY <1>1, <1>2 DEF RingInv, Ids, First
<1>4. next' = Place(First + 1) /\ Place(First + 1) \in Ring
  <2>1. (Place(First) + Long(First)) % N = Place(First + 1)
    BY <1>2, <1>3 DEF RingInv, Chained
  <2>2. Place(First) = frames[hdr].start /\ Long(First) = Span(frames[hdr].size)
    BY <1>2, <1>3, FrameTypes DEF Long
  <2> QED
    BY <1>1, <1>2, <1>3, <2>1, <2>2, FrameTypes
<1>5. \A id : Place(id)' = Place(id) /\ Long(id)' = Long(id)
  BY <1>1 DEF Place, Long
<1>6. CASE rpc' = "data" /\ unread' = unread
  <2>1. First' = First /\ Held' = Held /\ Base' = Base
    BY <1>1, <1>2, <1>5, <1>6 DEF First, Held, Base
  <2>2. RingTypeOK'
    BY <1>1, <1>2, <1>4, <1>6 DEF RingTypeOK
  <2>3. Ids'
    BY <1>1, <1>3, <1>6, <2>1 DEF RingInv, Ids
  <2>4. Chained'
    BY <1>1, <1>4, <1>5, <1>6, <2>1 DEF RingInv, Chained
  <2>5. Evens' /\ Intact' /\ Limited'
    BY <1>1, <1>5, <2>1 DEF RingInv, Evens, Intact, Limited, Limit
  <2> QED
    BY <2>2, <2>3, <2>4, <2>5 DEF RingInv
<1>7. CASE rpc' = "free" /\ unread' = Tail(unread)
  <2>1. /\ unread' \in Seq(1..MaxFrames) /\ Len(unread') = Len(unread) - 1
        /\ \A i \in 1..Len(unread) - 1 : unread'[i] = unread[i + 1]
    BY <1>2, <1>3, <1>7, Tailed DEF RingTypeOK
  <2>2. First' = First + 1 /\ Held' = Held
    BY <1>1, <1>2, <1>7, <2>1 DEF First, Held
  <2>3. Base' = Base
    BY <1>5, <2>2 DEF Base
  <2>4. RingTypeOK'
    BY <1>1, <1>2, <1>4, <1>7, <2>1 DEF RingTypeOK
  <2>5. Ids'
    <3>1. \A i \in 1..Len(unread') : unread'[i] = First' - 1 + i
      BY <1>2, <2>1, <2>2 DEF RingInv, Ids
    <3> QED
      BY <1>1, <1>2, <1>3, <1>7, <2>1, <2>2, <3>1 DEF RingInv, Ids
  <2>6. Chained'
    BY <1>1, <1>4, <1>5, <1>7, <2>2, <2>3 DEF RingInv, Chained
  <2>7. Intact'
    BY <1>1, <1>2, <1>5, <2>2 DEF RingInv, Intact
  <2>8. Evens' /\ Limited'
    BY <1>1, <1>5, <2>3 DEF RingInv, Evens, Limited, Limit
  <2> QED
    BY <2>4, <2>5, <2>6, <2>7, <2>8 DEF RingInv
<1> QED
  BY <1>1, <1>6, <1>7

\* What is read is the frame whose header was read: the oldest, and all of it.
LEMMA DataIs ==
  ASSUME RingInv, DataRead
  PROVE  got' = Append(got, Head(unread)) /\ Head(unread) = First /\ unread # <<>>
<1>1. rpc = "data" /\ RingTypeOK
  BY DEF DataRead, RingInv
<1>2. /\ Len(frames) \in Nat /\ Len(unread) \in Nat /\ Len(unread) > 0
      /\ First \in 1..Len(frames) /\ hdr = First
  BY <1>1, FrameTypes DEF RingInv, Ids, First
<1>3. Head(unread) = First /\ unread # <<>>
  <2>1. unread \in Seq(1..MaxFrames)
    BY <1>1 DEF RingTypeOK
  <2>2. Head(unread) = unread[1] /\ unread # <<>>
    BY <1>2, <2>1, Tailed
  <2>3. unread[1] = First - 1 + 1 /\ First \in Int
    BY <1>2 DEF RingInv, Ids
  <2> QED
    BY <2>2, <2>3
<1>. DEFINE f == frames[hdr]
            len == IF f.size > MaxSize THEN MaxSize ELSE f.size
            cells == Cells(f.start + HeaderSize, len)
<1>4. /\ f.start = Place(First) /\ f.size \in Nat \ {0} /\ f.start \in Ring
      /\ Long(First) \in Nat /\ Long(First) >= 6 + f.size + 4
  BY <1>1, <1>2, FrameTypes
<1>5. len \in Nat \ {0} /\ len <= f.size
  BY <1>4, RingAssumption DEF RingAssumption
<1>6. \A a \in cells : mem[a] = First
  <2>1. \A i \in 0..len-1 : /\ 6 + i \in 0..Long(First) - 1
                            /\ (f.start + HeaderSize) + i = f.start + (6 + i)
    BY <1>4, <1>5, RingSize DEF HeaderSize
  <2>2. \A a \in cells : a \in Cells(Place(First), Long(First))
    BY <1>4, <2>1 DEF Cells
  <2> QED
    BY <1>2, <2>2 DEF RingInv, Intact
<1>7. (f.start + HeaderSize) % N \in cells
  <2>1. 0 \in 0..len-1 /\ (f.start + HeaderSize) + 0 = f.start + HeaderSize
    BY <1>4, <1>5, RingSize DEF HeaderSize
  <2> QED
    BY <2>1 DEF Cells
<1>8. FrameIn(cells) = First
  <2> HIDE DEF cells
  <2>1. \A id \in 1..Len(frames) : (\A a \in cells : mem[a] = id) => id = First
    BY <1>6, <1>7
  <2> QED
    BY <1>2, <1>6, <2>1 DEF FrameIn
<1> QED
  BY <1>3, <1>8 DEF DataRead

\* Reading the data keeps the ring.
LEMMA DataOK ==
  ASSUME RingInv, DataRead
  PROVE  RingInv'
<1>1. /\ rpc = "data" /\ rpc' = "free" /\ unread' = Tail(unread)
      /\ UNCHANGED <<mem, wr, rdpt, pktcnt, frames, next, hdr, inits>>
  BY DEF DataRead, chip
<1>2. /\ RingTypeOK /\ Len(frames) \in Nat /\ Len(unread) \in Nat
      /\ First \in 1..Len(frames) + 1 /\ Held = First
  BY <1>1, FrameTypes, Basics DEF RingInv, Held
<1>3. Len(unread) > 0 /\ First \in 1..Len(frames) /\ hdr = First
  BY <1>1, <1>2 DEF RingInv, Ids, First
<1>4. /\ unread' \in Seq(1..MaxFrames) /\ Len(unread') = Len(unread) - 1
      /\ \A i \in 1..Len(unread) - 1 : unread'[i] = unread[i + 1]
  BY <1>1, <1>2, <1>3, Tailed DEF RingTypeOK
<1>5. \A id : Place(id)' = Place(id) /\ Long(id)' = Long(id)
  BY <1>1 DEF Place, Long
<1>6. First' = First + 1 /\ Held' = Held
  BY <1>1, <1>2, <1>4 DEF First, Held
<1>7. Base' = Base
  BY <1>5, <1>6 DEF Base
<1>8. RingTypeOK'
  <2>1. First \in 0..MaxFrames
    <3>1. hdr \in 0..MaxFrames
      BY <1>2 DEF RingTypeOK
    <3> QED
      BY <1>3, <3>1
  <2>2. got' \in Seq(0..MaxFrames)
    <3>1. got \in Seq(0..MaxFrames)
      BY <1>2 DEF RingTypeOK
    <3> QED
      BY <2>1, <3>1, DataIs, Appended
  <2> QED
    BY <1>1, <1>2, <1>4, <2>2 DEF RingTypeOK
<1>9. Ids'
  <2>1. \A i \in 1..Len(unread') : unread'[i] = First' - 1 + i
    BY <1>2, <1>4, <1>6 DEF RingInv, Ids
  <2> QED
    BY <1>1, <1>2, <1>3, <1>4, <1>6, <2>1 DEF RingInv, Ids
<1>10. Chained'
  BY <1>1, <1>5, <1>6, <1>7 DEF RingInv, Chained
<1>11. Intact'
  BY <1>1, <1>2, <1>5, <1>6 DEF RingInv, Intact
<1>12. Evens' /\ Limited'
  BY <1>1, <1>5, <1>7 DEF RingInv, Evens, Limited, Limit
<1> QED
  BY <1>8, <1>9, <1>10, <1>11, <1>12 DEF RingInv

\* The limit moves behind the frame: the next one is the first not given back.
LEMMA FreeOK ==
  ASSUME RingInv, FreeSpace
  PROVE  RingInv'
<1>1. /\ rpc = "free" /\ rpc' = "dec" /\ rdpt' = Limit(next)
      /\ UNCHANGED <<mem, wr, pktcnt, frames, next, hdr, unread, got, inits>>
  BY DEF FreeSpace
<1>2. /\ RingTypeOK /\ Len(frames) \in Nat /\ Len(unread) \in Nat /\ wr \in Ring
      /\ First \in 1..Len(frames) + 1 /\ Held = First - 1 /\ Held \in 1..Len(frames) /\ Base \in Ring
  BY <1>1, FrameTypes, Basics DEF RingInv, RingTypeOK, Ids, Held
<1>3. /\ First' = First /\ Held' = First
      /\ \A id : Place(id)' = Place(id) /\ Long(id)' = Long(id)
  BY <1>1 DEF First, Held, Place, Long
<1>4. Base' = next /\ next = Place(First) /\ next \in Ring
  BY <1>1, <1>2, <1>3, FrameTypes DEF Base, RingInv, Chained
<1>5. Base = Place(Held) /\ Ahead(Base, Base) = 0
  BY <1>2, AheadInRing DEF Base
<1>6. \A id \in 1..Len(frames) + 1 : Place(id) \in Ring /\ Ahead(Base, Place(id)) \in 0..RxStop
  BY <1>2, FrameTypes, AheadInRing
<1>7. Ahead(Base, next) >= 10
  <2>1. Ahead(Base, Place(Held)) + Long(Held) <= Ahead(Base, Place(First))
    BY <1>2 DEF RingInv, Chained
  <2>2. Long(Held) \in Nat /\ Long(Held) >= 6 + frames[Held].size + 4 /\ frames[Held].size \in Nat
    BY <1>2, FrameTypes
  <2>3. Ahead(Base, Place(Held)) = 0
    BY <1>5
  <2>4. Ahead(Base, Place(First)) \in 0..RxStop
    BY <1>2, <1>6
  <2> QED
    BY <1>4, <2>1, <2>2, <2>3, <2>4, RingSize
<1>8. \A id \in First..Len(frames) + 1 :
        Ahead(next, Place(id)) = Ahead(Base, Place(id)) - Ahead(Base, next)
  <2>1. SUFFICES ASSUME NEW id \in First..Len(frames) + 1
                 PROVE  Ahead(next, Place(id)) = Ahead(Base, Place(id)) - Ahead(Base, next)
    OBVIOUS
  <2>2. id \in 1..Len(frames) + 1 /\ Place(id) \in Ring
    BY <1>2, <1>6
  <2>3. Ahead(Base, next) <= Ahead(Base, Place(id))
    <3>1. CASE id = First
      BY <1>2, <1>4, <1>6, <3>1, RingSize
    <3>2. CASE id # First
      <4>1. First \in Held..Len(frames) /\ id \in Held..Len(frames) + 1 /\ First < id
        BY <1>2, <3>2
      <4>2. Ahead(Base, Place(First)) + Long(First) <= Ahead(Base, Place(id))
        BY <4>1 DEF RingInv, Chained
      <4>3. Long(First) \in Nat /\ Ahead(Base, Place(First)) \in 0..RxStop
            /\ Ahead(Base, Place(id)) \in 0..RxStop
        BY <1>2, <1>6, <2>2, <4>1, FrameTypes
      <4> QED
        BY <1>4, <4>2, <4>3, RingSize
    <3> QED
      BY <3>1, <3>2
  <2> QED
    BY <1>2, <1>4, <2>2, <2>3, Shifted
<1>9. RingTypeOK'
  <2>1. Limit(next) \in Ring
    BY <1>4, Limits
  <2> QED
    BY <1>1, <1>2, <2>1 DEF RingTypeOK
<1>10. Ids'
  BY <1>1, <1>3 DEF RingInv, Ids
<1>11. Chained'
  <2>1. \A id \in First..Len(frames) : (Place(id) + Long(id)) % N = Place(id + 1)
    BY <1>2 DEF RingInv, Chained
  <2>2. \A i \in First..Len(frames), j \in First..Len(frames) + 1 :
          i < j => Ahead(next, Place(i)) + Long(i) <= Ahead(next, Place(j))
    <3>1. SUFFICES ASSUME NEW i \in First..Len(frames), NEW j \in First..Len(frames) + 1, i < j
                   PROVE  Ahead(next, Place(i)) + Long(i) <= Ahead(next, Place(j))
      OBVIOUS
    <3>2. /\ i \in Held..Len(frames) /\ j \in Held..Len(frames) + 1
          /\ i \in First..Len(frames) + 1 /\ i \in 1..Len(frames) + 1 /\ j \in 1..Len(frames) + 1
          /\ i \in 1..Len(frames)
      BY <1>2
    <3>3. Ahead(Base, Place(i)) + Long(i) <= Ahead(Base, Place(j))
      BY <3>1, <3>2 DEF RingInv, Chained
    <3>4. /\ Ahead(Base, Place(i)) \in Int /\ Ahead(Base, Place(j)) \in Int /\ Long(i) \in Int
          /\ Ahead(Base, next) \in Int
      BY <1>2, <1>4, <1>6, <3>2, FrameTypes, AheadInRing
    <3>5. /\ Ahead(next, Place(i)) = Ahead(Base, Place(i)) - Ahead(Base, next)
          /\ Ahead(next, Place(j)) = Ahead(Base, Place(j)) - Ahead(Base, next)
      BY <1>8, <3>2
    <3> QED
      BY <3>3, <3>4, <3>5
  <2> QED
    BY <1>1, <1>3, <1>4, <2>1, <2>2 DEF Chained
<1>12. Intact'
  BY <1>1, <1>3 DEF RingInv, Intact
<1>13. Evens'
  BY <1>1, <1>3 DEF RingInv, Evens
<1>14. Limited'
  <2>1. Ahead(next, wr) = Ahead(Base, wr) - Ahead(Base, next)
    BY <1>2, <1>8, FrameTypes
  <2>2. Ahead(Base, wr) \in 0..RxStop /\ Ahead(Base, next) \in 0..RxStop
    BY <1>2, <1>4, AheadInRing
  <2>3. Ahead(next, wr) < RxStop
    BY <1>7, <2>1, <2>2, RingSize
  <2> QED
    BY <1>1, <1>4, <2>3 DEF Limited, Ahead, Limit
<1> QED
  BY <1>9, <1>10, <1>11, <1>12, <1>13, <1>14 DEF RingInv

\* Counting the packet off keeps the ring.
LEMMA DoneOK ==
  ASSUME RingInv, PacketDone
  PROVE  RingInv'
<1>1. /\ rpc = "dec" /\ rpc' = "idle" /\ pktcnt' = pktcnt - 1
      /\ UNCHANGED <<mem, wr, rdpt, frames, next, hdr, unread, got, inits>>
  BY DEF PacketDone
<1>2. RingTypeOK /\ Len(unread) \in Nat
  BY FrameTypes DEF RingInv
<1>3. /\ First' = First /\ Held' = Held /\ Base' = Base
      /\ \A id : Place(id)' = Place(id) /\ Long(id)' = Long(id)
  BY <1>1 DEF First, Held, Place, Long, Base
<1>4. pktcnt = Len(unread) + 1
  BY <1>1 DEF RingInv, Ids
<1>5. RingTypeOK'
  <2>1. MaxFrames \in Nat
    BY RingAssumption DEF RingAssumption
  <2>2. pktcnt - 1 \in 0..MaxFrames
    BY <1>2, <1>4, <2>1 DEF RingTypeOK
  <2> QED
    BY <1>1, <1>2, <2>2 DEF RingTypeOK
<1>6. Ids'
  BY <1>1, <1>2, <1>3, <1>4 DEF RingInv, Ids
<1>7. Evens' /\ Chained' /\ Intact' /\ Limited'
  BY <1>1, <1>3 DEF RingInv, Evens, Chained, Intact, Limited, Limit
<1> QED
  BY <1>5, <1>6, <1>7 DEF RingInv

\* So does an initialisation, which forgets what was not read.
LEMMA InitOK ==
  ASSUME RingInv, EncInit
  PROVE  RingInv'
<1>1. /\ rpc = "idle" /\ inits < MaxInits /\ inits' = inits + 1
      /\ next' = 0 /\ wr' = 0 /\ rdpt' = 0 /\ pktcnt' = 0 /\ unread' = <<>>
      /\ UNCHANGED <<mem, frames, rpc, hdr, got>>
  BY DEF EncInit
<1>2. RingTypeOK /\ Len(frames) \in Nat /\ 0 \in Ring /\ MaxInits \in Nat
  BY FrameTypes, RingSize, RingAssumption DEF RingInv, RingAssumption
<1>3. Len(unread') = 0 /\ unread' \in Seq(1..MaxFrames)
  BY <1>1
<1>4. First' = Len(frames) + 1 /\ Held' = Len(frames) + 1
  BY <1>1, <1>2, <1>3 DEF First, Held
<1>5. /\ \A id \in 1..Len(frames) : Place(id)' = Place(id)
      /\ \A id : id = Len(frames) + 1 => Place(id)' = 0
  BY <1>1, <1>2 DEF Place
<1>6. Base' = 0
  BY <1>1, <1>2, <1>4 DEF Base, Place
<1>7. RingTypeOK'
  <2>1. 0 \in 0..MaxFrames /\ inits' \in 0..MaxInits
    BY <1>1, <1>2, RingAssumption DEF RingAssumption, RingTypeOK
  <2> QED
    BY <1>1, <1>2, <1>3, <2>1 DEF RingTypeOK
<1>8. Ids'
  BY <1>1, <1>2, <1>3, <1>4 DEF Ids
<1>9. Evens'
  <2>1. Even(0)
    BY DEF Even
  <2>2. \A id \in 1..Len(frames) + 1 : id \in 1..Len(frames) \/ id = Len(frames) + 1
    BY <1>2
  <2>3. \A id \in 1..Len(frames) + 1 : Even(Place(id)')
    BY <1>5, <2>1, <2>2 DEF RingInv, Evens
  <2> QED
    BY <1>1, <2>3 DEF Evens
<1>10. Chained'
  <2>1. \A id \in (Len(frames) + 1)..Len(frames) : FALSE
    BY <1>2
  <2>2. next' = Place(First)'
    BY <1>1, <1>2, <1>4 DEF Place
  <2> QED
    BY <1>1, <1>4, <2>1, <2>2 DEF Chained
<1>11. Intact'
  BY <1>1, <1>2, <1>4 DEF Intact
<1>12. Limited'
  BY <1>1, <1>6 DEF Limited
<1> QED
  BY <1>7, <1>8, <1>9, <1>10, <1>11, <1>12 DEF RingInv

----------------------------------------------------------------------------
(* The transmit side keeps its types *)

\* A step of enc28j60_send or of the transmitter.
LEMMA SendStepOK ==
  ASSUME SendTypeOK, SendStep \/ TxChip
  PROVE  SendTypeOK'
<1>1. /\ txbuf \in [1..2 -> 0..MaxSends] /\ sends \in 0..MaxSends /\ MaxSends \in Nat
      /\ onwire \in Seq(0..MaxSends) /\ wire \in Seq(Seq(0..MaxSends)) /\ <<>> \in Seq(0..MaxSends)
  BY SendAssumption DEF SendTypeOK, SendAssumption
<1>2. CASE SendBegins
  <2>1. sends' \in 0..MaxSends
    BY <1>1, <1>2 DEF SendBegins
  <2> QED
    BY <1>2, <2>1 DEF SendBegins, SendTypeOK
<1>3. CASE FillFirst \/ FillSecond
  <2>1. txbuf' \in [1..2 -> 0..MaxSends]
    BY <1>1, <1>3 DEF FillFirst, FillSecond
  <2> QED
    BY <1>3, <2>1 DEF FillFirst, FillSecond, SendTypeOK
<1>4. CASE TxReady \/ CheckError
  BY <1>1, <1>4 DEF TxReady, CheckError, SendTypeOK
<1>5. CASE Transmit
  <2>1. Len(onwire) + 1 \in 1..2
    BY <1>1, <1>5 DEF Transmit
  <2>2. onwire' \in Seq(0..MaxSends)
    BY <1>1, <1>5, <2>1, Appended DEF Transmit
  <2> QED
    BY <1>5, <2>2 DEF Transmit, SendTypeOK
<1>6. CASE Transmitted
  <2>1. wire' \in Seq(Seq(0..MaxSends))
    BY <1>1, <1>6, Appended DEF Transmitted
  <2> QED
    BY <1>1, <1>6, <2>1 DEF Transmitted, SendTypeOK
<1>7. CASE TransmitFails
  BY <1>1, <1>7 DEF TransmitFails, SendTypeOK
<1> QED
  BY <1>2, <1>3, <1>4, <1>5, <1>6, <1>7 DEF SendStep, TxChip

----------------------------------------------------------------------------
(* The theorems *)

\* The inductive invariant.
IInv == RingInv /\ SendTypeOK

\* The ring is right at the start ...
LEMMA RingBegin ==
  ASSUME RingInit
  PROVE  RingInv
<1>1. /\ 0 \in Ring /\ MaxFrames \in Nat /\ MaxInits \in Nat
      /\ wr = 0 /\ rdpt = 0 /\ pktcnt = 0 /\ rpc = "idle" /\ next = 0 /\ hdr = 0 /\ inits = 0
      /\ mem = [a \in Ring |-> 0]
  BY RingSize, RingAssumption DEF RingAssumption, RingInit
<1>2. Len(frames) = 0 /\ Len(unread) = 0 /\ \A S : frames \in Seq(S) /\ unread \in Seq(S) /\ got \in Seq(S)
  BY DEF RingInit
<1>3. First = 1 /\ Held = 1 /\ Base = 0
  BY <1>1, <1>2 DEF First, Held, Base, Place
<1>4. RingTypeOK
  BY <1>1, <1>2 DEF RingTypeOK
<1>5. Ids
  BY <1>1, <1>2, <1>3 DEF Ids
<1>6. Evens
  BY <1>1, <1>2 DEF Evens, Place, Even
<1>7. Chained /\ Intact
  BY <1>1, <1>2, <1>3 DEF Chained, Intact, Place
<1>8. Limited
  BY <1>1, <1>3 DEF Limited
<1> QED
  BY <1>4, <1>5, <1>6, <1>7, <1>8 DEF RingInv

\* ... and so are the types of the transmit side ...
LEMMA SendBegin ==
  ASSUME SendInit
  PROVE  SendTypeOK
<1>1. MaxSends \in Nat
  BY SendAssumption DEF SendAssumption
<1>2. txbuf \in [1..2 -> 0..MaxSends]
  BY <1>1 DEF SendInit
<1>3. \A S : <<>> \in Seq(S)
  OBVIOUS
<1>4. onwire \in Seq(0..MaxSends) /\ wire \in Seq(Seq(0..MaxSends))
  BY <1>3 DEF SendInit
<1>5. txrts = FALSE /\ stuck = FALSE /\ txerif = FALSE /\ spc = "idle" /\ sends = 0
  BY DEF SendInit
<1>6. sends \in 0..MaxSends
  BY <1>1, <1>5
<1> QED
  BY <1>2, <1>4, <1>5, <1>6 DEF SendTypeOK

\* ... and every step of driver and controller keeps both.
LEMMA IInvStep ==
  ASSUME IInv, [Next]_vars
  PROVE  IInv'
<1>1. ASSUME UNCHANGED ringVars
      PROVE  RingInv'
  BY <1>1 DEF IInv, ringVars, chip, driver, RingInv, RingTypeOK, Ids, Evens, Chained, Intact,
              Limited, Limit, First, Held, Place, Long, Base
<1>2. ASSUME UNCHANGED sendVars
      PROVE  SendTypeOK'
  BY <1>2 DEF IInv, sendVars, SendTypeOK
<1>3. CASE RecvStep /\ UNCHANGED sendVars
  BY <1>2, <1>3, BeginsOK, HeaderOK, DataOK, FreeOK, DoneOK DEF IInv, RecvStep
<1>4. CASE (SendStep \/ TxChip) /\ UNCHANGED ringVars
  BY <1>1, <1>4, SendStepOK DEF IInv
<1>5. CASE InitAll
  <2>1. SendTypeOK'
    <3>1. <<>> \in Seq(0..MaxSends)
      OBVIOUS
    <3>2. onwire' = <<>> /\ txrts' = FALSE /\ stuck' = FALSE /\ txerif' = FALSE
          /\ UNCHANGED <<txbuf, wire, spc, sends>>
      BY <1>5 DEF InitAll
    <3> QED
      BY <3>1, <3>2 DEF IInv, SendTypeOK
  <2> QED
    BY <1>5, <2>1, InitOK DEF InitAll, IInv
<1>6. CASE FrameArrives /\ UNCHANGED sendVars
  BY <1>2, <1>6, ArrivesOK DEF IInv
<1>7. CASE UNCHANGED vars
  BY <1>1, <1>2, <1>7 DEF vars, IInv
<1> QED
  BY <1>3, <1>4, <1>5, <1>6, <1>7 DEF Next, Driver, Controller

\* The inductive invariant holds in every state.
THEOREM EncSound == Spec => []IInv
<1>1. Init => IInv
  BY RingBegin, SendBegin DEF Init, IInv
<1> QED
  BY <1>1, IInvStep, PTL DEF Spec

\* What is not read is intact.
LEMMA Unread ==
  ASSUME RingInv
  PROVE  UnreadIntact
<1>1. /\ RingTypeOK /\ Len(frames) \in Nat /\ Len(unread) \in Nat /\ First \in 1..Len(frames) + 1
      /\ unread \in Seq(1..MaxFrames)
  BY FrameTypes, Basics DEF RingInv, RingTypeOK
<1>2. SUFFICES ASSUME NEW i \in DOMAIN unread
               PROVE  \A a \in Cells(frames[unread[i]].start, Span(frames[unread[i]].size)) :
                        mem[a] = unread[i]
  BY DEF UnreadIntact
<1>3. i \in 1..Len(unread)
  BY <1>1
<1>4. unread[i] \in First..Len(frames) /\ unread[i] \in 1..Len(frames)
  BY <1>1, <1>3 DEF RingInv, Ids, First
<1>5. frames[unread[i]].start = Place(unread[i]) /\ Span(frames[unread[i]].size) = Long(unread[i])
  BY <1>1, <1>4, FrameTypes DEF Long
<1> QED
  BY <1>4, <1>5 DEF RingInv, Intact

\* The controller never writes into a frame the driver has not read and given back, whatever
\* arrives between two accesses of the driver; the types hold.
THEOREM NothingOverwritten == Spec => []EncInv
<1>1. IInv => EncInv
  BY Unread DEF IInv, EncInv, TypeOK, RingInv
<1> QED
  BY <1>1, EncSound, PTL

\* Between two receives gNextPacketPtr is the oldest frame or where the next one will be, EPKTCNT
\* counts what is there and the limit is odd, through damaged frames and initialisations.
THEOREM StaysInStep == Spec => []InStep
<1>1. ASSUME RingInv, rpc = "idle"
      PROVE  /\ next = IF unread = <<>> THEN wr ELSE frames[Head(unread)].start
             /\ pktcnt = Len(unread)
             /\ rdpt = 0 \/ rdpt % 2 = 1
  <2>1. /\ RingTypeOK /\ Len(frames) \in Nat /\ Len(unread) \in Nat /\ First \in 1..Len(frames) + 1
        /\ unread \in Seq(1..MaxFrames) /\ Base \in Ring /\ Held = First
    BY <1>1, FrameTypes, Basics DEF RingInv, RingTypeOK, Held
  <2>2. pktcnt = Len(unread) /\ next = Place(First)
    BY <1>1, <2>1 DEF RingInv, Ids, Chained
  <2>3. ASSUME unread = <<>>
        PROVE  next = wr
    <3>1. First = Len(frames) + 1
      BY <2>1, <2>3 DEF First
    <3> QED
      BY <2>1, <2>2, <2>3, <3>1, FrameTypes
  <2>4. ASSUME unread # <<>>
        PROVE  next = frames[Head(unread)].start
    <3>1. Len(unread) > 0
      BY <2>1, <2>4, EmptySeq
    <3>2. Head(unread) = unread[1] /\ unread[1] = First - 1 + 1 /\ First \in 1..Len(frames)
      BY <1>1, <2>1, <3>1, Tailed DEF RingInv, Ids, First
    <3> QED
      BY <2>1, <2>2, <2>4, <3>2, FrameTypes
  <2>5. rdpt = 0 \/ rdpt % 2 = 1
    <3>1. Even(Base)
      BY <1>1, <2>1 DEF RingInv, Evens, Base
    <3> QED
      BY <1>1, <2>1, <3>1, Limits DEF RingInv, Limited
  <2>6. next = IF unread = <<>> THEN wr ELSE frames[Head(unread)].start
    BY <2>2, <2>3, <2>4
  <2> QED
    BY <2>2, <2>5, <2>6
<1>2. IInv => InStep
  BY <1>1 DEF IInv, InStep
<1> QED
  BY <1>2, EncSound, PTL

\* The receive side implements PacketQueue: frames come out as they arrived, once, in order and
\* whole, or are thrown away with a damaged one or an initialisation.
THEOREM ReceivesAQueue == Spec => Fifo
<1>1. Init => Queue!Init
  BY DEF Init, RingInit, Queue!Init
<1>2. ASSUME IInv, [Next]_vars
      PROVE  [Queue!Next]_<<unread, got>>
  <2>1. RingInv /\ RingTypeOK /\ unread \in Seq(1..MaxFrames)
    BY <1>2 DEF IInv, RingInv, RingTypeOK
  <2>2. CASE FrameArrives
    <3>1. Len(frames) + 1 \in 1..MaxFrames
      <4>1. Len(frames) \in Nat
        BY <2>1, FrameTypes
      <4>2. MaxFrames \in Nat
        BY RingAssumption DEF RingAssumption
      <4>3. Len(frames) < MaxFrames
        BY <2>2 DEF FrameArrives
      <4> QED
        BY <4>1, <4>2, <4>3
    <3>2. unread' = Append(unread, Len(frames) + 1) /\ got' = got
      BY <2>2 DEF FrameArrives
    <3> QED
      BY <3>1, <3>2 DEF Queue!Next, Queue!Arrive
  <2>3. CASE HeaderRead
    <3>1. got' = got /\ (unread' = unread \/ unread' = Tail(unread)) /\ rpc = "header"
      BY <2>3 DEF HeaderRead
    <3>2. Len(unread) > 0
      BY <2>1, <3>1 DEF RingInv, Ids
    <3>3. unread # <<>>
      BY <3>2
    <3> QED
      BY <3>1, <3>3 DEF Queue!Next, Queue!Take
  <2>4. CASE DataRead
    <3>1. unread' = Tail(unread)
      BY <2>4 DEF DataRead
    <3> QED
      BY <2>1, <2>4, <3>1, DataIs DEF Queue!Next, Queue!Take
  <2>5. CASE RecvBegins \/ FreeSpace \/ PacketDone
    BY <2>5 DEF RecvBegins, FreeSpace, PacketDone
  <2>6. CASE InitAll
    BY <2>6 DEF InitAll, EncInit, Queue!Next, Queue!Empty
  <2>7. CASE UNCHANGED ringVars
    BY <2>7 DEF ringVars
  <2> QED
    BY <1>2, <2>2, <2>3, <2>4, <2>5, <2>6, <2>7 DEF Next, Driver, Controller, RecvStep, vars
<1> QED
  BY <1>1, <1>2, EncSound, PTL DEF Spec, Fifo, Queue!Spec
=============================================================================
