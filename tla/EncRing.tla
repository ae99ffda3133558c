------------------------------ MODULE EncRing ------------------------------
(***************************************************************************)
(* Receiving with the ENC28J60 (enc28j60.c): the controller stores frames in   *)
(* a ring of its memory while the driver reads them out and moves the limit    *)
(* the controller may write to.  The two run at the same time; the driver      *)
(* works by single accesses over SPI.  The controller is not part of the      *)
(* repository: its steps follow from the registers the driver uses.          *)
(***************************************************************************)
EXTENDS Naturals, Sequences, FiniteSets

CONSTANTS RxStop,    \* RXSTOP_INIT; the ring is 0..RxStop
          Sizes,     \* bytes of the frames, checksum not counted
          MaxSize,   \* size of the driver's buffer
          MaxFrames, \* bound: frames that arrive
          MaxInits   \* bound: initialisations after the first

VARIABLES mem,     \* which frame a byte of the ring belongs to; 0: none
          wr,      \* where the controller writes next
          rdpt,    \* ERXRDPT: where it must not write
          pktcnt,  \* EPKTCNT
          frames,  \* every frame that was stored: its start, size and whether it is intact
          unread,  \* history: stored and not read, oldest first
          rpc,     \* the driver: "idle", "header", "data", "free", "dec"
          next,    \* gNextPacketPtr
          hdr,     \* the frame whose header was read last; 0: bytes that are no header
          got,     \* history: frames received
          inits    \* initialisations so far

chip == <<mem, wr, rdpt, pktcnt, frames>>
driver == <<rpc, next, hdr>>
ringVars == <<chip, driver, unread, got, inits>>

ASSUME RingAssumption ==
  /\ RxStop \in 0..65534 /\ RxStop % 2 = 1
  /\ Sizes \subseteq Nat \ {0}
  /\ MaxSize \in Nat \ {0} /\ MaxFrames \in Nat /\ MaxInits \in Nat

Ring == 0..RxStop
N == RxStop + 1

HeaderSize == 6
Crc == 4

\* A frame with its header and checksum begins at an even address.
Span(size) == LET n == HeaderSize + size + Crc IN n + (n % 2)

Cells(start, n) == {(start + i) % N : i \in 0..n-1}

RingTypeOK ==
  /\ mem \in [Ring -> 0..MaxFrames]
  /\ wr \in Ring /\ rdpt \in Ring
  /\ pktcnt \in 0..MaxFrames
  /\ frames \in Seq([start : Ring, size : Sizes, intact : BOOLEAN])
  /\ unread \in Seq(1..MaxFrames)
  /\ rpc \in {"idle", "header", "data", "free", "dec"}
  /\ next \in Ring
  /\ hdr \in 0..MaxFrames
  /\ got \in Seq(0..MaxFrames)
  /\ inits \in 0..MaxInits

RingInit ==
  /\ mem = [a \in Ring |-> 0]
  /\ wr = 0 /\ rdpt = 0 /\ pktcnt = 0
  /\ frames = <<>>
  /\ unread = <<>> /\ got = <<>>
  /\ rpc = "idle" /\ next = 0 /\ hdr = 0
  /\ inits = 0

----------------------------------------------------------------------------
(* The controller *)

\* Bytes free between its write pointer and the limit, which is never written.
Free == IF wr = rdpt THEN RxStop
        ELSE IF wr > rdpt THEN RxStop - (wr - rdpt) ELSE rdpt - wr - 1

\* A frame is stored, or dropped if there is no room for it.
FrameArrives ==
  /\ Len(frames) < MaxFrames
  /\ \E size \in Sizes, intact \in BOOLEAN :
       LET id == Len(frames) + 1 IN
       /\ Span(size) <= Free
       /\ mem' = [a \in Ring |-> IF a \in Cells(wr, Span(size)) THEN id ELSE mem[a]]
       /\ wr' = (wr + Span(size)) % N
       /\ frames' = Append(frames, [start |-> wr, size |-> size, intact |-> intact])
       /\ unread' = Append(unread, id)
       /\ pktcnt' = pktcnt + 1
  /\ UNCHANGED <<rdpt, driver, got, inits>>

----------------------------------------------------------------------------
(* enc28j60_recv: called when has_recv says that EPKTCNT is not 0 *)

\* The frame whose bytes all lie in these cells, or 0 if they are of several.
FrameIn(cells) == IF \E id \in 1..Len(frames) : \A a \in cells : mem[a] = id
                  THEN CHOOSE id \in 1..Len(frames) : \A a \in cells : mem[a] = id
                  ELSE 0

\* ERDPT is set to gNextPacketPtr, the header is read.
RecvBegins ==
  /\ rpc = "idle"
  /\ pktcnt > 0
  /\ hdr' = FrameIn(Cells(next, HeaderSize))
  /\ rpc' = "header"
  /\ UNCHANGED <<chip, next, unread, got, inits>>

\* next_pkt: the limit is the byte before the next frame, in 16 bits.  The controller
\* wants it odd (errata), and the start of a frame is even.  The mutant sets it to the
\* frame itself.
LimitAtNext(n) == n
Limit(n) == LET p == (n + 65535) % 65536 IN IF p > RxStop THEN RxStop ELSE p

\* The header has the place of the next frame; a damaged frame is thrown away.
\* The mutant gives the space back before the data is read.
HeaderReadFrees ==
  /\ rpc = "header"
  /\ hdr # 0
  /\ LET f == frames[hdr] IN
       /\ next' = (f.start + Span(f.size)) % N
       /\ rpc' = IF f.intact THEN "data" ELSE "free"
       /\ unread' = IF f.intact THEN unread ELSE Tail(unread)
  /\ rdpt' = Limit(next')
  /\ UNCHANGED <<mem, wr, pktcnt, frames, hdr, got, inits>>
HeaderRead ==
  /\ rpc = "header"
  /\ hdr # 0
  /\ LET f == frames[hdr] IN
       /\ next' = (f.start + Span(f.size)) % N
       /\ rpc' = IF f.intact THEN "data" ELSE "free"
       /\ unread' = IF f.intact THEN unread ELSE Tail(unread)
  /\ UNCHANGED <<chip, hdr, got, inits>>

\* The bytes behind the header, as many as the buffer holds (PIO_TOO_LARGE).
DataRead ==
  /\ rpc = "data"
  /\ LET f   == frames[hdr]
         len == IF f.size > MaxSize THEN MaxSize ELSE f.size
     IN  got' = Append(got, FrameIn(Cells(f.start + HeaderSize, len)))
  /\ unread' = Tail(unread)
  /\ rpc' = "free"
  /\ UNCHANGED <<chip, next, hdr, inits>>

FreeSpace ==
  /\ rpc = "free"
  /\ rdpt' = Limit(next)
  /\ rpc' = "dec"
  /\ UNCHANGED <<mem, wr, pktcnt, frames, next, hdr, unread, got, inits>>

\* PKTDEC
PacketDone ==
  /\ rpc = "dec"
  /\ pktcnt' = pktcnt - 1
  /\ rpc' = "idle"
  /\ UNCHANGED <<mem, wr, rdpt, frames, next, hdr, unread, got, inits>>

\* enc28j60_init, by magic_online or a restart: the controller is reset.
EncInit ==
  /\ rpc = "idle"
  /\ inits < MaxInits
  /\ inits' = inits + 1
  /\ next' = 0
  /\ wr' = 0 /\ rdpt' = 0 /\ pktcnt' = 0
  /\ unread' = <<>>
  /\ UNCHANGED <<mem, frames, rpc, hdr, got>>

RecvStep == RecvBegins \/ HeaderRead \/ DataRead \/ FreeSpace \/ PacketDone
----------------------------------------------------------------------------
(* Properties *)

\* The driver sees a queue of frames: each as it arrived, once and in order.  Frames
\* that overwrite each other or a pointer that loses its place would break it.
Queue == INSTANCE PacketQueue WITH queue <- unread, Frame <- 1..MaxFrames
Fifo == Queue!Spec

\* The controller never writes into a frame the driver has not given back: its header,
\* its data and its checksum.
UnreadIntact ==
  \A i \in DOMAIN unread :
    LET f == frames[unread[i]] IN
      \A a \in Cells(f.start, Span(f.size)) : mem[a] = unread[i]

\* Between two receives the driver stands at the oldest frame, or where the next one
\* will be, the counter of the controller agrees, and the limit is odd.
InStep ==
  rpc = "idle" =>
    /\ next = IF unread = <<>> THEN wr ELSE frames[Head(unread)].start
    /\ pktcnt = Len(unread)
    /\ rdpt = 0 \/ rdpt % 2 = 1
=============================================================================
