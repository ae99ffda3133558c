---------------------------- MODULE FirmwareProofs --------------------------
(***************************************************************************)
(* What Firmware keeps for every ring, every number of keys, every set of run  *)
(* modes and any number of power failures.  The inductive invariant IInv has   *)
(* five parts: the ring of the console; that all parameters, in RAM and in the *)
(* EEPROM, were once made by the program; what the EEPROM can hold after saves *)
(* that were cut off; the types of the program; and which options are in force *)
(* at each place of it.                                                      *)
(***************************************************************************)
EXTENDS Firmware, Integers, FiniteSetTheorems, TLAPS

(* The receive ring *)

\* Counting one further modulo the size of the ring.
LEMMA ModNext ==
  ASSUME NEW n \in Nat \ {0}, NEW a \in Int
  PROVE  (a + 1) % n = IF (a % n) + 1 = n THEN 0 ELSE (a % n) + 1
<1>. DEFINE r == a % n
            q == a \div n
<1>1. n > 0
  OBVIOUS
<1>2. r \in 0..n-1
  BY <1>1, SMT
<1>3. q \in Int
  BY <1>1, SMT
<1>4. a = n * q + r
  BY <1>1, SMT
<1> HIDE DEF r, q
<1>5. (a + 1) % n = IF r + 1 = n THEN 0 ELSE r + 1
  BY <1>2, <1>3, <1>4, SMT
<1> QED
  BY <1>5, Zenon DEF r

\* How far e is ahead of s in the ring, and the place of the i-th character from s.
Ahead(s, e) == IF e < s THEN RxSize + e - s ELSE e - s
Slot(s, i) == IF s + i - 1 < RxSize THEN s + i - 1 ELSE s + i - 1 - RxSize

\* What is less than the size is its own remainder, also behind one whole ring.
LEMMA ModSmall ==
  ASSUME NEW n \in Nat \ {0}, NEW a \in 0..n-1
  PROVE  a % n = a /\ (a + n) % n = a
<1>1. a % n = a
  BY SMT
<1>2. (a + n) % n = a
  BY SMT
<1> QED
  BY <1>1, <1>2

\* uart_read_data_available and the places of what waits, without remainders.
LEMMA RingPlaces ==
  ASSUME UartTypeOK
  PROVE  /\ NumWaiting = Ahead(rx_start, rx_end)
         /\ NumWaiting \in 0..RxSize-1
         /\ Waiting = [i \in 1..NumWaiting |-> rx_buf[Slot(rx_start, i)]]
<1>1. RxSize \in Nat \ {0} /\ rx_start \in 0..RxSize-1 /\ rx_end \in 0..RxSize-1
  BY UartAssumption DEF UartAssumption, UartTypeOK
<1>2. NumWaiting = Ahead(rx_start, rx_end)
  <2>1. CASE rx_end < rx_start
    <3>1. RxSize + rx_end - rx_start \in 0..RxSize-1
      BY <1>1, <2>1
    <3>2. (RxSize + rx_end - rx_start) % RxSize = RxSize + rx_end - rx_start
      BY ONLY <1>1, <3>1, ModSmall
    <3> QED
      BY <2>1, <3>2 DEF NumWaiting, Ahead
  <2>2. CASE ~(rx_end < rx_start)
    <3>1. rx_end - rx_start \in 0..RxSize-1
      BY <1>1, <2>2
    <3>2. (rx_end - rx_start + RxSize) % RxSize = rx_end - rx_start
      BY ONLY <1>1, <3>1, ModSmall
    <3>3. rx_end - rx_start + RxSize = RxSize + rx_end - rx_start
      BY <1>1
    <3> QED
      BY <2>2, <3>2, <3>3 DEF NumWaiting, Ahead
  <2> QED
    BY <2>1, <2>2
<1>3. NumWaiting \in 0..RxSize-1
  BY <1>1, <1>2 DEF Ahead
<1>4. \A i \in 1..NumWaiting : (rx_start + i - 1) % RxSize = Slot(rx_start, i)
  <2>1. SUFFICES ASSUME NEW i \in 1..NumWaiting
                 PROVE  (rx_start + i - 1) % RxSize = Slot(rx_start, i)
    OBVIOUS
  <2>2. i \in 1..RxSize-1
    BY <1>1, <1>3
  <2>3. CASE rx_start + i - 1 < RxSize
    <3>1. rx_start + i - 1 \in 0..RxSize-1
      BY <1>1, <2>2, <2>3
    <3> QED
      BY <1>1, <2>3, <3>1, ModSmall DEF Slot
  <2>4. CASE ~(rx_start + i - 1 < RxSize)
    <3>1. rx_start + i - 1 - RxSize \in 0..RxSize-1
      BY <1>1, <2>2, <2>4
    <3>2. (rx_start + i - 1 - RxSize + RxSize) % RxSize = rx_start + i - 1 - RxSize
      BY ONLY <1>1, <3>1, ModSmall
    <3>3. rx_start + i - 1 - RxSize + RxSize = rx_start + i - 1
      BY <1>1, <2>2
    <3> QED
      BY <2>4, <3>2, <3>3 DEF Slot
  <2> QED
    BY <2>3, <2>4
<1> QED
  BY <1>2, <1>3, <1>4 DEF Waiting

\* KeysKept without the remainders of sums.
Held ==
  LET w == Ahead(rx_start, rx_end) IN
    /\ gone <= typed
    /\ \A i \in 1..w : rx_buf[Slot(rx_start, i)] = typed - w + i
    /\ (typed - gone) % RxSize = w

Ring == gone <= typed /\ KeysKept

\* Held says what KeysKept says.
LEMMA RingHeld ==
  ASSUME UartTypeOK
  PROVE  Ring <=> Held
<1>1. Ring <=> /\ gone <= typed
               /\ \A i \in 1..NumWaiting : rx_buf[Slot(rx_start, i)] = typed - NumWaiting + i
               /\ (typed - gone) % RxSize = NumWaiting
  BY RingPlaces DEF Ring, KeysKept
<1> QED
  BY <1>1, RingPlaces DEF Held

UartOK == UartTypeOK /\ Ring

\* The ring is right when the controller starts ...
LEMMA PowerOnOK ==
  ASSUME UartPowerOn
  PROVE  UartOK
<1>1. RxSize \in Nat \ {0} /\ MaxKeys \in Nat
  BY UartAssumption DEF UartAssumption
<1>2. UartTypeOK
  BY <1>1 DEF UartPowerOn, UartTypeOK
<1>3. 0 % RxSize = 0
  BY <1>1, ModSmall
<1>4. Held
  BY <1>1, <1>3 DEF UartPowerOn, Held, Ahead
<1> QED
  BY <1>2, <1>4, RingHeld DEF UartOK

\* ... after uart_init drops what waits ...
LEMMA UartResetOK ==
  ASSUME UartOK, UartReset
  PROVE  UartOK'
<1>1. RxSize \in Nat \ {0} /\ MaxKeys \in Nat
  BY UartAssumption DEF UartAssumption
<1>2. UartTypeOK'
  BY <1>1 DEF UartReset, UartTypeOK, UartOK
<1>3. 0 % RxSize = 0
  BY <1>1, ModSmall
<1>4. typed \in Nat /\ typed - typed = 0
  BY <1>1 DEF UartOK, UartTypeOK
<1>5. Held'
  BY <1>1, <1>3, <1>4 DEF UartReset, Held, Ahead
<1> QED
  BY <1>2, <1>5, RingHeld, PTL DEF UartOK

\* ... after uart_read takes the oldest character ...
LEMMA ReadOK ==
  ASSUME UartOK, Read
  PROVE  UartOK'
<1>1. RxSize \in Nat \ {0} /\ MaxKeys \in Nat
  BY UartAssumption DEF UartAssumption
<1>2. UartTypeOK /\ Held
  BY RingHeld DEF UartOK
<1>. DEFINE w == Ahead(rx_start, rx_end)
<1>3. /\ rx_start \in 0..RxSize-1 /\ rx_end \in 0..RxSize-1 /\ rx_start # rx_end
      /\ rx_start' = Advance(rx_start) /\ rx_end' = rx_end
      /\ typed' = typed /\ rx_buf' = rx_buf /\ gone' = gone + 1
      /\ typed \in 0..MaxKeys /\ gone \in 0..MaxKeys /\ gone <= typed
  BY <1>2 DEF UartTypeOK, Held, Read, DataAvailable
<1>4. w \in 1..RxSize-1 /\ Ahead(rx_start', rx_end') = w - 1
  BY <1>1, <1>3 DEF Ahead, Advance
<1>5. gone < typed
  <2>1. (typed - gone) % RxSize = w
    BY <1>2 DEF Held
  <2>2. typed # gone
    <3>1. SUFFICES ASSUME typed = gone PROVE FALSE
      OBVIOUS
    <3>2. typed - gone = 0
      BY <1>3, <3>1
    <3> QED
      BY <1>1, <1>4, <2>1, <3>2, ModSmall
  <2> QED
    BY <1>3, <2>2
<1>6. (typed' - gone') % RxSize = w - 1
  <2>. DEFINE a == typed - gone - 1
  <2>1. a \in Int /\ a + 1 = typed - gone /\ typed' - gone' = a
    BY <1>1, <1>3
  <2>2. (a + 1) % RxSize = w
    BY <1>2, <2>1 DEF Held
  <2>3. a % RxSize \in Int
    BY <1>1, <2>1
  <2>4. (a + 1) % RxSize = IF (a % RxSize) + 1 = RxSize THEN 0 ELSE (a % RxSize) + 1
    BY <1>1, <2>1, ModNext
  <2>5. a % RxSize = w - 1
    BY <1>4, <2>2, <2>3, <2>4
  <2> QED
    BY <2>1, <2>5
<1>7. \A i \in 1..(w - 1) : rx_buf[Slot(rx_start', i)] = typed - (w - 1) + i
  <2>1. SUFFICES ASSUME NEW i \in 1..(w - 1)
                 PROVE  rx_buf[Slot(rx_start', i)] = typed - (w - 1) + i
    OBVIOUS
  <2>2. i + 1 \in 1..w /\ typed - (w - 1) + i = typed - w + (i + 1)
    BY <1>3, <1>4, <1>1
  <2>3. Slot(rx_start', i) = Slot(rx_start, i + 1)
    BY <1>1, <1>3, <1>4 DEF Slot, Advance
  <2> QED
    BY <1>2, <2>2, <2>3 DEF Held
<1>8. UartTypeOK'
  <2>1. Advance(rx_start) \in 0..RxSize-1
    BY <1>1, <1>3 DEF Advance
  <2> QED
    BY <1>1, <1>2, <1>3, <1>5, <2>1 DEF UartTypeOK
<1>9. Held'
  BY <1>1, <1>3, <1>4, <1>5, <1>6, <1>7 DEF Held
<1> QED
  BY <1>8, <1>9, RingHeld, PTL DEF UartOK

\* ... and after the interrupt stores one, also when that drops a whole ring.
LEMMA IsrOK ==
  ASSUME UartOK, Isr
  PROVE  UartOK'
<1>1. RxSize \in Nat \ {0} /\ MaxKeys \in Nat
  BY UartAssumption DEF UartAssumption
<1>2. UartTypeOK /\ Held
  BY RingHeld DEF UartOK
<1>. DEFINE w == Ahead(rx_start, rx_end)
            v == Ahead(rx_start', rx_end')
<1>3. /\ rx_start \in 0..RxSize-1 /\ rx_end \in 0..RxSize-1
      /\ rx_end' = Advance(rx_end) /\ rx_start' = rx_start
      /\ rx_buf \in [0..RxSize-1 -> 0..MaxKeys]
      /\ typed' = typed + 1 /\ rx_buf' = [rx_buf EXCEPT ![rx_end] = typed + 1] /\ gone' = gone
      /\ typed \in 0..MaxKeys /\ gone \in 0..MaxKeys /\ gone <= typed /\ typed < MaxKeys
  BY <1>2 DEF UartTypeOK, Held, Isr
<1>4. w \in 0..RxSize-1 /\ v = IF w + 1 = RxSize THEN 0 ELSE w + 1
  BY <1>1, <1>3 DEF Ahead, Advance
<1>5. (typed' - gone') % RxSize = v
  <2>1. typed - gone \in Int /\ typed' - gone' = (typed - gone) + 1
    BY <1>1, <1>3
  <2>2. (typed - gone) % RxSize = w
    BY <1>2 DEF Held
  <2> HIDE DEF w, v
  <2>3. ((typed - gone) + 1) % RxSize = IF w + 1 = RxSize THEN 0 ELSE w + 1
    BY <1>1, <2>1, <2>2, ModNext
  <2> QED
    BY <1>4, <2>1, <2>3
<1>6. \A i \in 1..v : rx_buf'[Slot(rx_start, i)] = typed' - v + i
  <2>1. SUFFICES ASSUME NEW i \in 1..v
                 PROVE  rx_buf'[Slot(rx_start, i)] = typed' - v + i
    OBVIOUS
  <2>2. v = w + 1 /\ i \in 1..(w + 1) /\ w + 1 < RxSize
    BY <1>1, <1>4
  <2>3. CASE i = w + 1
    <3>1. Slot(rx_start, i) = rx_end
      BY <1>1, <1>3, <2>2, <2>3 DEF Slot, Ahead
    <3> QED
      BY <1>1, <1>3, <2>2, <2>3, <3>1
  <2>4. CASE i \in 1..w
    <3>1. Slot(rx_start, i) # rx_end /\ Slot(rx_start, i) \in 0..RxSize-1
      BY <1>1, <1>3, <2>2, <2>4 DEF Slot, Ahead
    <3>2. rx_buf[Slot(rx_start, i)] = typed - w + i
      BY <1>2, <2>4 DEF Held
    <3>3. rx_buf'[Slot(rx_start, i)] = rx_buf[Slot(rx_start, i)]
      BY <1>3, <3>1
    <3>4. typed' - v + i = typed - w + i
      BY <1>1, <1>3, <1>4, <2>2, <2>4
    <3> QED
      BY <3>2, <3>3, <3>4
  <2> QED
    BY <1>1, <1>4, <2>2, <2>3, <2>4
<1>7. UartTypeOK'
  <2>1. Advance(rx_end) \in 0..RxSize-1
    BY <1>1, <1>3 DEF Advance
  <2>2. rx_buf' \in [0..RxSize-1 -> 0..MaxKeys]
    BY <1>1, <1>3
  <2> QED
    BY <1>1, <1>3, <2>1, <2>2 DEF UartTypeOK
<1>8. Held'
  BY <1>1, <1>3, <1>5, <1>6 DEF Held
<1> QED
  BY <1>7, <1>8, RingHeld, PTL DEF UartOK

----------------------------------------------------------------------------
(* The parameters and the EEPROM *)

Cells == DataCells \cup CrcCells

\* What the program ever has as parameters.
Proper == {p \in Param : /\ MacOf(p) \in Macs
                         /\ p["flow_ctl"] \in 0..1 /\ p["full_duplex"] \in 0..1}

\* All parameters and all halves of checksums are proper, or of nothing ever saved.
AllProper ==
  /\ DOMAIN rom = Cells
  /\ param \in Proper /\ saved \in Proper
  /\ torn \subseteq Proper
  /\ \A c \in CrcCells : rom[c] \in Proper \cup {NoCrc}

ParamsOK == ParamTypeOK /\ AllProper

\* What the commands and an announced MAC address make of proper parameters is proper; setting
\* the address leaves the options alone and setting an option the address.
LEMMA ProperParams ==
  /\ Default \in Proper
  /\ \A p \in Proper : /\ MacOf(p) \in Macs
                       /\ \A mac \in Macs : /\ WithMac(p, mac) \in Proper
                                            /\ MacOf(WithMac(p, mac)) = mac
                                            /\ \A o \in Options : WithMac(p, mac)[o] = p[o]
                       /\ \A o \in Options, v \in 0..1 :
                            /\ [p EXCEPT ![o] = v] \in Proper
                            /\ MacOf([p EXCEPT ![o] = v]) = MacOf(p)
<1>1. Default \in Proper
  BY DEF Default, Proper, Param, MacOf, Macs, DataCells, MacCells, Options
<1>2. SUFFICES ASSUME NEW p \in Proper
               PROVE  /\ MacOf(p) \in Macs
                      /\ \A mac \in Macs : /\ WithMac(p, mac) \in Proper
                                           /\ MacOf(WithMac(p, mac)) = mac
                                           /\ \A o \in Options : WithMac(p, mac)[o] = p[o]
                      /\ \A o \in Options, v \in 0..1 :
                           /\ [p EXCEPT ![o] = v] \in Proper
                           /\ MacOf([p EXCEPT ![o] = v]) = MacOf(p)
  BY <1>1
<1>3. MacOf(p) \in Macs /\ p \in Param /\ p["flow_ctl"] \in 0..1 /\ p["full_duplex"] \in 0..1
  BY DEF Proper
<1>4. ASSUME NEW mac \in Macs
      PROVE  /\ WithMac(p, mac) \in Proper
             /\ MacOf(WithMac(p, mac)) = mac
             /\ \A o \in Options : WithMac(p, mac)[o] = p[o]
  <2>1. mac \in (0..2) \X (0..2)
    BY DEF Macs
  <2>2. WithMac(p, mac) \in Param
    BY <1>3, <2>1 DEF WithMac, Param, DataCells, MacCells, Options
  <2>3. \A o \in Options : WithMac(p, mac)[o] = p[o]
    BY <1>3 DEF WithMac, Param, DataCells, MacCells, Options
  <2>4. MacOf(WithMac(p, mac)) = mac
    BY <1>3, <2>1 DEF WithMac, MacOf, Param, DataCells, MacCells
  <2> QED
    BY <1>3, <2>2, <2>3, <2>4 DEF Proper, Options
<1>5. ASSUME NEW o \in Options, NEW v \in 0..1
      PROVE  /\ [p EXCEPT ![o] = v] \in Proper
             /\ MacOf([p EXCEPT ![o] = v]) = MacOf(p)
  <2>. DEFINE q == [p EXCEPT ![o] = v]
  <2>1. q \in Param
    BY <1>3 DEF Param, DataCells, MacCells, Options
  <2>2. MacOf(q) = MacOf(p)
    BY <1>3 DEF MacOf, Param, DataCells, MacCells, Options
  <2>3. q["flow_ctl"] \in 0..1 /\ q["full_duplex"] \in 0..1
    BY <1>3 DEF Param, DataCells, MacCells, Options
  <2> HIDE DEF q
  <2>4. q \in Proper /\ MacOf(q) = MacOf(p)
    BY <1>3, <2>1, <2>2, <2>3 DEF Proper
  <2> QED
    BY <2>4 DEF q
<1> QED
  BY <1>3, <1>4, <1>5

\* The cells of the EEPROM, what param_save writes into them, and that an unwritten checksum
\* is that of no parameters.
LEMMA CellNames ==
  /\ DataCells \cap CrcCells = {} /\ Cells = DataCells \cup CrcCells
  /\ CrcCells = {"crc_lo", "crc_hi"} /\ "crc_lo" # "crc_hi"
  /\ \A p : /\ \A c \in DataCells : Image(p)[c] = p[c]
            /\ \A c \in CrcCells : Image(p)[c] = p
  /\ \A c \in DataCells : Blank[c] = Junk
  /\ \A c \in CrcCells : Blank[c] = NoCrc
  /\ NoCrc \notin Param
<1>1. DataCells \cap CrcCells = {} /\ Cells = DataCells \cup CrcCells
      /\ CrcCells = {"crc_lo", "crc_hi"} /\ "crc_lo" # "crc_hi"
  BY DEF Cells, DataCells, CrcCells, MacCells, Options
<1>2. \A p : /\ \A c \in DataCells : Image(p)[c] = p[c]
             /\ \A c \in CrcCells : Image(p)[c] = p
  BY <1>1 DEF Image, Crc
<1>3. /\ \A c \in DataCells : Blank[c] = Junk
      /\ \A c \in CrcCells : Blank[c] = NoCrc
  BY <1>1 DEF Blank
<1>4. NoCrc \notin Param
  <2>1. "mac_hi" \in DataCells
    BY DEF DataCells, MacCells
  <2> QED
    BY <2>1 DEF NoCrc, Param, Junk
<1> QED
  BY <1>1, <1>2, <1>3, <1>4

\* param_load and param_init give proper parameters: a checksum that matches was computed by
\* param_save from what the cells hold.
LEMMA LoadsProper ==
  ASSUME ParamsOK
  PROVE  /\ Load \in Proper /\ InitParam \in Proper
         /\ CrcMatches => Data \in Proper /\ \A c \in CrcCells : rom[c] = Data
<1>1. ASSUME CrcMatches
      PROVE  Data \in Proper /\ \A c \in CrcCells : rom[c] = Data
  <2>1. \A c \in CrcCells : rom[c] = Data
    BY <1>1 DEF CrcMatches, Crc
  <2>2. Data \in Proper \cup {NoCrc}
    BY <2>1, CellNames DEF ParamsOK, AllProper
  <2>3. Data # NoCrc
    <3>1. "mac_hi" \in DataCells
      BY DEF DataCells, MacCells
    <3>2. Data["mac_hi"] = rom["mac_hi"] /\ NoCrc["mac_hi"] = 4
      BY <3>1 DEF Data, NoCrc, Junk
    <3>3. rom["mac_hi"] \in 0..3
      BY <3>1 DEF ParamsOK, ParamTypeOK, Junk
    <3> QED
      BY <3>2, <3>3
  <2> QED
    BY <2>1, <2>2, <2>3
<1> QED
  BY <1>1, ProperParams DEF Load, InitParam, LoadOK, ParamsOK, AllProper

\* A command that changes the parameters and not the EEPROM keeps ParamsOK ...
LEMMA NewParamOK ==
  ASSUME ParamsOK, param' \in Proper, UNCHANGED romVars
  PROVE  ParamsOK'
<1>1. Proper \subseteq Param
  BY DEF Proper
<1>2. /\ rom' = rom /\ todo' = todo /\ busy' = busy
      /\ saved' = saved /\ torn' = torn /\ twice' = twice
  BY DEF romVars
<1> QED
  BY <1>1, <1>2 DEF ParamsOK, ParamTypeOK, AllProper

\* ... and so do the call of param_save, ...
LEMMA SaveBeginsOK ==
  ASSUME ParamsOK, NEW p \in Proper, SaveBegins(p)
  PROVE  ParamsOK'
<1>1. Proper \subseteq Param
  BY DEF Proper
<1>2. /\ param' = p /\ todo' = Cells /\ torn' = torn \cup {p} /\ twice' = twice \cup (torn \cap {p})
      /\ rom' = rom /\ busy' = busy /\ saved' = saved
  BY DEF SaveBegins, Cells
<1> QED
  BY <1>1, <1>2 DEF ParamsOK, ParamTypeOK, AllProper, Cells

\* ... each byte it writes, ...
LEMMA SaveByteOK ==
  ASSUME ParamsOK, SaveByte
  PROVE  ParamsOK'
<1>1. Proper \subseteq Param
  BY DEF Proper
<1>2. PICK c \in todo : /\ rom' = [rom EXCEPT ![c] = Image(param)[c]]
                        /\ todo' = todo \ {c} /\ busy' = {c}
  BY DEF SaveByte
<1>3. /\ param' = param /\ param \in Proper
      /\ \/ saved' = param /\ torn' = {} /\ twice' = {}
         \/ saved' = saved /\ torn' = torn /\ twice' = twice
  BY DEF SaveByte, ParamsOK, AllProper
<1>4. c \in Cells /\ DOMAIN rom = Cells
  BY DEF ParamsOK, ParamTypeOK, AllProper, Cells
<1>5. Cardinality({c}) <= 1
  BY FS_Singleton
<1>6. \A d \in DataCells : rom'[d] \in 0..Junk
  <2>1. \A d \in DataCells : param[d] \in 0..Junk
    BY <1>1, <1>3 DEF Param, Junk
  <2> QED
    BY <1>2, <1>4, <2>1, CellNames DEF ParamsOK, ParamTypeOK
<1>7. \A d \in CrcCells : rom'[d] \in Proper \cup {NoCrc}
  BY <1>2, <1>3, <1>4, CellNames DEF ParamsOK, AllProper
<1>8. ParamTypeOK'
  BY <1>1, <1>2, <1>3, <1>4, <1>5, <1>6, <1>7 DEF ParamsOK, ParamTypeOK, Cells
<1>9. AllProper'
  BY <1>2, <1>3, <1>4, <1>7 DEF ParamsOK, AllProper
<1> QED
  BY <1>8, <1>9 DEF ParamsOK

\* ... the end of a write ...
LEMMA NotBusyOK ==
  ASSUME ParamsOK, busy' = {}, UNCHANGED <<param, rom, todo, saved, torn, twice>>
  PROVE  ParamsOK'
<1>1. Cardinality({}) <= 1
  BY FS_EmptySet
<1> QED
  BY <1>1 DEF ParamsOK, ParamTypeOK, AllProper

\* What a power failure leaves of the EEPROM.
LEMMA TornCells ==
  ASSUME ParamsOK, RomTorn
  PROVE  /\ DOMAIN rom' = Cells
         /\ \A c \in Cells : \/ rom'[c] = rom[c]
                             \/ c \in busy /\ rom'[c] = IF c \in DataCells THEN Junk ELSE NoCrc
<1>1. DOMAIN rom = Cells
  BY DEF ParamsOK, AllProper
<1> QED
  BY <1>1 DEF RomTorn

\* ... and a power failure.
LEMMA RomTornOK ==
  ASSUME ParamsOK, RomTorn
  PROVE  ParamsOK'
<1>1. Cardinality({}) <= 1
  BY FS_EmptySet
<1>2. \A c \in DataCells : rom'[c] \in 0..Junk
  BY TornCells, CellNames DEF ParamsOK, ParamTypeOK, Junk
<1>3. \A c \in CrcCells : rom'[c] \in Proper \cup {NoCrc}
  BY TornCells, CellNames DEF ParamsOK, AllProper
<1>4. /\ param' = param /\ todo' = {} /\ busy' = {} /\ saved' = saved /\ twice' = twice
      /\ torn' = torn \cup {saved : c \in busy}
  BY DEF RomTorn
<1>5. torn \subseteq torn' /\ torn' \subseteq torn \cup {saved}
  BY <1>4
<1>6. Proper \subseteq Param
  BY DEF Proper
<1>7. ParamTypeOK'
  BY <1>1, <1>2, <1>3, <1>4, <1>5, <1>6 DEF ParamsOK, ParamTypeOK, AllProper
<1>8. AllProper'
  BY <1>3, <1>4, <1>5, TornCells DEF ParamsOK, AllProper
<1> QED
  BY <1>7, <1>8 DEF ParamsOK

----------------------------------------------------------------------------
(* The steps, by what they do to the ring, the parameters and the EEPROM *)

\* A step resets the ring, reads from it, stores into it or leaves it alone.
LEMMA UartMoves ==
  ASSUME [Next]_vars
  PROVE  UartReset \/ Read \/ Isr \/ UNCHANGED uartVars
BY DEF Next, Program, Shell, Start, Enter, LeaveLoop, Reset, NoKey, Key, KeyReturn, Line, Command,
       OtherLine, CmdParamLoad, CmdParamReset, CmdMacAddr, CmdToggle, CmdParamSave, CmdQuit, CmdReset,
       HandleOther, MagicOnline, Byte, Saved, PowerFails, vars

\* Every step of the firmware keeps the ring.
LEMMA UartStep ==
  ASSUME UartOK, [Next]_vars
  PROVE  UartOK'
<1>1. CASE UNCHANGED uartVars
  BY <1>1 DEF UartOK, UartTypeOK, Ring, KeysKept, Waiting, NumWaiting, uartVars
<1> QED
  BY <1>1, UartMoves, UartResetOK, ReadOK, IsrOK

\* While param_save runs the program does nothing else.
Saving ==
  /\ pc \in {"init", "reset"} => todo = {}
  /\ pc = "init" => busy = {}
  /\ todo # {} => pc = "save" /\ param \in torn
  /\ todo # {} => \A c \in Cells \ todo : rom[c] = Image(param)[c]

\* The kinds of steps, by the parameters and the EEPROM.
Changes == param' \in Proper /\ UNCHANGED romVars /\ todo = {} /\ pc' # "init"
Begins == \E p \in Proper : SaveBegins(p) /\ todo = {} /\ pc' = "save"
Writes == SaveByte /\ pc = "save" /\ pc' = "save"
Settles == /\ busy' = {} /\ UNCHANGED <<param, rom, todo, saved, torn, twice>>
           /\ pc' = pc \/ (todo = {} /\ pc' = "init")
Fails == RomTorn /\ pc' = "init"

\* Every step changes the parameters outside param_save, calls it, writes one of its bytes, ends
\* a write, cuts it off, or leaves all of this alone.
LEMMA ParamMoves ==
  ASSUME ParamsOK, Saving, [Next]_vars
  PROVE  Changes \/ Begins \/ Writes \/ Settles \/ Fails \/ UNCHANGED <<paramVars, pc>>
<1>. USE DEF Goto
<1>1. param \in Proper /\ (pc # "save" => todo = {})
  BY DEF ParamsOK, AllProper, Saving
<1>2. CASE Start
  BY <1>1, <1>2, LoadsProper DEF Start, Changes
<1>3. CASE Enter
  BY <1>1, <1>3 DEF Enter, Changes, paramVars
<1>4. CASE LeaveLoop
  BY <1>1, <1>4 DEF LeaveLoop, Changes, paramVars
<1>5. CASE Reset
  BY <1>1, <1>5 DEF Reset, Settles
<1>6. CASE NoKey \/ Key \/ KeyReturn \/ HandleOther
  BY <1>1, <1>6 DEF NoKey, Key, KeyReturn, HandleOther, Changes, paramVars
<1>7. ASSUME NEW p \in Proper, NEW what, Command(p, what)
      PROVE  Changes
  BY <1>1, <1>7 DEF Command, Line, Changes
<1>8. CASE OtherLine \/ CmdParamLoad \/ CmdParamReset \/ CmdMacAddr
  <2>1. Load \in Proper /\ Default \in Proper /\ \A mac \in Macs : WithMac(param, mac) \in Proper
    BY <1>1, LoadsProper, ProperParams
  <2> QED
    BY <1>1, <1>7, <1>8, <2>1 DEF OtherLine, CmdParamLoad, CmdParamReset, CmdMacAddr
<1>9. CASE CmdToggle
  <2>1. PICK o \in Options, v \in 0..1 : param' = [param EXCEPT ![o] = v]
    BY <1>9 DEF CmdToggle
  <2>2. param' \in Proper
    BY <1>1, <2>1, ProperParams
  <2> QED
    BY <1>1, <1>9, <2>2 DEF CmdToggle, Line, Changes
<1>10. CASE CmdParamSave
  BY <1>1, <1>10 DEF CmdParamSave, Line, Begins
<1>11. CASE CmdQuit \/ CmdReset
  BY <1>1, <1>11 DEF CmdQuit, CmdReset, Line, Changes, paramVars
<1>12. CASE MagicOnline
  <2>1. PICK mac \in Macs :
          IF busy = {} THEN SaveBegins(WithMac(param, mac))
                       ELSE param' = WithMac(param, mac) /\ UNCHANGED romVars
    BY <1>12 DEF MagicOnline
  <2>2. WithMac(param, mac) \in Proper
    BY <1>1, ProperParams
  <2>3. todo = {} /\ pc' = "save"
    BY <1>1, <1>12 DEF MagicOnline
  <2> QED
    BY <2>1, <2>2, <2>3 DEF Begins, Changes
<1>13. CASE Byte
  BY <1>13 DEF Byte, Writes, progVars
<1>14. CASE Saved
  BY <1>1, <1>14 DEF Saved, Changes, paramVars
<1>15. CASE ByteDone /\ UNCHANGED <<uartVars, progVars>>
  BY <1>15 DEF ByteDone, Settles, progVars
<1>16. CASE Isr /\ UNCHANGED <<paramVars, progVars>>
  BY <1>16 DEF progVars
<1>17. CASE PowerFails
  BY <1>17 DEF PowerFails, Fails
<1>18. CASE UNCHANGED vars
  BY <1>18 DEF vars, progVars
<1> QED
  BY <1>2, <1>3, <1>4, <1>5, <1>6, <1>8, <1>9, <1>10, <1>11, <1>12, <1>13, <1>14, <1>15, <1>16,
     <1>17, <1>18 DEF Next, Program, Shell

\* Every step keeps all parameters proper.
LEMMA ParamsStep ==
  ASSUME ParamsOK, Saving, [Next]_vars
  PROVE  ParamsOK'
<1>1. CASE Changes
  BY <1>1, NewParamOK DEF Changes
<1>2. CASE Begins
  BY <1>2, SaveBeginsOK DEF Begins
<1>3. CASE Writes
  BY <1>3, SaveByteOK DEF Writes
<1>4. CASE Settles
  BY <1>4, NotBusyOK DEF Settles
<1>5. CASE Fails
  BY <1>5, RomTornOK DEF Fails
<1>6. CASE UNCHANGED <<paramVars, pc>>
  BY <1>6, NewParamOK DEF paramVars, ParamsOK, AllProper
<1> QED
  BY <1>1, <1>2, <1>3, <1>4, <1>5, <1>6, ParamMoves

----------------------------------------------------------------------------
(* What a power failure can leave *)

\* Without a save that was cut off the EEPROM holds the parameters saved last, or nothing
\* was ever saved.
Whole ==
  torn = {} => \/ \A c \in Cells : rom[c] = Image(saved)[c]
               \/ saved = Default /\ \A c \in Cells : rom[c] = Blank[c]

\* Each half of the checksum is of the parameters saved last or of a save cut off; both are of
\* the same parameters only if those were saved last or cut off twice.
Halves ==
  /\ \A c \in CrcCells : rom[c] \in {saved, NoCrc} \cup torn
  /\ rom["crc_lo"] = rom["crc_hi"] => rom["crc_lo"] \in {saved, NoCrc} \cup twice
  /\ \A c \in todo \cap CrcCells : rom[c] = param => param \in {saved} \cup twice

RomInv == Saving /\ Whole /\ Halves

\* The call of param_save keeps RomInv: what half of a checksum is of the new parameters already
\* was left by a save of the same parameters.
LEMMA BeginsRom ==
  ASSUME ParamsOK, RomInv, Begins
  PROVE  RomInv'
<1>1. PICK p \in Proper : SaveBegins(p)
  BY DEF Begins
<1>2. /\ param' = p /\ todo' = Cells /\ torn' = torn \cup {p} /\ twice' = twice \cup (torn \cap {p})
      /\ rom' = rom /\ busy' = busy /\ saved' = saved /\ pc' = "save" /\ todo = {}
  BY <1>1 DEF SaveBegins, Begins, Cells
<1>3. p # NoCrc
  BY CellNames DEF Proper
<1>4. Saving'
  BY <1>2 DEF Saving
<1>5. Whole'
  BY <1>2 DEF Whole
<1>6. \A c \in todo' \cap CrcCells : rom'[c] = param' => param' \in {saved'} \cup twice'
  BY <1>2, <1>3 DEF RomInv, Halves
<1>7. Halves'
  BY <1>2, <1>6 DEF RomInv, Halves
<1> QED
  BY <1>4, <1>5, <1>7 DEF RomInv

\* A byte written by param_save keeps RomInv; with the last one all cells hold the parameters.
LEMMA WritesRom ==
  ASSUME ParamsOK, RomInv, Writes
  PROVE  RomInv'
<1>1. PICK c \in todo : /\ rom' = [rom EXCEPT ![c] = Image(param)[c]]
                        /\ todo' = todo \ {c} /\ busy' = {c}
                        /\ todo \cap DataCells # {} => c \in DataCells
  BY DEF Writes, SaveByte
<1>2. /\ param' = param /\ param \in torn /\ pc' = "save"
      /\ IF todo' = {} THEN saved' = param /\ torn' = {} /\ twice' = {}
                       ELSE saved' = saved /\ torn' = torn /\ twice' = twice
  BY <1>1 DEF Writes, SaveByte, RomInv, Saving
<1>3. DOMAIN rom = Cells /\ todo \subseteq Cells
  BY DEF ParamsOK, ParamTypeOK, AllProper, Cells
<1>4. \A d \in Cells \ todo' : rom'[d] = Image(param)[d]
  BY <1>1, <1>3 DEF RomInv, Saving
<1>5. Saving'
  BY <1>1, <1>2, <1>4 DEF Saving
<1>6. CASE todo' = {}
  <2>1. saved' = param /\ torn' = {} /\ twice' = {}
    BY <1>2, <1>6
  <2>2. \A d \in Cells : rom'[d] = Image(saved')[d]
    BY <1>4, <1>6, <2>1
  <2>3. Whole'
    BY <2>2 DEF Whole
  <2>4. \A d \in CrcCells : rom'[d] = saved'
    BY <2>2, CellNames
  <2>5. Halves'
    BY <1>6, <2>4, CellNames DEF Halves
  <2> QED
    BY <1>5, <2>3, <2>5 DEF RomInv
<1>7. CASE todo' # {}
  <2>1. saved' = saved /\ torn' = torn /\ twice' = twice /\ torn # {}
    BY <1>2, <1>7
  <2>2. Whole'
    BY <2>1 DEF Whole
  <2>3. \A d \in CrcCells : rom'[d] = IF d = c THEN param ELSE rom[d]
    BY <1>1, <1>3, CellNames
  <2>4. \A d \in CrcCells : rom'[d] \in {saved, NoCrc} \cup torn
    BY <1>2, <2>3 DEF RomInv, Halves
  <2>5. \A d \in todo' \cap CrcCells : rom'[d] = param => param \in {saved} \cup twice
    BY <1>1, <2>3 DEF RomInv, Halves
  <2>6. ASSUME rom'["crc_lo"] = rom'["crc_hi"]
        PROVE  rom'["crc_lo"] \in {saved, NoCrc} \cup twice
    <3>1. CASE c \in DataCells
      BY <2>3, <2>6, <3>1, CellNames DEF RomInv, Halves
    <3>2. CASE c \in CrcCells
      <4>1. PICK d \in CrcCells : d # c /\ d \in todo'
        BY <1>1, <1>3, <1>7, <3>2, CellNames
      <4>2. rom'[d] = param
        BY <2>3, <2>6, <3>2, <4>1, CellNames
      <4> QED
        BY <2>3, <2>5, <2>6, <3>2, <4>1, <4>2, CellNames
    <3> QED
      BY <1>1, <1>3, <3>1, <3>2, CellNames
  <2>7. Halves'
    BY <1>2, <2>1, <2>4, <2>5, <2>6 DEF Halves
  <2> QED
    BY <1>5, <2>2, <2>7 DEF RomInv
<1> QED
  BY <1>6, <1>7

\* A power failure keeps RomInv: the byte it may spoil makes the parameters saved last a save
\* that was cut off.
LEMMA FailsRom ==
  ASSUME ParamsOK, RomInv, Fails
  PROVE  RomInv'
<1>1. /\ param' = param /\ todo' = {} /\ busy' = {} /\ saved' = saved /\ twice' = twice
      /\ torn' = torn \cup {saved : c \in busy} /\ pc' = "init"
  BY DEF Fails, RomTorn
<1>2. torn \subseteq torn' /\ (torn' = {} => torn = {} /\ busy = {})
  BY <1>1
<1>3. \A c \in Cells : \/ rom'[c] = rom[c]
                       \/ c \in busy /\ rom'[c] = IF c \in DataCells THEN Junk ELSE NoCrc
  BY TornCells DEF Fails
<1>4. Saving'
  BY <1>1 DEF Saving
<1>5. Whole'
  <2>1. SUFFICES ASSUME torn' = {} PROVE Whole'
    BY DEF Whole
  <2>2. torn = {} /\ \A c \in Cells : rom'[c] = rom[c]
    BY <1>2, <1>3, <2>1
  <2> QED
    BY <1>1, <2>2 DEF RomInv, Whole
<1>6. \A c \in CrcCells : rom'[c] = rom[c] \/ rom'[c] = NoCrc
  BY <1>3, CellNames
<1>7. Halves'
  BY <1>1, <1>2, <1>6, CellNames DEF RomInv, Halves
<1> QED
  BY <1>4, <1>5, <1>7 DEF RomInv

\* Every step keeps what is known of the EEPROM.
LEMMA RomStep ==
  ASSUME ParamsOK, RomInv, [Next]_vars
  PROVE  RomInv'
<1>1. CASE Changes
  BY <1>1 DEF Changes, romVars, RomInv, Saving, Whole, Halves
<1>2. CASE Settles
  BY <1>2 DEF Settles, RomInv, Saving, Whole, Halves
<1>3. CASE UNCHANGED <<paramVars, pc>>
  BY <1>3 DEF paramVars, romVars, RomInv, Saving, Whole, Halves
<1> QED
  BY <1>1, <1>2, <1>3, ParamMoves, BeginsRom, WritesRom, FailsRom DEF RomInv

\* What param_init brings up at a start.
LEMMA StartParams ==
  ASSUME ParamsOK, RomInv, Start
  PROVE  /\ param' \in {saved, Default} \cup twice
         /\ torn = {} => param' = saved
<1>1. busy = {} /\ param' = InitParam
  BY DEF Start, RomInv, Saving
<1>2. param' = IF CrcMatches THEN Data ELSE Default
  BY <1>1 DEF InitParam, LoadOK
<1>3. param' \in {saved, Default} \cup twice
  <2>1. CASE CrcMatches
    <3>1. Data \in Proper /\ rom["crc_lo"] = Data /\ rom["crc_hi"] = Data
      BY <2>1, LoadsProper, CellNames
    <3>2. Data # NoCrc
      BY <3>1, CellNames DEF Proper
    <3> QED
      BY <1>2, <2>1, <3>1, <3>2 DEF RomInv, Halves
  <2> QED
    BY <1>2, <2>1
<1>4. ASSUME torn = {}
      PROVE  param' = saved
  <2>1. CASE \A c \in Cells : rom[c] = Image(saved)[c]
    <3>1. saved \in Param
      BY DEF ParamsOK, ParamTypeOK
    <3>2. \A c \in DataCells : rom[c] = saved[c]
      BY <2>1, CellNames
    <3>3. Data = saved
      BY <3>1, <3>2 DEF Data, Param
    <3>4. CrcMatches
      BY <2>1, <3>3, CellNames DEF CrcMatches, Crc
    <3> QED
      BY <1>2, <3>3, <3>4
  <2>2. CASE saved = Default /\ \A c \in Cells : rom[c] = Blank[c]
    <3>1. ~CrcMatches
      <4>1. SUFFICES ASSUME CrcMatches PROVE FALSE
        OBVIOUS
      <4>2. Data \in Param /\ rom["crc_lo"] = Data
        BY <4>1, LoadsProper, CellNames DEF Proper
      <4> QED
        BY <2>2, <4>2, CellNames
    <3> QED
      BY <1>2, <2>2, <3>1
  <2> QED
    BY <1>4, <2>1, <2>2 DEF RomInv, Whole
<1> QED
  BY <1>3, <1>4

----------------------------------------------------------------------------
(* The program *)

\* The part of TypeOK about the program.
ProgOK ==
  /\ pc \in {"init", "enter", "run", "handle", "shell", "save", "reset"}
  /\ run_mode \in Modes /\ mode \in Modes
  /\ result \in {"done", "restart"}
  /\ back \in {"shell", "magic"}
  /\ ctl \in [on : BOOLEAN, mac : Macs, full_duplex : 0..1]
  /\ flow \in 0..1
  /\ changed \subseteq {"params", "mac", "learned"}
  /\ fails \in 0..MaxFails

\* The options of the parameters are in force.
Applied ==
  /\ "params" \notin changed /\ mode = "bridge" => flow = param["flow_ctl"]
  /\ mode # "pb_test" /\ "params" \notin changed =>
       /\ ctl.on
       /\ "mac" \notin changed => ctl.mac = MacOf(param)
       /\ "learned" \notin changed => ctl.full_duplex = param["full_duplex"]

\* In command mode the options may differ as long as the loop is to be restarted.
Pending ==
  /\ mode # "pb_test" /\ "params" \notin changed =>
       ctl.on /\ ("mac" \notin changed => ctl.mac = MacOf(param))
  /\ result = "done" => Applied

\* Which options are in force, by the place of the program.
InForce ==
  /\ pc \in {"run", "handle"} => Applied
  /\ pc = "shell" => Pending
  /\ pc = "save" /\ back = "shell" => Pending
  /\ pc = "save" /\ back = "magic" =>
       /\ mode = "bridge" /\ "learned" \in changed
       /\ "params" \notin changed => flow = param["flow_ctl"]

\* The inductive invariant.
IInv == UartOK /\ ParamsOK /\ ProgOK /\ RomInv /\ InForce

\* Every step of the firmware keeps the types of the program.
LEMMA ProgStep ==
  ASSUME ProgOK, ParamsOK, [Next]_vars
  PROVE  ProgOK'
<1>. USE DEF Goto
<1>1. param \in Proper /\ MacOf(param) \in Macs
      /\ param["flow_ctl"] \in 0..1 /\ param["full_duplex"] \in 0..1
  BY ProperParams DEF ParamsOK, AllProper, Proper
<1>2. Exited \in [on : BOOLEAN, mac : Macs, full_duplex : 0..1]
  BY DEF ProgOK, Exited
<1>3. CASE Start
  BY <1>3 DEF Start, ProgOK
<1>4. CASE Enter
  <2>1. Configured(param) \in [on : BOOLEAN, mac : Macs, full_duplex : 0..1]
    BY <1>1 DEF Configured
  <2> QED
    BY <1>1, <1>4, <2>1 DEF Enter, ProgOK
<1>5. CASE LeaveLoop \/ CmdReset \/ CmdQuit
  BY <1>2, <1>5 DEF LeaveLoop, CmdReset, CmdQuit, ProgOK
<1>6. CASE Reset
  BY <1>6 DEF Reset, ProgOK
<1>7. CASE NoKey \/ Key \/ KeyReturn \/ HandleOther
  BY <1>7 DEF NoKey, Key, KeyReturn, HandleOther, ProgOK
<1>8. ASSUME NEW p, NEW what \in SUBSET {"params", "mac", "learned"}, Command(p, what)
      PROVE  ProgOK'
  BY <1>8 DEF Command, ProgOK
<1>9. CASE OtherLine \/ CmdParamLoad \/ CmdParamReset \/ CmdMacAddr
  <2>1. \A w \in {"params", "mac"} : {} \subseteq {"params", "mac", "learned"}
                                     /\ {w} \subseteq {"params", "mac", "learned"}
    OBVIOUS
  <2> QED
    BY <1>8, <1>9, <2>1 DEF OtherLine, CmdParamLoad, CmdParamReset, CmdMacAddr
<1>10. CASE CmdToggle \/ CmdParamSave
  BY <1>10 DEF CmdToggle, CmdParamSave, ProgOK
<1>11. CASE MagicOnline
  BY <1>11 DEF MagicOnline, ProgOK
<1>12. CASE Byte
  BY <1>12 DEF Byte, progVars, ProgOK
<1>13. CASE Saved
  <2>1. [on |-> TRUE, mac |-> MacOf(param), full_duplex |-> 0]
          \in [on : BOOLEAN, mac : Macs, full_duplex : 0..1]
    BY <1>1
  <2> QED
    BY <1>13, <2>1 DEF Saved, ProgOK
<1>14. CASE ByteDone /\ UNCHANGED <<uartVars, progVars>>
  BY <1>14 DEF progVars, ProgOK
<1>15. CASE Isr /\ UNCHANGED <<paramVars, progVars>>
  BY <1>15 DEF progVars, ProgOK
<1>16. CASE PowerFails
  <2>1. [ctl EXCEPT !.on = FALSE] \in [on : BOOLEAN, mac : Macs, full_duplex : 0..1]
    BY DEF ProgOK
  <2>2. fails' \in 0..MaxFails
    BY <1>16, FirmwareAssumption DEF PowerFails, ProgOK, FirmwareAssumption
  <2> QED
    BY <1>16, <2>1, <2>2, FirmwareAssumption DEF PowerFails, ProgOK, FirmwareAssumption
<1>17. CASE UNCHANGED vars
  BY <1>17 DEF vars, progVars, ProgOK
<1> QED
  BY <1>3, <1>4, <1>5, <1>6, <1>7, <1>9, <1>10, <1>11, <1>12, <1>13, <1>14, <1>15, <1>16, <1>17
  DEF Next, Program, Shell

\* Every step keeps the options in force, or in command mode pending.
LEMMA InForceStep ==
  ASSUME ProgOK, ParamsOK, Saving, InForce, [Next]_vars
  PROVE  InForce'
<1>. USE DEF Goto
<1>1. param \in Proper /\ pc \in {"init", "enter", "run", "handle", "shell", "save", "reset"}
  BY DEF ParamsOK, AllProper, ProgOK
<1>2. CASE Start
  BY <1>2 DEF Start, InForce
<1>3. CASE Enter
  BY <1>3 DEF Enter, Configured, InForce, Applied, paramVars
<1>4. CASE LeaveLoop \/ CmdReset
  BY <1>4 DEF LeaveLoop, CmdReset, InForce
<1>5. CASE Reset
  BY <1>5 DEF Reset, InForce
<1>6. CASE NoKey \/ Key \/ HandleOther
  BY <1>6 DEF NoKey, Key, HandleOther, InForce, Applied, paramVars
<1>7. CASE KeyReturn
  BY <1>7 DEF KeyReturn, InForce, Applied, Pending, paramVars
<1>8. CASE OtherLine
  BY <1>8 DEF OtherLine, Command, Line, InForce, Applied, Pending
<1>9. CASE CmdParamLoad \/ CmdParamReset
  BY <1>9 DEF CmdParamLoad, CmdParamReset, Command, Line, InForce, Applied, Pending
<1>10. CASE CmdMacAddr
  <2>1. PICK mac \in Macs : Command(WithMac(param, mac), {"mac"})
    BY <1>10 DEF CmdMacAddr
  <2>2. param'["flow_ctl"] = param["flow_ctl"] /\ param'["full_duplex"] = param["full_duplex"]
    BY <1>1, <2>1, ProperParams DEF Command, Options
  <2>3. /\ pc = "shell" /\ pc' = pc /\ changed' = changed \cup {"mac"}
        /\ mode' = mode /\ result' = result /\ flow' = flow /\ ctl' = ctl
    BY <2>1 DEF Command, Line
  <2> QED
    BY <2>2, <2>3 DEF InForce, Applied, Pending
<1>11. CASE CmdToggle
  <2>1. PICK o \in Options, v \in 0..1 : param' = [param EXCEPT ![o] = v]
    BY <1>11 DEF CmdToggle
  <2>2. MacOf(param') = MacOf(param)
    BY <1>1, <2>1, ProperParams
  <2> QED
    BY <1>11, <2>2 DEF CmdToggle, Line, InForce, Pending
<1>12. CASE CmdParamSave
  BY <1>12 DEF CmdParamSave, SaveBegins, Line, InForce, Applied, Pending
<1>13. CASE CmdQuit
  <2>1. pc = "shell" /\ Pending /\ result \in {"done", "restart"}
    BY <1>13 DEF CmdQuit, Line, InForce, ProgOK
  <2> QED
    BY <1>13, <2>1 DEF CmdQuit, InForce, Pending, Applied, paramVars
<1>14. CASE MagicOnline
  <2>1. PICK mac \in Macs :
          /\ changed' = changed \cup {"learned"}
          /\ IF busy = {} THEN SaveBegins(WithMac(param, mac))
                          ELSE param' = WithMac(param, mac) /\ UNCHANGED romVars
    BY <1>14 DEF MagicOnline
  <2>2. param' = WithMac(param, mac)
    BY <2>1 DEF SaveBegins
  <2>3. param'["flow_ctl"] = param["flow_ctl"]
    BY <1>1, <2>2, ProperParams DEF Options
  <2> QED
    BY <1>14, <2>1, <2>3 DEF MagicOnline, InForce, Applied
<1>15. CASE Byte
  BY <1>15 DEF Byte, SaveByte, progVars, InForce, Applied, Pending
<1>16. CASE Saved
  <2>1. pc = "save" /\ back \in {"shell", "magic"}
    BY <1>16 DEF Saved, ProgOK
  <2>2. CASE back = "shell"
    BY <1>16, <2>1, <2>2 DEF Saved, InForce, Applied, Pending, paramVars
  <2>3. CASE back = "magic"
    BY <1>16, <2>1, <2>3 DEF Saved, InForce, Applied, paramVars
  <2> QED
    BY <2>1, <2>2, <2>3
<1>17. CASE ByteDone /\ UNCHANGED <<uartVars, progVars>>
  BY <1>17 DEF ByteDone, progVars, InForce, Applied, Pending
<1>18. CASE Isr /\ UNCHANGED <<paramVars, progVars>>
  BY <1>18 DEF progVars, paramVars, InForce, Applied, Pending
<1>19. CASE PowerFails
  BY <1>19 DEF PowerFails, InForce
<1>20. CASE UNCHANGED vars
  BY <1>20 DEF vars, progVars, paramVars, InForce, Applied, Pending
<1> QED
  BY <1>2, <1>3, <1>4, <1>5, <1>6, <1>7, <1>8, <1>9, <1>10, <1>11, <1>12, <1>13, <1>14, <1>15, <1>16,
     <1>17, <1>18, <1>19, <1>20 DEF Next, Program, Shell

\* IInv holds when the device is switched on for the first time ...
LEMMA Begin ==
  ASSUME Init
  PROVE  IInv
<1>1. UartOK
  BY PowerOnOK DEF Init
<1>2. /\ param = Default /\ rom \in {Blank, Image(Default)} /\ todo = {} /\ busy = {}
      /\ saved = Default /\ torn = {} /\ twice = {}
  BY DEF Init, ParamInit
<1>3. Default \in Proper /\ Default \in Param
  BY ProperParams DEF Proper
<1>4. DOMAIN rom = Cells
  BY <1>2 DEF Blank, Image, Cells
<1>5. \A c \in DataCells : rom[c] \in 0..Junk
  <2>1. \A c \in DataCells : Default[c] \in 0..Junk
    BY DEF Default, Junk
  <2> QED
    BY <1>2, <2>1, CellNames DEF Junk
<1>6. \A c \in CrcCells : rom[c] \in {Default, NoCrc}
  BY <1>2, CellNames
<1>7. Cardinality({}) <= 1
  BY FS_EmptySet
<1>8. ParamsOK
  BY <1>2, <1>3, <1>4, <1>5, <1>6, <1>7 DEF ParamsOK, ParamTypeOK, AllProper
<1>9. RomInv
  BY <1>2, <1>6, CellNames DEF RomInv, Saving, Whole, Halves, Init
<1>10. ProgOK
  <2>1. MacOf(Default) \in Macs
    BY <1>3, ProperParams
  <2> QED
    BY <2>1, FirmwareAssumption DEF Init, ProgOK, FirmwareAssumption
<1>11. InForce
  BY DEF Init, InForce
<1> QED
  BY <1>1, <1>8, <1>9, <1>10, <1>11 DEF IInv

\* ... and every step keeps it.
LEMMA Step ==
  ASSUME IInv, [Next]_vars
  PROVE  IInv'
BY UartStep, ParamsStep, RomStep, ProgStep, InForceStep DEF IInv, RomInv

\* The inductive invariant holds in every state of the firmware.
THEOREM FirmwareSound == Spec => []IInv
BY Begin, Step, PTL DEF Spec

\* The console loses keys in whole rings only and what waits is the newest, in order; and the
\* firmware keeps its types: the address in the controller is never half of one and half of
\* another, whatever saves were cut off.
THEOREM KeysAreKept == Spec => []ShellInv
<1>1. IInv => ShellInv
  BY DEF IInv, ShellInv, TypeOK, UartOK, ParamsOK, ProgOK, Ring
<1> QED
  BY <1>1, FirmwareSound, PTL

\* While packets are handled the controller and the bridge use the MAC address, the duplex mode
\* and the flow control of the parameters, except after pl, pr, m and a learned address.
THEOREM OptionsInForce == Spec => []OptionsApplied
<1>1. IInv => OptionsApplied
  BY DEF IInv, InForce, Applied, OptionsApplied
<1> QED
  BY <1>1, FirmwareSound, PTL

\* A start brings up the parameters saved last, or the defaults after a save was cut off, or
\* parameters whose save was cut off twice; without such a cut it is always those saved last.
THEOREM BootsWhatWasSaved == Spec => BootParams
<1>1. IInv /\ [Next]_vars
        => [Start => /\ param' \in {saved, Default} \cup twice
                     /\ torn = {} => param' = saved]_vars
  BY StartParams DEF IInv
<1> QED
  BY <1>1, FirmwareSound, PTL DEF Spec, BootParams
=============================================================================
