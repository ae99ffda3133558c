------------------------------- MODULE Params ------------------------------
(***************************************************************************)
(* The parameters and their copy in EEPROM (param.c).  The EEPROM is written   *)
(* byte by byte, the last byte while the program goes on already; the power     *)
(* may fail at any point.  A parameter set has the two halves of the MAC      *)
(* address and the options of the bridge; the test parameters are left out.   *)
(***************************************************************************)
EXTENDS Naturals, FiniteSets

VARIABLES param,   \* the parameters in RAM
          rom,     \* eeprom_param and eeprom_crc16, by cell
          todo,    \* cells param_save has still to write
          busy,    \* {c}: the EEPROM writes cell c; {}: eeprom_is_ready
          saved,   \* history: the parameters saved last
          torn,    \* history: parameters whose save was begun since and not completed
          twice    \* history: those of them it happened to before

romVars == <<rom, todo, busy, saved, torn, twice>>
paramVars == <<param, romVars>>

MacCells == {"mac_hi", "mac_lo"}
Options == {"flow_ctl", "full_duplex"}
DataCells == MacCells \cup Options
CrcCells == {"crc_lo", "crc_hi"}

Junk == 3  \* a byte that was never written, or written in part
Param == [DataCells -> 0..2]
Default == [c \in DataCells |-> IF c \in MacCells THEN 1 ELSE 0]

MacOf(p) == <<p["mac_hi"], p["mac_lo"]>>
WithMac(p, mac) == [p EXCEPT !["mac_hi"] = mac[1], !["mac_lo"] = mac[2]]

\* calc_crc16: a half of the checksum is known by the parameters it was computed from;
\* different parameters differ in both halves.
Crc(p) == p
NoCrc == [c \in DataCells |-> Junk + 1]
Image(p) == [c \in DataCells \cup CrcCells |-> IF c \in DataCells THEN p[c] ELSE Crc(p)]
Blank == [c \in DataCells \cup CrcCells |-> IF c \in DataCells THEN Junk ELSE NoCrc]

ParamTypeOK ==
  /\ param \in Param
  /\ \A c \in DataCells : rom[c] \in 0..Junk
  /\ \A c \in CrcCells : rom[c] \in Param \cup {NoCrc}
  /\ todo \subseteq DataCells \cup CrcCells
  /\ busy \subseteq DataCells \cup CrcCells /\ Cardinality(busy) <= 1
  /\ saved \in Param /\ torn \subseteq Param /\ twice \subseteq torn

\* A new device, or one whose defaults were saved.
ParamInit ==
  /\ param = Default
  /\ rom \in {Blank, Image(Default)}
  /\ todo = {} /\ busy = {}
  /\ saved = Default /\ torn = {} /\ twice = {}

----------------------------------------------------------------------------
(* param.c *)

\* param_load, and what it returns
Data == [c \in DataCells |-> rom[c]]
CrcMatches == \A c \in CrcCells : rom[c] = Crc(Data)
Load == IF busy # {} THEN param ELSE IF CrcMatches THEN Data ELSE Default
LoadOK == busy = {} /\ CrcMatches

\* param_init
InitParam == IF LoadOK THEN Data ELSE Default

\* param_save with the new parameters p begins if eeprom_is_ready; the block is written before
\* its checksum.
SaveBegins(p) ==
  /\ busy = {}
  /\ param' = p
  /\ todo' = DataCells \cup CrcCells
  /\ torn' = torn \cup {p}
  /\ twice' = twice \cup (torn \cap {p})
  /\ UNCHANGED <<rom, busy, saved>>

\* The next byte, when the one before is done.  With the last, param_save returns.
SaveByte ==
  /\ todo # {} /\ busy = {}
  /\ \E c \in IF todo \cap DataCells # {} THEN todo \cap DataCells ELSE todo :
       /\ rom' = [rom EXCEPT ![c] = Image(param)[c]]
       /\ todo' = todo \ {c}
       /\ busy' = {c}
  /\ IF todo' = {} THEN saved' = param /\ torn' = {} /\ twice' = {}
                   ELSE UNCHANGED <<saved, torn, twice>>
  /\ UNCHANGED param

\* The EEPROM is done with its byte.
ByteDone ==
  /\ busy # {}
  /\ busy' = {}
  /\ UNCHANGED <<param, rom, todo, saved, torn, twice>>

\* The power fails: the byte being written may be lost, the last one of a save as well.
RomTorn ==
  /\ \E lost \in SUBSET busy :
       rom' = [c \in DOMAIN rom |-> IF c \notin lost THEN rom[c]
                                    ELSE IF c \in DataCells THEN Junk ELSE NoCrc]
  /\ torn' = torn \cup {saved : c \in busy}
  /\ todo' = {} /\ busy' = {}
  /\ UNCHANGED <<param, saved, twice>>

=============================================================================
