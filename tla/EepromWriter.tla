---------------------------- MODULE EepromWriter -----------------------------
(***************************************************************************)
(* The two uses of a parsed file beside writing the flash: the image of    *)
(* HexImage, and write_eeprom, which sends every byte of every record to   *)
(* the chip's EEPROM, one instruction and one sleep each, and looks at     *)
(* neither an answer nor the type of a record (but for start segments).    *)
(***************************************************************************)
EXTENDS HexImage

CONSTANTS
  EepromSize,  \* cells of the chip's EEPROM
  MaxLost      \* bound: instructions that get lost on the way

ASSUME EepromAssumption ==
  EepromSize \in Nat \ {0} /\ 65536 % EepromSize = 0 /\ MaxLost \in Nat

VARIABLES
  use,     \* "none", "writing", "written"
  record,  \* the record that ihrs_records points to
  j,       \* its bytes sent
  eeprom,  \* the cells; Old where nothing was written
  lost     \* history: instructions that got lost

device == <<use, record, j, eeprom, lost>>
allVars == <<vars, device>>

Old == -1
Cells == 0 .. EepromSize - 1

EepromTypeOK ==
  /\ TypeOK
  /\ use \in {"none", "writing", "written"}
  /\ record \in 1 .. Len(records) + 1
  /\ record <= Len(records) => j \in 0 .. Len(records[record].data)
  /\ eeprom \in [Cells -> HexByte \cup {Old}]
  /\ lost \in 0 .. MaxLost

-----------------------------------------------------------------------------

EepromInit ==
  /\ Init
  /\ use = "none"
  /\ record = 1
  /\ j = 0
  /\ eeprom = [a \in Cells |-> Old]
  /\ lost = 0

\* The image: HexImage as it is.
UseImage == Next /\ use = "none" /\ UNCHANGED device

\* write_eeprom has its record set.
write_eeprom ==
  /\ use = "none"
  /\ pass = "parsed"
  /\ use' = "writing"
  /\ UNCHANGED <<vars, record, j, eeprom, lost>>

\* The address in the instruction: two bytes of the sum.
Address16(a) == a % 65536

\* A faulty BytesLeft: the type of a record is not looked at.
BytesLeftAll == j < Len(records[record].data)

BytesLeft == j < Len(records[record].data) /\ records[record].type # IHEX_SSA

\* The chip knows as many address bits as it has cells, and programs the cell
\* during the sleep that follows.
Program(a, b) == eeprom' = [eeprom EXCEPT ![a % EepromSize] = b]

\* The next byte of the record; whether it arrives is not noticed.
WriteByte ==
  /\ use = "writing"
  /\ record <= Len(records) /\ BytesLeft
  /\ j' = j + 1
  /\ \/ /\ Program(Address16(records[record].address + j), records[record].data[j'])
        /\ UNCHANGED lost
     \/ /\ lost < MaxLost
        /\ lost' = lost + 1
        /\ UNCHANGED eeprom
  /\ UNCHANGED <<vars, use, record>>

\* A faulty NextRecord: j is not set to 0.
NextRecordKeepsJ ==
  /\ use = "writing"
  /\ record <= Len(records) /\ ~BytesLeft
  /\ record' = record + 1
  /\ UNCHANGED <<vars, use, j, eeprom, lost>>

NextRecord ==
  /\ use = "writing"
  /\ record <= Len(records) /\ ~BytesLeft
  /\ record' = record + 1
  /\ j' = 0
  /\ UNCHANGED <<vars, use, eeprom, lost>>

AllWritten ==
  /\ use = "writing"
  /\ record > Len(records)
  /\ use' = "written"
  /\ UNCHANGED <<vars, record, j, eeprom, lost>>

EepromNext == UseImage \/ write_eeprom \/ WriteByte \/ NextRecord \/ AllWritten

EepromSpec == EepromInit /\ [][EepromNext]_allVars

\* The process runs on.
FairEeprom == EepromSpec /\ WF_allVars(EepromNext)

-----------------------------------------------------------------------------
(* Properties *)

Holders(rs, a) == {k \in DataRecords(rs) : a \in Extent(rs, k)}

\* Bytes that are no data, but sent all the same, are written over later.
Harmless(rs) ==
  \A k \in DOMAIN rs : rs[k].type \notin {IHEX_DATA, IHEX_SSA} =>
    \A a \in rs[k].address .. rs[k].address + Len(rs[k].data) - 1 :
      \E m \in Holders(rs, a) : m > k

\* At the end the EEPROM holds the file, where data overlaps the later of it, and
\* the other cells are as they were, but for one cell at most for each instruction
\* that got lost: for files whose data lies in the EEPROM and covers what is sent
\* for the records that are no data.
EepromHoldsFile ==
  use = "written" /\ Usable /\ Harmless(records) /\ Covered(records) \subseteq Cells =>
    lost >= Cardinality({a \in Cells :
      eeprom[a] # IF Holders(records, a) = {} THEN Old
                  ELSE LET k == Max(Holders(records, a))
                       IN records[k].data[a - StartOf(records, k) + 1]})

\* The library and the programmer come to an end with every file.
Ends ==
  <>(pc \in {"refused", "crashed"} \/ pass \in {"copied", "failed"} \/ use = "written")
=============================================================================
