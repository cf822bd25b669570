----------------------------- MODULE FlashWriter -----------------------------
(***************************************************************************)
(* main_write_stream: the records of a parsed Intel HEX file are loaded    *)
(* byte by byte into the page buffer of the chip, and the buffer is        *)
(* written when a page is complete, when the file seems to have a gap, and *)
(* at the EOF record.  The program keeps no image of the page: whether     *)
(* the bytes of one buffer belong to one page depends on where it decides  *)
(* to call write_page.                                                     *)
(***************************************************************************)
EXTENDS AvrChip, Sequences

CONSTANTS
  LENGTH,        \* the record length assumed by the gap test
  Files,         \* the record sets that ihex_rs_from_file may return
  InitialFlash,  \* what the flash may hold before the program starts
  LossyBus,      \* may a ch341SpiStream fail without the chip seeing it
  SleepCovers    \* does usleep(delay) last as long as the chip needs

Types == {"DATA", "EOF", "ESA", "SSA", "ELA", "SLA"}
Record == [type : Types, address : Nat, data : Seq(Byte)]

ASSUME WriterAssumption ==
  /\ LENGTH \in Nat
  /\ Files \subseteq Seq(Record)
  /\ InitialFlash \subseteq [Pages -> PageContent]
  /\ LossyBus \in BOOLEAN
  /\ SleepCovers \in BOOLEAN

VARIABLES
  file,     \* the record set
  initial,  \* what the flash held when the program started
  pc,       \* "record": head of the inner loop; "gap", "page": after a load
  i, j,     \* the loop counters: record (from 1) and byte in it (from 0)
  addr,     \* address of the last byte loaded
  loaded,   \* addresses of the bytes loaded since the last write_page
  lost      \* has the bus lost an instruction

writer == <<file, initial, pc, i, j, addr, loaded, lost>>
vars == <<chip, writer>>

TypeOK ==
  /\ ChipTypeOK
  /\ file \in Seq(Record)
  /\ initial \in [Pages -> PageContent]
  /\ pc \in {"record", "gap", "page", "done"}
  /\ i \in 1 .. Len(file) + 1
  /\ j \in Nat
  /\ pc = "record" /\ i \in DOMAIN file => j <= Len(file[i].data)
  /\ pc \in {"gap", "page"} => i \in DOMAIN file /\ j < Len(file[i].data)
  /\ addr \in Nat
  /\ loaded \subseteq Nat
  /\ lost \in BOOLEAN

-----------------------------------------------------------------------------

\* The caller slept `delay' after the last page write.
Awake == SleepCovers => ~busy

\* ch341SpiStream carries an instruction to the chip; its result is dropped.
Send(instruction) ==
  \/ instruction /\ UNCHANGED lost
  \/ LossyBus /\ UNCHANGED chip /\ lost' = TRUE

\* write_page, called with the address of the last byte loaded.
write_page ==
  /\ Awake
  /\ Send(WritePage(PageAt(addr)))
  /\ loaded' = {}

Init ==
  /\ file \in Files
  /\ initial \in InitialFlash
  /\ flash = initial
  /\ buffer = Blank
  /\ busy = FALSE
  /\ pc = "record"
  /\ i = 1
  /\ j = 0
  /\ addr = 0
  /\ loaded = {}
  /\ lost = FALSE

\* The condition of the inner loop; start segment records are skipped.
MoreData == j < Len(file[i].data) /\ file[i].type # "SSA"

\* One byte goes to the page buffer of the chip.
LoadByte ==
  /\ pc = "record"
  /\ i <= Len(file)
  /\ MoreData
  /\ Awake
  /\ addr' = file[i].address + j
  /\ Send(LoadPage(CellAt(addr'), file[i].data[j + 1]))
  /\ loaded' = loaded \cup {addr'}
  /\ pc' = "gap"
  /\ UNCHANGED <<file, initial, i, j>>

\* A faulty GapTests: a gap is never seen.
GapTestsNever == {FALSE}

\* Is the last byte of the record followed by a gap?  The record that follows
\* the last one is read beyond the end of the array.
GapTests ==
  IF j # Len(file[i].data) - 1 THEN {FALSE}
  ELSE IF i = Len(file) THEN BOOLEAN
  ELSE {file[i + 1].address > file[i].address + LENGTH}

\* The first test after a load.
TestGap ==
  /\ pc = "gap"
  /\ \/ TRUE \in GapTests /\ write_page
     \/ FALSE \in GapTests /\ UNCHANGED <<chip, loaded, lost>>
  /\ pc' = "page"
  /\ UNCHANGED <<file, initial, i, j, addr>>

\* A faulty PageEnd: off by one, a page ends at the first byte of the next.
PageEndLate == addr % (PageSize * 2) = 0

\* Is the byte that was loaded the last one of its page?
PageEnd == (addr + 1) % (PageSize * 2) = 0

\* A faulty TestPageEnd: the byte that ends a page is loaded again.
TestPageEndAgain ==
  /\ pc = "page"
  /\ IF PageEnd THEN write_page ELSE UNCHANGED <<chip, loaded, lost>>
  /\ pc' = "record"
  /\ j' = IF PageEnd THEN j ELSE j + 1
  /\ UNCHANGED <<file, initial, i, addr>>

\* The page is complete: write it.  Then the next byte.
TestPageEnd ==
  /\ pc = "page"
  /\ IF PageEnd THEN write_page ELSE UNCHANGED <<chip, loaded, lost>>
  /\ pc' = "record"
  /\ j' = j + 1
  /\ UNCHANGED <<file, initial, i, addr>>

\* A faulty EndRecord: the byte counter is not reset for the next record.
EndRecordKeepsJ ==
  /\ pc = "record"
  /\ i <= Len(file)
  /\ ~MoreData
  /\ IF file[i].type = "EOF" THEN write_page
                             ELSE UNCHANGED <<chip, loaded, lost>>
  /\ i' = i + 1
  /\ UNCHANGED <<file, initial, pc, j, addr>>

\* A faulty EndRecord: the EOF record does not write the last page.
EndRecordNoFlush ==
  /\ pc = "record"
  /\ i <= Len(file)
  /\ ~MoreData
  /\ i' = i + 1
  /\ j' = 0
  /\ UNCHANGED <<chip, loaded, lost, file, initial, pc, addr>>

\* The inner loop is left; the EOF record writes what is in the buffer.
EndRecord ==
  /\ pc = "record"
  /\ i <= Len(file)
  /\ ~MoreData
  /\ IF file[i].type = "EOF" THEN write_page
                             ELSE UNCHANGED <<chip, loaded, lost>>
  /\ i' = i + 1
  /\ j' = 0
  /\ UNCHANGED <<file, initial, pc, addr>>

Finish ==
  /\ pc = "record"
  /\ i > Len(file)
  /\ pc' = "done"
  /\ UNCHANGED <<chip, file, initial, i, j, addr, loaded, lost>>

Program == LoadByte \/ TestGap \/ TestPageEnd \/ EndRecord \/ Finish

ChipReady == Ready /\ UNCHANGED writer

Next == Program \/ ChipReady

Spec == Init /\ [][Next]_vars

\* The program runs on, and the chip always finishes what it is doing.
FairSpec == Spec /\ WF_vars(Program) /\ WF_vars(ChipReady)

-----------------------------------------------------------------------------
(* What a file asks for, and the files it can be asked with. *)

DataRecords(f) == {r \in DOMAIN f : f[r].type = "DATA"}
Extent(f, r) == f[r].address .. f[r].address + Len(f[r].data) - 1
StartOf(f, r) == f[r].address
LastOf(f, r) == f[r].address + Len(f[r].data) - 1
HasData(f, r) == f[r].type = "DATA" /\ f[r].data # << >>

\* The bytes of the data records, each at its address.
ImageAddresses(f) == UNION {Extent(f, r) : r \in DataRecords(f)}
RecordOf(f, a) == CHOOSE r \in DataRecords(f) : a \in Extent(f, r)
ImageByte(f, a) ==
  LET r == RecordOf(f, a) IN f[r].data[a - f[r].address + 1]
Image(f) == [a \in ImageAddresses(f) |-> ImageByte(f, a)]

\* No address occurs twice and all lie in the flash.
Disjoint(f) ==
  \A r, s \in DataRecords(f) : r # s => Extent(f, r) \cap Extent(f, s) = {}
Addresses == 0 .. 2 * PageSize * NumPages - 1
InRange(f) == ImageAddresses(f) \subseteq Addresses

\* Data and start segment records, ended by an EOF record without data (the
\* parser refuses a file whose last record is of another type).
Plain(f) ==
  /\ f # << >>
  /\ \A r \in DOMAIN f :
       /\ f[r].type \in {"DATA", "SSA", "EOF"}
       /\ f[r].type = "EOF" <=> r = Len(f)
       /\ f[r].type = "EOF" => f[r].data = << >>

PageOf(a) == a \div (2 * PageSize)

\* s is the first record with data after r.
Follows(f, r, s) ==
  /\ r < s
  /\ HasData(f, r) /\ HasData(f, s)
  /\ \A q \in r + 1 .. s - 1 : ~HasData(f, q)

\* Wherever the data goes on in another page, one of the two tests sees it.
PageSafe(f) ==
  \A r, s \in DOMAIN f : Follows(f, r, s) =>
    \/ PageOf(StartOf(f, s)) = PageOf(LastOf(f, r))
    \/ (LastOf(f, r) + 1) % (2 * PageSize) = 0
    \/ StartOf(f, r + 1) > StartOf(f, r) + LENGTH

\* A simple sufficient form: data in ascending order without other records between,
\* and where there is a gap the record before it has full length.
Standard(f) ==
  \A r, s \in DOMAIN f : Follows(f, r, s) =>
    /\ s = r + 1
    /\ \/ StartOf(f, s) = LastOf(f, r) + 1
       \/ StartOf(f, s) > LastOf(f, r) + 1 /\ Len(f[r].data) >= LENGTH

Writable(f) == Plain(f) /\ Disjoint(f) /\ InRange(f) /\ PageSafe(f)

-----------------------------------------------------------------------------
(* Properties *)

\* The bytes in the page buffer all belong to one page, the one the next
\* write_page addresses: none of them can be programmed elsewhere.
PageCoherent == \A a \in loaded : PageOf(a) = PageOf(addr)

\* What the file makes of the flash: each byte of the image at its address,
\* every other byte as it was.
Intended ==
  [p \in Pages |-> [c \in Cells |->
     initial[p][c] \cap
       {b \in Bits : \A a \in ImageAddresses(file) :
          PageAt(a) = p /\ CellAt(a) = c => b \in ImageByte(file, a)}]]

\* At the end the flash holds the file, provided the bus lost no instruction:
\* the EOF record has flushed the last page, no byte went to another page.
Written == pc = "done" /\ ~lost => flash = Intended

\* The write implements the abstract one.
Flat(m) == [a \in Addresses |-> m[PageAt(a)][CellAt(a)]]
FileImages == {Image(f) : f \in Files}
FlatMemories == {Flat(m) : m \in InitialFlash}
Stores == INSTANCE FlashImage WITH
  Images <- FileImages,
  Memories <- FlatMemories,
  image <- Image(file),
  memory <- Flat(flash),
  pending <- loaded,
  finished <- pc = "done"

StoresImage == Stores!Spec

\* The stream comes to an end, however often it waits for the chip.
Ends == <>(pc = "done")
=============================================================================
