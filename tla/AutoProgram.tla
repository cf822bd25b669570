----------------------------- MODULE AutoProgram -----------------------------
(***************************************************************************)
(* The option `a' of main.c: erase the chip, write a HEX file with         *)
(* main_write_stream, read the flash back and compare, with check_flash    *)
(* (`-a HEX') or with check_flash_strict (`-a s HEX').  No step looks at   *)
(* whether the one before it succeeded: what the bus loses or the chip is  *)
(* too slow for is noticed by the comparison or not at all.                *)
(*                                                                         *)
(* The files are those of FlashWriter!Plain; extended address records,     *)
(* which ihex_mem_copy interprets, are left out.                           *)
(***************************************************************************)
EXTENDS FlashWriter, SequencesExt

CONSTANT Garbage  \* what memory from malloc may hold where nothing was stored

ASSUME ProgramAssumption ==
  /\ Garbage \subseteq Byte
  /\ \A f \in Files : Plain(f)

VARIABLES
  strict,       \* was the option `a s HEX'
  stage,        \* where main is; "passed", "failed": what the check said
  data_buffer,  \* what read_flash stored
  readLost,     \* did a part of the answer not arrive
  early         \* history: did the program go on while the chip was busy

check == <<strict, stage, data_buffer, readLost, early>>
allVars == <<vars, check>>

Buffers == [Addresses -> Byte]

ProgramTypeOK ==
  /\ TypeOK
  /\ strict \in BOOLEAN
  /\ stage \in {"erase", "write", "read", "check", "passed", "failed"}
  /\ data_buffer \in Buffers
  /\ readLost \in BOOLEAN
  /\ early \in BOOLEAN

FlashSize == 2 * PageSize * NumPages  \* TOT_MEM*2

-----------------------------------------------------------------------------
(* The comparisons, as functions of the file and of the bytes read. *)

\* ihex_rs_get_size: the bytes of all records, whatever their type.
RsSize(f) ==
  LET size[n \in 0 .. Len(f)] ==
        IF n = 0 THEN 0 ELSE size[n - 1] + Len(f[n].data)
  IN size[Len(f)]

\* ihex_mem_copy stores a record as words of 16 bits, through a pointer to 32:
\* the data, padded to whole words, and two bytes of zeros after it.
CopyRecord(mem, r) ==
  [a \in DOMAIN mem |->
     LET k == a - r.address IN
     CASE r.type = "DATA" /\ k \in 0 .. Len(r.data) - 1 -> r.data[k + 1]
       [] /\ r.type = "DATA" /\ r.data # << >>
          /\ k \in Len(r.data) .. 2 * ((Len(r.data) + 1) \div 2) + 1 -> {}
       [] OTHER -> mem[a]]

\* The first record of data that starts behind the flash, be it an empty one:
\* ihex_mem_copy ends there, with an error that check_flash does not look at.
FirstOutside(f) ==
  Min({r \in DOMAIN f : f[r].type = "DATA" /\ f[r].address >= FlashSize} \cup {Len(f) + 1})

\* ihex_mem_copy: zeros where the file has no data.
MemCopy(f) ==
  FoldLeft(CopyRecord, [a \in Addresses |-> {}], SubSeq(f, 1, FirstOutside(f) - 1))

\* A faulty FastPasses: the last byte is not compared.
FastPassesShort(f, buf) ==
  \A a \in f[1].address .. RsSize(f) - 2 :
    buf[a] = MemCopy(f)[a - f[1].address]

\* The loop of check_flash: from the address of the first record to the size of
\* the file in the bytes read, but from 0 in the bytes expected.
FastPasses(f, buf) ==
  \A a \in f[1].address .. RsSize(f) - 1 :
    buf[a] = MemCopy(f)[a - f[1].address]

\* The records that the loop of check_flash_strict reaches.
StrictRecords(f) == {r \in DOMAIN f : \A q \in 1 .. r : f[q].type # "SSA"}

\* A faulty StrictPasses: the last byte of a record is not compared.
StrictPassesShort(f, buf) ==
  \A r \in StrictRecords(f) : \A k \in 0 .. Len(f[r].data) - 2 :
    buf[f[r].address + k] = f[r].data[k + 1]

\* The loop of check_flash_strict: the bytes of each record at its address.
StrictPasses(f, buf) ==
  \A r \in StrictRecords(f) : \A k \in 0 .. Len(f[r].data) - 1 :
    buf[f[r].address + k] = f[r].data[k + 1]

-----------------------------------------------------------------------------

ProgramInit ==
  /\ Init
  /\ strict \in BOOLEAN
  /\ stage = "erase"
  /\ data_buffer \in {[a \in Addresses |-> g] : g \in Garbage}
  /\ readLost = FALSE
  /\ early = FALSE

\* A faulty chip_erace: the chip is not erased.
chip_erace_skipped ==
  /\ stage = "erase"
  /\ stage' = "write"
  /\ UNCHANGED <<chip, writer, strict, data_buffer, readLost, early>>

\* chip_erace and its usleep.
chip_erace ==
  /\ stage = "erase"
  /\ Send(EraseChip)
  /\ stage' = "write"
  /\ UNCHANGED <<file, initial, pc, i, j, addr, loaded, strict, data_buffer, readLost, early>>

\* The steps of FlashWriter.
main_write_stream ==
  /\ stage = "write"
  /\ Program
  /\ stage' = IF pc' = "done" THEN "read" ELSE "write"
  /\ early' = (early \/ busy)
  /\ UNCHANGED <<strict, data_buffer, readLost>>

\* read_flash of as many bytes as the check asks for.  The answer may stop
\* after n bytes, and a chip that is still busy has none to give.
read_flash ==
  /\ stage = "read"
  /\ Awake
  /\ LET mem == IF strict THEN FlashSize ELSE RsSize(file) IN
     \E n \in IF busy THEN {0} ELSE IF LossyBus THEN 0 .. mem ELSE {mem} :
       /\ data_buffer' = [a \in Addresses |->
                            IF a < n THEN Flat(flash)[a] ELSE data_buffer[a]]
       /\ readLost' = (n < mem)
  /\ early' = (early \/ busy)
  /\ stage' = "check"
  /\ UNCHANGED <<vars, strict>>

\* The verdict of check_flash or check_flash_strict.
compare ==
  /\ stage = "check"
  /\ stage' = IF IF strict THEN StrictPasses(file, data_buffer)
                           ELSE FastPasses(file, data_buffer)
              THEN "passed" ELSE "failed"
  /\ UNCHANGED <<vars, strict, data_buffer, readLost, early>>

option_a == chip_erace \/ main_write_stream \/ read_flash \/ compare

ProgramNext == option_a \/ (ChipReady /\ UNCHANGED check)

ProgramSpec == ProgramInit /\ [][ProgramNext]_allVars

FairProgram ==
  ProgramSpec /\ WF_allVars(option_a) /\ WF_allVars(ChipReady /\ UNCHANGED check)

-----------------------------------------------------------------------------
(* Properties *)

\* The byte of the file at address a is in the flash.
InFlash(a) == Flat(flash)[a] = ImageByte(file, a)

\* When the strict check passes on a complete answer, every byte of the file
\* up to its first start segment record is in the flash: no lost load, lost
\* page write or page written too late has been overlooked.
StrictCheckIsProof ==
  stage = "passed" /\ strict /\ ~readLost =>
    \A r \in StrictRecords(file) \cap DataRecords(file) :
      \A a \in Extent(file, r) : InFlash(a)

\* A homogeneous file: data records only, without a gap and from address 0.
Homogeneous(f) ==
  \A r \in 1 .. Len(f) - 1 : /\ f[r].type = "DATA"
                             /\ f[r].address = RsSize(SubSeq(f, 1, r - 1))

\* When the fast check passes on a complete answer for a homogeneous file,
\* the whole file is in the flash.
FastCheckIsProof ==
  stage = "passed" /\ ~strict /\ ~readLost /\ Homogeneous(file) =>
    \A a \in ImageAddresses(file) : InFlash(a)

\* The fast check "verifies only written part" (README): when it passes on a
\* complete answer, what was written is in the flash.
FastChecksWritten ==
  stage = "passed" /\ ~strict /\ ~readLost =>
    \A a \in ImageAddresses(file) : InFlash(a)

\* When the bus lost nothing and the delays were long enough, a writable file is
\* never reported corrupted, by the fast check if it is homogeneous.
NoFalseAlarm ==
  stage = "failed" /\ ~lost /\ ~readLost /\ ~early =>
    ~Writable(file) \/ (~strict /\ ~Homogeneous(file))

\* The option comes to a verdict.
Verdict == <>(stage \in {"passed", "failed"})
=============================================================================
