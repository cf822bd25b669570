------------------------------- MODULE AvrChip -------------------------------
(***************************************************************************)
(* The flash memory of an AVR chip as the serial programming instructions  *)
(* of chavrprog.c see it: a page buffer that is loaded byte by byte, a     *)
(* page write that programs the buffer into one page, a chip erase.  The   *)
(* chip is not part of the repository; each operator here is what one of   *)
(* the instructions the program sends (load_pg, write_pg, chip_er, the     *)
(* command bytes of read_flash) does in the chip.                          *)
(*                                                                         *)
(* A byte is the set of its bits that are 1.  Erasing sets every bit and   *)
(* programming can only clear some, so a byte programmed over another one  *)
(* is their intersection.                                                  *)
(***************************************************************************)
EXTENDS Integers

CONSTANTS
  PageSize,   \* words in a page
  NumPages,   \* pages in the flash
  Bits        \* the bits of a byte

ASSUME ChipAssumption == PageSize \in Nat \ {0} /\ NumPages \in Nat \ {0}

VARIABLES
  flash,   \* the memory, a function from pages to their cells
  buffer,  \* the temporary page buffer
  busy     \* a page write or an erase is under way

chip == <<flash, buffer, busy>>

Byte == SUBSET Bits
Erased == Bits
Pages == 0 .. NumPages - 1
Cells == (0 .. PageSize - 1) \X {0, 1}   \* word in the page, low or high byte
PageContent == [Cells -> Byte]
Blank == [c \in Cells |-> Erased]

ChipTypeOK ==
  /\ flash \in [Pages -> PageContent]
  /\ buffer \in PageContent
  /\ busy \in BOOLEAN

\* Where the chip finds a byte address: it ignores the address bits above its
\* memory, and a load or a page write those that it does not need.
PageAt(a) == ((a \div 2) \div PageSize) % NumPages
CellAt(a) == <<(a \div 2) % PageSize, a % 2>>

\* Load program memory page.  A cell loaded twice before a page write may keep
\* either value or both; a chip that is busy may miss the instruction.
LoadPage(c, b) ==
  /\ \/ \E new \in {b, buffer[c] \cap b} : buffer' = [buffer EXCEPT ![c] = new]
     \/ busy /\ UNCHANGED buffer
  /\ UNCHANGED <<flash, busy>>

\* Write program memory page: the buffer is programmed and cleared.
WritePage(p) ==
  IF busy
  THEN UNCHANGED chip
  ELSE /\ flash' = [flash EXCEPT ![p] = [c \in Cells |-> @[c] \cap buffer[c]]]
       /\ buffer' = Blank
       /\ busy' = TRUE

EraseChip ==
  IF busy
  THEN UNCHANGED chip
  ELSE /\ flash' = [p \in Pages |-> Blank]
       /\ busy' = TRUE
       /\ UNCHANGED buffer

\* The internal programming time is over.
Ready == busy /\ busy' = FALSE /\ UNCHANGED <<flash, buffer>>
=============================================================================
