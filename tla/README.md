# chavrprog: specification and verification

chavrprog writes, reads and checks the memories of AVR microcontrollers through
a CH341A USB bridge. This directory holds TLA+ modules of it, TLC
configurations that check them on small instances, and theorems proved with
TLAPS. Paths such as `chavrprog.c:223` are relative to `src/`.

## The system

| part | code | state it keeps | operations |
|---|---|---|---|
| USB/SPI bridge | `ch341a.c:42-213` | `devHandle`; in the bridge, answers not yet read | `ch341Configure`, `ch341SetStream`, `ch341Release`, `usbTransfer`, `ch341SpiStream` |
| programming commands | `chavrprog.c` | static instruction buffers (`read_sign`, `load_pg`, ...), `spi_data`, `data_buffer`, the page geometry set by `assign_cfg` | `ch_init`, `check_signature`, `chip_erace`, `main_write_stream`, `write_page`, `read_flash`, `check_flash`, `check_flash_strict`, fuses, lock bits, EEPROM |
| command line | `main.c` | `optind`/`optarg` of getopt, `delay` | one case per option |
| Intel HEX library | `ihex_*.c`, `cintelhex.h` | record sets on the heap, the last error | parse, iterate, size, address range, copy |
| device table | `config.c` | constant | looked up by `-d` |
| asynchronous SPI flash access | `ch341a.c:215-498` | a global packet counter, the user's buffer, the flag of the SIGINT handler | `ch341SpiRead`, `ch341SpiWrite`, callbacks; inherited, called by nothing |
| the chip | (hardware) | flash, page buffer, busy, reset line | the instructions it is sent |

How they interact: `main` takes options in order; nearly each first calls
`ch_init` (open the adapter, pull reset, enable programming, compare the
signature) and then the operation. Every operation sends four-byte instructions
with `ch341SpiStream`, whose result **no caller looks at**, and takes the answer
from the shared buffer `spi_data`. Writing loads the chip's page buffer byte by
byte and decides from record lengths and addresses when to send "write page";
after it, and after an erase, the program sleeps a fixed time and never asks the
chip whether it is ready.

There are no threads: the concurrency is between the program, the bridge and the
chip, and, in the asynchronous functions, libusb's callbacks and a signal
handler. What is hard:

* partial failures that nobody notices (short or failed transfers, lost
  instructions, an adapter that was never opened);
* protocol sequences in which one buffer (the page buffer, `spi_data`,
  `read_sign`) carries state from one step to a later one;
* timing: an instruction sent while the chip still programs is ignored;
* boundaries: USB packets, pages, gaps, records without data, 16-bit counters,
  the end of a text, of a buffer, of the 32-bit address space;
* two passes over the same text that may disagree about what a record is;
* one counter that says both where a walk is and that it has ended.

`PROJECT.json` lists each hazard at its line with the properties that cover it.

What makes each part correct:

* **SPI stream**: sends the caller's bytes and no others, stores within the
  caller's buffer, gives every byte its own answer, reports success only for a
  whole transfer, returns.
* **Flash writer**: bytes of different pages never meet in the page buffer; at
  the end the flash holds the file and nothing else has changed.
* **Verification**: a passed check means that the flash holds the file; a good
  write is never reported corrupted.
* **Session**: only a chip whose signature was asked for is modified; an option
  does what the documentation says; the target leaves reset; the process ends.
* **Reading**: what is in the caller's buffer is the memory byte for byte, and
  after a failure a prefix of it; a read returns.
* **HEX parser**: takes every record set as it is written, accepts nothing that
  it has not parsed completely, notices a wrong character, stores in its array.
* **HEX copies**: the address range is the smallest that holds the data; a copy
  puts each byte at its address, and stores nothing behind the buffer.
* **EEPROM writing**: the cells hold the file; a lost byte costs its own cell only.
* **Asynchronous reading**: in every interleaving of callbacks, errors and Ctrl-C
  the bytes are stored in place, no transfer is reused while pending, the
  function returns unless libusb has refused the IN transfer.

## Modules

| module | models | checked by | proved in |
|---|---|---|---|
| `SpiStream` | `ch341SpiStream` and `usbTransfer` | itself | `SpiStreamProofs` |
| `FlashReader` | `read_flash`, `read_eeprom` (extends `SpiStream`) | itself | `FlashReaderProofs` |
| `AvrChip` | the chip, external: page buffer, page write, erase, busy | through its users | |
| `FlashWriter` | `main_write_stream`, `write_page` (extends `AvrChip`) | `MCFlashWriter` | `FlashWriterProofs` |
| `FlashImage` | abstract: an image is collected and programmed | as `StoresImage` of `FlashWriter` | `FlashWriterProofs` |
| `AutoProgram` | option `a`: erase, write (extends `FlashWriter`), read back, compare | `MCAutoProgram` | `AutoProgramProofs` |
| `Session` | `main`, `ch_init`, `check_signature`, `ch_exit` | `MCSession` | `SessionProofs` |
| `HexParser` | `ihex_rs_from_mem`, `ihex_parse_single_record` | `MCHex` | `HexProofs` |
| `HexImage` | `ihex_rs_iterate_data`, `ihex_rs_get_address_range`, `ihex_mem_copy` (extends `HexParser`) | `MCHex` | `HexProofs` |
| `EepromWriter` | `write_eeprom`, beside the image (extends `HexImage`) | `MCHex` | `HexProofs` |
| `AsyncBulk` | `ch341SpiRead`, `cbBulkIn`, `cbBulkOut`, `sig_int`, libusb | itself | `AsyncBulkProofs` |
| `Recursion` | nothing: lemmas about folds, recursive functions and sequences | | itself |

A definition whose comment begins "A faulty X" is not part of a specification:
it is X with a plausible bug, kept to show that a property notices it.

### SpiStream

A behaviour is a sequence of calls on one open (or closed) device. `Call` is the
entry with its NULL test; `WritePacket` builds and writes a packet; `ReadPacket`
reads the answer and closes the loop. `usbTransfer`'s other outcomes are
`WriteError`, `ReadError` (-1, in particular after the timeout) and `ShortRead`
(a smaller count, no error for the code), enabled by the constant `Faults`.
SPI is full duplex, so each byte the chip clocks puts an answer in `fifo`, the
bridge's queue; an answer is the pair (call, offset in `out`) that caused it, so
an answer in the wrong place or from an older call is visible. Byte values,
`swapByte` and the command byte itself are abstracted. A bulk *write* that moves
fewer bytes without an error is not modelled.

`InBounded` and `OutBounded` are the two sides of the buffer question,
`WholeTransfer` and `OwnAnswers` what a returned 0 means, `CallReturns` that the
loop ends. `seen` is a history variable, the faults that have occurred: what a
property promises may end with the first short read or the first fault.

### FlashReader

`Request` is the call of `read_flash` or `read_eeprom`, `AddCommand` one round of
the loop that builds the instructions, `Send` the call of `ch341SpiStream`, whose
steps follow as `Stream`, and `StoreData` the loop that takes every fourth byte.
The counter `i` is kept modulo `CounterMod` (2^16 in the code, where it is
compared with an `int`), `high` is bit 3 of `command`, which is not computed from
`i` but alternates beside it. A byte of the memory is known by its address; an
answer of `SpiStream` names the byte that caused it, so `ByteOf` finds the address
that was asked for. What did not arrive is `Garbage`, as malloc left it; what
answers something else is `Stray`. `before` is a history variable: the faults of
earlier reads, whose late answers may still wait in the bridge.

### AvrChip, FlashWriter, FlashImage

A byte is the set of its 1 bits: erasing gives the full set and programming
intersects, as flash does. `LoadPage` into a cell loaded before keeps either
value or both, a busy chip misses a page write or an erase and may miss a load.

`FlashWriter` follows the two nested loops: `LoadByte` (head of the inner loop,
one `load_pg`), `TestGap`, `TestPageEnd`, `EndRecord` (the EOF flush and the next
record), `Finish`. `GapTests` gives the outcomes of the comparison at
`chavrprog.c:246`; for the last record it reads behind the array, so both are
possible. `LossyBus` lets any instruction get lost unseen, `SleepCovers` says
whether the delay is at least the chip's programming time. `loaded` is a history
variable: the addresses loaded since the last `write_page`.

`Writable` collects what a file must satisfy: records as the parser leaves them
without extended addresses (`Plain`), no address twice, inside the flash, and
`PageSafe`: wherever the data goes on in another page, the page-end test or the
gap test sees it. `Standard` is a simple sufficient form: data in ascending order, no
other records between it, and a record of full length before each gap.

`FlashImage` is the promise: collect bytes, program what is pending at its own
address, finish only when the whole image is there. The refinement mapping takes
`image` from the file, `memory` from the flash read by address, `pending` from
`loaded`.

### AutoProgram

`chip_erace`, the writer's steps, `read_flash`, `compare`; a program counter
`stage` orders them. `MemCopy` is `ihex_mem_copy` with its 32-bit stores at
16-bit steps, up to the first record that begins outside the flash (`FirstOutside`), where it
ends with an error that nobody looks at; `FastPasses` and `StrictPasses` are the two comparison loops. The
answer of `read_flash` may stop anywhere on a lossy bus, and the buffer then
keeps `Garbage` from malloc. Files satisfy `Plain`. `early` is a history variable:
the program went on although the chip was busy. With it one instance has both
long and short delays: a false alarm needs a loss or an early step. Answers of an
earlier transfer that arrive shifted are left out here: the module begins with an
empty bridge, and a read stops at its first failure.

### Session

A command line is a sequence of tokens; `Option` is one round of the getopt loop
(permuting words, missing arguments), `Handler` the switch. Each option becomes
a list of calls, `todo`, and each call is one action; `ch_exit` replaces the
list, as the C function never returns. `-t` falls through into `-a`, as in the
code. The option `v` is not in the getopt string and is not modelled; nor is a
NULL from fopen, nor what `-d` sets besides the signature. Of `spi_data` the two
bytes that the program looks at are kept, with the values `toggle_reset` leaves
in them, since a failed exchange leaves them to the next comparison. An open
adapter loses an exchange only with `LossyBus`; the answer can be lost after the
target has obeyed, or be left in the bridge: `late` is the queue of such answers,
and the next exchange takes the oldest of them for its own. Every later answer is
then one too late. A long read of a memory takes in what waits (`ReadMemory`). `-f` is
three exchanges and `-L` one, each answered with any of `FuseBytes`, of which some may
be bytes of signatures.

### HexParser, HexImage, EepromWriter

The three share a state, one file from its text to its use. `HexParser` has both
passes: `CountMarks` sizes the array by the record marks before the first NUL,
`ParseRecord` is one round of the second pass with `ihex_parse_single_record`
inside, which stores a record before it checks it, `EndOfText` its end, `CheckLast` the test of the last element. Hexadecimal
digits are their values, four other characters have names (record mark, CR, LF,
NUL), one stands for the rest. `beyond` is what lies behind the text, which both
the parser and, through `DataByte`, `ihex_rs_iterate_data` may read. A record keeps
type, address and data; `Calloc` is what an element of the array is before it is
parsed. `source` is a history variable: the records that the text was made from.

`HexImage` walks over the records with `iterate_data` (`Stop`, `OffsetAtStop`)
for the range (`ihex_rs_get_address_range`, `RangeRecord`) and for the copy
(`ihex_mem_copy`, `CopyRecord`, `OutOfRange`); the copy begins with or without the other walk
before it, as in `check_flash`, and a walk that fails leaves what was copied so far;
`next` is the library's `*i`, 0 before the first record and again at the end
(`IterateEnds`), `offset` what the caller keeps for it between two calls.
`IterateFails` is an EOF record before the last, an unknown type, or none at all.
`top` records how far the copy has stored, inside the buffer or behind it. The
reference is `StartOf`, written from the format: the base of a record is set by
the last extended address record before it.

`EepromWriter` adds the other use of a parsed file, `write_eeprom`: `WriteByte`
sends one byte and may lose it, `NextRecord` goes on. It looks at neither the
record's type (but for start segments) nor the offset.

`Usable` collects what the library understands: an EOF record at the end, two bytes
in each extended address record, and only 0 for extended segments.

### AsyncBulk

`ch341SpiRead` in chunks: `Chunk` fills and submits an OUT transfer with all
packets of a chunk and an IN transfer for one (`SubmitBoth`); `cbBulkIn` is the callback for a
packet that came in, with the loop's reaction (`Resubmit`, or leave the loop),
`cbBulkInError` that for an error; `Deselect` is the packet at the end of a chunk
and the test of `force_stop`, `Return` frees both transfers. The bridge and libusb
are `ClockPacket`, `cbBulkOut`, `InCompletes`, `InTimesOut`, `InFails`, `OutFails`;
`sig_int` is the handler, at any moment; its flag may also be left over from before the
call. libusb may refuse a transfer that is submitted, which the code does not look at: it
stays idle then. The callbacks only run inside
`libusb_handle_events_timeout`, so a callback and the loop's test after it are one
step; between two of them everything may happen. A byte of the flash is known by
its address; a position in a chunk counts from the read command, whose echo of
four bytes the first callback drops (`Skip`).

## Runs

| run | asks | instance | result |
|---|---|---|---|
| `spi_faulty` | `TypeOK`, `InBounded`, `WholeTransfer`, `OwnAnswers`, `CallReturns` with write errors, read errors, late answers and short reads | packets of 4, lengths 0 to 7 around 1, 2, 3 packets, 2 calls, 3 bytes of overrun followed | holds |
| `spi_short` | `OutBounded` with short reads | 1 call | violated |
| `read` | `ReaderTypeOK`, `ReadsMemory`, `FailsWithPrefix`, `ReadReturns` | packets of 4, counter modulo 8, requests of 0, 1, 5, 7, 8 bytes and an EEPROM of 6, 2 reads in a row, write and read errors | holds |
| `flash_write` | `TypeOK`, `PageCoherent`, `Written`, `StoresImage`, `Ends` | 3 pages of 2 words, `LENGTH` 2, all writable files of two data records of 0, 1, 2, 5 bytes (start segment records between), triples of adjacent records, blank and used flash | holds |
| `flash_gap` | `Written` for any ascending file | same | violated |
| `auto` | `ProgramTypeOK`, `StrictCheckIsProof`, `FastCheckIsProof`, `NoFalseAlarm`, `Verdict` | 2 pages; four files of different shape over a lossy bus with short delays; all files of one or two data records that fit where nothing fails | holds |
| `auto_fast_base` | `FastChecksWritten` | 2 pages, nothing fails | violated |
| `session_faults` | `TypeOK`, `SignatureGate`, `TargetReleased`, `FirstCheckAccepts`, `DocumentedEffects`, `Ends` | all pairs of 17 options with and without `-d`, right and wrong chips, 3 lost exchanges counted, 2 late answers | holds |
| `session_second` | `RightChipAccepted` | `-d mega328p -e -w h` | violated |
| `session_eeprom` | `EepromWritten` | `-d mega328p -p w h` | violated |
| `hex` | `EepromTypeOK`, `ParsesIntact`, `AcceptedComplete`, `StoredInArray`, `DamageDetected`, `RangeHoldsData`, `CopyIsImage`, `StoredInBuffer`, `EepromHoldsFile`, `Ends` | buffer and EEPROM of 16 bytes; texts of record sets with every type, LF and CR LF; short ones also with one character changed, missing or doubled and cut off anywhere; one lost instruction | holds |
| `async` | `TypeOK`, `StoredInPlace`, `ReadWhole`, `IdleWhenReused`, `Returns` | packets of 6, 3 to a transfer (6 bytes to a chunk), lengths from 0 to 20, errors of both transfers and of the packet between chunks, either transfer refused when it is submitted, Ctrl-C at any moment or before | holds |

**Bounds.** `PacketLength` 4 carries three bytes, so the lengths give no packet,
a full one, and one byte in the last of two or three packets. A second call shows
leftovers of the one before. Pages of two words have
all four positions of a byte; a record of five bytes spans pages, `LENGTH` 2 lies
between short and long records, three pages give gaps with a page between. The
two bits of a byte and the three contents tell neighbours, erased and programmed
bytes apart. `MaxLost` stops counting at 3, the number of reads in a signature;
more exchanges may still fail. `Overrun` cuts the runaway of a transfer with
repeated short reads; `MaxCalls` the number of calls. No bound cuts a run of the
flash writer or of a session.

In `read`, instructions of four bytes over packets of three bytes of payload
straddle packets, as they do over packets of 31; 7 is the largest request that a counter modulo
8 counts and 8 the first that it does not, where `MaxCommands` stops following the
endless loop. In `hex` the records meet each other and the end of the buffer at
every distance that the words of 16 bits and the two bytes behind them can
bridge. `UINT32_MAX` is 25 bits there, because TLC computes in 32 bits with a sign; extended
linear records reach it all the same, so the wrap of an address happens. `Heap` has two
values for what lies behind the text, one with digits and one without. In `async`,
with 6 bytes to a chunk, the lengths give no, one and up to four chunks, and last
packets of every length. `MaxLate` 2 lets every byte of a signature come from the
exchange before the last.

Deadlock is not checked: every specification describes a program that stops.

**Fairness.** `SpiStream`: weak fairness of the running call, since every bulk
transfer returns within `DEFAULT_TIMEOUT`; none for starting a call.
`FlashWriter`, `AutoProgram`: of the program, which only sleeps for fixed times,
and of the chip's completion, which the hardware guarantees. `Session`,
`EepromWriter`: of the process as a whole. `FlashReader`: of a read that has
begun; none for starting one. `AsyncBulk`: of the program, and of the bridge and
libusb together, which report a submitted transfer's completion or its time-out; none for
errors, refusals and Ctrl-C. So `Returns` can say both: after a refused IN transfer the
inner loop waits for ever, and after everything else the function returns. No liveness property here needs strong fairness.

## What the violated runs show

* `spi_short`: after a short read `len` shrinks by the bytes that came while `out`
  moved on by the whole packet (`ch341a.c:198-203`); further packets are cut from
  behind the caller's buffer.
* `flash_gap`: the gap test compares with the record's start plus 16
  (`chavrprog.c:246`), not with its end. A short record followed by a small gap
  into the next page is not flushed; its bytes go into the next page.
* `auto_fast_base`: a file whose first address is not below its size is not
  compared at all and reported as checked (`chavrprog.c:276`).
* `session_second`: `read_sign[2]` is left at 3 (`chavrprog.c:157`); the second
  operation of a process refuses the right chip.
* `session_eeprom`: `-p w` opens no adapter (`main.c:226`).

More surprises were met in the code. They are part of the models, and the
properties name them as exceptions, but no run is spent on them:

* Writing: records of extended and linear addresses are sent as data, to the
  flash and to the EEPROM, since only start segment records are skipped
  (`chavrprog.c:232`, `:355`).
* Reading: for 65536 bytes and more the 16-bit counter never reaches the number
  asked for and the loop runs behind its buffer (`chavrprog.c:192`). `README.md:76`
  excludes devices with more than 64K; one with exactly 64K is affected too.
* Command line: `-a HEX` with another option behind it does nothing
  (`main.c:133`); a fuse
  option takes whatever follows it for its value, `-l -H 0x2A` writes 0x00 into the
  low fuse (`main.c:171`); `-t s HEX` falls through to an automatic programming.
* Parser: a damaged record mark makes its line disappear without an error, although
  `ihex_parse.c:233` says that a record has to begin with one: the second pass skips
  to the next mark (`:195`). A text that ends inside a record is refused with no
  error set (`:188-191`). Without any mark the index of the last record wraps
  (`:202`). After a NUL no mark is counted, but records are still stored if the NUL
  lies inside a line: behind the array.
* Copies: the offset of an extended segment record is computed from one of its two
  bytes (`ihex_record.c:99`). `ihex_mem_copy` stores two bytes of zeros behind
  each record, at the end of the buffer outside of it.
* Asynchronous reads: if libusb refuses the IN transfer, which nobody looks at
  (`ch341a.c:378`, `:392`), no callback comes and the loop at `:383` never ends; when
  the last packet of the read is full, the length that is sent is too small and
  its bytes never come (`:371`); a failed transfer's
  -1 is overwritten by the result of the packet that deselects the chip, and `ret`
  is unsigned, so its test never stops anything; a Ctrl-C outside a read ends the next one
  after its first chunk (`:400`). A Ctrl-C also cuts a `usleep` of the writer short.

## Proofs

All proofs hold for every value of the constants that satisfies the named
assumptions of the modules (`SpiStreamAssumption`, `ChipAssumption`,
`WriterAssumption`, ...); what a theorem assumes besides is in its statement.

`SpiStreamProofs`:
* `TypeCorrect`, `ReceiveBufferBounded`. The inductive invariant says besides
  types that while a read is pending the queue holds at least what can be stored
  and that a packet's payload never exceeds `len`; this is what keeps `len` a
  natural number and `Len(in) + len = total`.
* `SuccessIsWhole` and `NoShortReads`: until the first short read, `out` is exactly
  behind what was stored (plus the payload under way), from which
  `WholeTransfer`, and `OutBounded` where `Faults` has no short reads.
* `FaultFreeAnswers`: until the first fault, `in` is the sequence of own answers
  so far and the queue empty between packets; hence `OwnAnswers`.

`FlashWriterProofs`:
* `TypeCorrect`.
* `PageCoherence`, for files that are `Plain` and `PageSafe`, on any bus and with
  any delay. `PageCoherent` alone is not inductive: between records the proof
  must know which record was loaded last and that, if the next data lies in
  another page, the buffer has been written. `SamePage` and its neighbours are
  the arithmetic of pages.
* `StandardFilesAreSafe`: `Standard(f) => PageSafe(f)`, so the theorem covers files
  in that form, such as a linker's output without a short record before a gap.
* `WritesFile`, for `Plain`, `Disjoint` and `PageSafe` files when the delay covers
  the chip's programming time. Its invariant splits the image into bytes already
  programmed, bytes in the buffer (whose cells hold exactly them, all others
  being blank) and bytes to come, and says that the flash is the initial one
  intersected with the first part.
* `ImplementsFlashImage` (`Spec => StoresImage`), for `Writable` files, enough delay and a
  bus that loses nothing. The invariant is that of `WritesFile` and that nothing is lost. An
  address of the flash has a place of its own (`PlaceInjective`), so a page write
  programs exactly the pending bytes, each at its address; a load is a step that
  collects, and the tests that send nothing are stutters. `Written` needs no bound on
  the addresses, the refinement does: two addresses a flash size apart share their cell.

`AutoProgramProofs`, on any bus and with any delay:
* `ProgramTypeCorrect` is the types of the state.
* `StrictCheckProves`, for files without overlaps inside the flash: from the
  comparison on a complete answer is the flash itself, and a passed comparison makes
  it the file up to its first start segment record. Nothing is assumed about the
  write before it: this is why the strict check is worth its time.
* `FastCheckProves`, for files inside the flash. `CInv` says that a complete answer holds
  the flash at every address that was asked for, and that the verdict is that of the
  comparison. The rest is about files: in a homogeneous one the addresses are
  `0 .. RsSize - 1` (`HomogeneousImage`), and `MemCopy`, a fold with padded words whose
  zeros may fall on other records, is the image (`CopyIsImage`).
* `NoAlarmWithoutLoss`, without any assumption: `EInv` adds the writer's invariant of
  `WritesFile` on the erased flash, which holds once the erase has reached the chip and as long
  as no step is early; so the comparison finds the image.

`FlashReaderProofs`, for every packet size, width of the counter and mixture of
faults: `ReaderTypeCorrect`, `ReadIsMemory`, `FailureIsPrefix`. They build on the
invariant `Clean` of `SpiStreamProofs`: without short reads what was stored is the
sequence of own answers. `ReadInv` adds that after `i` rounds the instructions are
those of the first `i` bytes and that the bit of `command` is the parity of `i`,
which nothing in the code enforces. For requests that the counter cannot count
nothing is stored, so nothing is wrong.

`AsyncBulkProofs`, for every packet size, number of packets, length and mixture of
faults: `NeverReusedPending` follows from `Quiet`, that outside the inner loop the
IN transfer is idle. `BytesInPlace` needs `PlaceInv`: the packets that are still to be
sent, those that wait, and the one that has arrived follow each other, all of the
current chunk, and the first of them begins where the callback stores next. `TypeCorrect` says among other
things that no offset becomes negative. `WholeRead` needs besides that every packet of the
chunk is still to be sent, waits in the bridge or has come in, and brings something
(`AllComing`), and that chunks end at multiples of `max_payload`; `ReadWhole` says exactly which
bytes are missing, those of a full last packet (`Lost`).

`SessionProofs`, for every command line, set of chips and bus, late answers included. `SInv`: what an
option still has to do is always the rest of a `ch_init` followed by calls that
do not begin one, and as many bytes of a signature are kept as that rest leaves; from
it `TypeCorrect`, in particular that no fourth byte is read. `TargetReleasedAtExit`
needs `RInv`: a target in reset has an open adapter, and each release of the
adapter still to come stands right behind a release of the reset line. It assumes
`MaxLost # 0`: with a bound of 0 no failure would be counted. Further:
* `GateHolds` (`SignatureGate`). `GateInv` says which bytes may be in `spi_data` and wait in
  the bridge: those of this chip's signature and the few that an exchange leaves, none
  of them an echo of the enable instruction when that is sent, none of them 0 when a signature
  is read. What was left before, fuse bytes among it, does not matter: since no answer that waits
  has the echo, the enable instruction is accepted only if its own answer came, and then none
  waits any more. So no other device's signature can be put together from them
  (`NoConfusion`), and a signature of zeros has cost three exchanges. It assumes that
  the connected chips have signatures of AVR chips (`AvrSign`; those of `config.c` are proved to
  be such, `ConfsetAvr`): for arbitrary signatures the property is false, since late answers
  shift the bytes of one chip and a table with a shifted copy of another
  chip's signature would accept it. `MaxLost >= 3`: three failures must be countable.
* `FirstCheckPasses` (`FirstCheckAccepts`). `FInv`: before the only operation of a command
  line the address that `read_sign` asks for is 0, and while the signature is read each
  byte is the one that was asked for.
* `EffectsAsDocumented` (`DocumentedEffects`). `Orderly`: nothing is done to the target before
  its signature is accepted, and from then on what has been done and what the pending
  calls will do is what the option stands for. It assumes that every chip has a
  signature (`NoSign \notin Targets`): one without would pass as "no device named".
  The last two assume `TimeIsNumber`, that what follows `-t` in a command line is meant as
  a time: neither the name of a file nor `s`. Because `-t` falls through into `-a`
  (`main.c:128`) such a word would be one operation more than the command line asks for.

`HexProofs`, for every set of texts and every buffer. For what holds of arbitrary texts
no induction is needed: what the second pass knows of the first is the invariant `Walk`, that it
has begun at most as many records as there are marks before its place, each at a
mark of its own. Hence `ArrayBounded`, for texts without NUL, and
`AcceptedIsComplete`. For the walks `ImageInv` says that the offset kept is the base that
the format gives to the last record handed out; `OffsetIsBase` shows that it stays
so across extended records. On it rest `RangeIsSmallest` (`RangeInv`, the range of the
records seen so far; it assumes that an address is as wide as in the code,
`UINT32_MAX >= HighBase + UINT16_MAX`, since a start address that wraps is wrong),
`CopyIsRight` (`CopyInv`: the buffer is right for the records copied so far; in
ascending order the zeros behind a record can only fall on later ones, not yet
copied), `StoresEndInBuffer` and `EepromTypeCorrect`. Further:
* `EepromIsProgrammed` (`EepromHoldsFile`). A cell is wrong if it does not hold the byte of the
  last record that has been sent to it (`Sent`, `Expected`, `Wrong`); `HoldsInv`: no more
  cells are wrong than instructions got lost. Sending a byte makes its cell right or
  costs one. When all is sent, what was sent last is what the file says
  last (`AllSent`), though extended records are sent as data.
* `IntactIsParsed` (`ParsesIntact`). `IntactLayout`: in the text of a record set, each line
  begins where the one before ends and holds the bytes of its record as two digits
  each. So the marks are the lines (`MarksAreLines`), and the round of the second pass that
  begins at a line reads its record and stops at the next line (`LineParsed`);
  `ReadInv` counts the lines. The sum in the checksum is a fold whose value is worked
  out in `ChecksumFits`. `ParserAssumption` says that the length of a record fits into
  the two digits it is written in.
* `OneWrongIsDetected` (`DamageDetected`). `Spoilt`: the text is laid out as in `IntactLayout` but for
  the character at one place `d`. `SpotLine` looks at the line that the second pass is about to read:
  - a wrong digit in a byte behind the length spoils the sum (`ByteWrong`);
  - a wrong length makes the record end where no line end is, where the next line
    begins, or where the sum does not come out, since the bytes summed and the
    checksum are others (`LengthWrong`);
  - what else can be wrong in a line is its end, which the check of the line end refuses, or which
    changes nothing of the record, or its mark, which is the exception of the property.

  A digit that becomes a mark or a NUL can stop the search for the next mark in front of
  its proper place; from there the text ends as it should, or every record is refused (`SpotStray`). `SpoiltInv`: as
  long as no mark is missed the records read so far are those written, and the
  elements of the array behind them are still as `calloc` left them, so that a mark too many,
  counted but never read, makes the last record no EOF record and the text
  refused.

`Recursion` has what these proofs need of induction. The library's induction theorems take
a predicate as an operator, which no prover here can instantiate; `Induction` takes
it as a set, and is proved from the well-foundedness of the numbers. From it: recursive
functions on `0 .. n` exist (`RecursionExists`); the CHOOSE by which the community modules
define folds is that function, where the set folded over is an interval
(`FoldExists`, `FoldIsRecursion`); where the parts of `FlattenSeq` lie (`FlattenLayout`);
what a sum is, and that it changes with one of its terms (`SumChanged`).

Only model-checked is everything temporal beyond invariance and step simulation (`CallReturns`, `Ends`,
`Verdict`, `ReadReturns`, `Returns` need fairness, which is outside the prover's
reach).

## Not modelled

* `ch341SpiWrite`, which repeats the loop of `ch341SpiRead` with the directions
  exchanged, and the SPI flash commands built from single calls of
  `ch341SpiStream` (`ch341ReadStatus`, `ch341WriteStatus`, `ch341EraseChip`,
  `ch341SpiCapacity`): nothing calls them.
* `ihex_rs_from_file`: open, fstat, mmap and their clean-up; its result is the kind
  of file in `Session`, its text is what `HexParser` begins with.
* The widths and byte orders of `ihex_mem_copy` other than the one that `check_flash`
  asks for, `ihex_rs_free`, and the helpers of the library that nothing calls.
* The libusb calls of `ch341Configure`, `ch341SetStream` and `ch341Release` and their
  clean-up: an adapter is open or not.
* The size of `data_buffer` and of the other buffers of the program (nothing bounds
  a request by them), output files, messages.
* Byte values where no property tells them apart; bulk writes that move fewer bytes
  without an error; late answers in `AutoProgram`.
* Extended addresses in `AutoProgram`: its comparison is that of a plain file.

## Plan

Done, in this order: `SpiStream`; `AvrChip`, `FlashWriter`, `FlashImage`;
`AutoProgram`; `Session`, then with late answers; `FlashReader`; `HexParser`,
`HexImage`, `EepromWriter`; `AsyncBulk`; each with its proofs.

What is left, by importance:

1. `AutoProgram` with the loops of `FlashReader` and `HexImage` in place of its
   single steps, so that files with extended addresses and shifted answers reach
   the comparisons.
2. `ch341SpiWrite`, if the code comes into use.
