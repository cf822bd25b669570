----------------------------- MODULE FlashReader -----------------------------
(***************************************************************************)
(* read_flash and read_eeprom: the instructions for all bytes are built in *)
(* one buffer, go through a single ch341SpiStream, and every fourth byte   *)
(* of what came back is the memory's answer.  Nobody looks whether the     *)
(* stream succeeded: data_buffer takes what tmp_buf_in holds.              *)
(*                                                                         *)
(* A byte of the memory is known by its address; what is in data_buffer is *)
(* the address whose byte arrived, or one of two marks for the others.     *)
(***************************************************************************)
EXTENDS SpiStream

CONSTANTS
  CounterMod,   \* 2^16: the loops count in a uint16_t
  EepromBytes,  \* cfg_eeprom
  Requests,     \* the values of `mem' that main passes to read_flash
  MaxCommands   \* bound: instructions followed in a loop that never ends

ASSUME ReaderAssumption ==
  /\ CounterMod \in Nat \ {0, 1}
  /\ CounterMod % 2 = 0
  /\ EepromBytes \in Nat
  /\ Requests \subseteq Nat
  /\ MaxCommands \in Nat
  /\ \A n \in Requests \cup {EepromBytes} : 4 * n \in Lengths

VARIABLES
  phase,       \* "idle", "build": the first loop, "stream", "done"
  kind,        \* the memory that is read
  mem,         \* the number of bytes asked for
  i,           \* the counter of the first loop
  high,        \* bit 3 of `command': the high byte of a word
  tmp_buf,     \* the instructions: the addresses they ask for
  data_buffer, \* what the caller gets
  before       \* history: the faults that had occurred when the read began

reader == <<phase, kind, mem, i, high, tmp_buf, data_buffer, before>>
readerVars == <<vars, reader>>

Memories == {"flash", "eeprom"}
Garbage == <<"garbage", 0>>  \* what malloc left there
Stray == <<"stray", 0>>      \* the answer to some other byte that was sent
Places == Memories \X Nat

ReaderTypeOK ==
  /\ TypeOK
  /\ phase \in {"idle", "build", "stream", "done"}
  /\ kind \in Memories
  /\ mem \in Nat
  /\ i \in 0 .. CounterMod - 1
  /\ high \in {0, 1}
  /\ tmp_buf \in Seq(Places)
  /\ data_buffer \in Seq(Places \cup {Garbage, Stray})
  /\ before \subseteq Faults

-----------------------------------------------------------------------------

ReaderInit ==
  /\ Init
  /\ phase = "idle"
  /\ kind = "flash"
  /\ mem = 0
  /\ i = 0
  /\ high = 0
  /\ tmp_buf = << >>
  /\ data_buffer = << >>
  /\ before = {}

\* A faulty Request: `command' is not initialised with each call.
RequestKeepsHigh(k, n) ==
  /\ phase \in {"idle", "done"}
  /\ call < MaxCalls
  /\ phase' = "build"
  /\ kind' = k
  /\ mem' = n
  /\ i' = 0
  /\ tmp_buf' = << >>
  /\ data_buffer' = << >>
  /\ before' = seen
  /\ UNCHANGED <<vars, high>>

\* read_flash(n) or read_eeprom() is called.
Request(k, n) ==
  /\ phase \in {"idle", "done"}
  /\ call < MaxCalls
  /\ phase' = "build"
  /\ kind' = k
  /\ mem' = n
  /\ i' = 0
  /\ high' = 0
  /\ tmp_buf' = << >>
  /\ data_buffer' = << >>
  /\ before' = seen
  /\ UNCHANGED vars

\* `-r ADDR', `-r f FILE' and the checks; `-p r'.
main_reads ==
  \/ \E n \in Requests : Request("flash", n)
  \/ Request("eeprom", EepromBytes)

\* A faulty AddCommand: the counter has too few bits for some requests.
AddCommandNarrow ==
  /\ phase = "build"
  /\ i < mem
  /\ Len(tmp_buf) < MaxCommands
  /\ IF kind = "flash"
     THEN /\ tmp_buf' = Append(tmp_buf, <<kind, 2 * (i \div 2) + high>>)
          /\ high' = 1 - high
     ELSE /\ tmp_buf' = Append(tmp_buf, <<kind, i>>)
          /\ UNCHANGED high
  /\ i' = (i + 1) % (CounterMod \div 2)
  /\ UNCHANGED <<vars, phase, kind, mem, data_buffer, before>>

\* A faulty AddCommand: bit 3 of `command' is added, not toggled.
AddCommandCounts ==
  /\ phase = "build"
  /\ i < mem
  /\ Len(tmp_buf) < MaxCommands
  /\ IF kind = "flash"
     THEN /\ tmp_buf' = Append(tmp_buf, <<kind, 2 * (i \div 2) + high>>)
          /\ high' = high + 1
     ELSE /\ tmp_buf' = Append(tmp_buf, <<kind, i>>)
          /\ UNCHANGED high
  /\ i' = (i + 1) % CounterMod
  /\ UNCHANGED <<vars, phase, kind, mem, data_buffer, before>>

\* One instruction.  For the flash it has the address of a word, and `command'
\* alternates between its low and its high byte.
AddCommand ==
  /\ phase = "build"
  /\ i < mem
  /\ Len(tmp_buf) < MaxCommands
  /\ IF kind = "flash"
     THEN /\ tmp_buf' = Append(tmp_buf, <<kind, 2 * (i \div 2) + high>>)
          /\ high' = 1 - high
     ELSE /\ tmp_buf' = Append(tmp_buf, <<kind, i>>)
          /\ UNCHANGED high
  /\ i' = (i + 1) % CounterMod
  /\ UNCHANGED <<vars, phase, kind, mem, data_buffer, before>>

\* All of them are sent at once.
Send ==
  /\ phase = "build"
  /\ ~(i < mem)
  /\ Call(4 * mem)
  /\ phase' = "stream"
  /\ UNCHANGED <<kind, mem, i, high, tmp_buf, data_buffer, before>>

\* The steps of ch341SpiStream.
Stream ==
  /\ phase = "stream"
  /\ Transfer
  /\ UNCHANGED reader

\* The memory answers in the last of the four bytes of an instruction.
ByteOf(answer) ==
  IF answer[1] = call /\ answer[2] % 4 = 3 /\ answer[2] < 4 * mem
  THEN tmp_buf[(answer[2] \div 4) + 1]
  ELSE Stray

\* A faulty Fetched: the answer is taken from the byte before.
FetchedEarly(j) == IF 4 * j - 1 <= Len(in) THEN ByteOf(in[4 * j - 1]) ELSE Garbage

\* Byte 4j-1 of tmp_buf_in (from 1: its 4j-th).
Fetched(j) == IF 4 * j <= Len(in) THEN ByteOf(in[4 * j]) ELSE Garbage

\* The last loop, whatever the stream returned.
StoreData ==
  /\ phase = "stream"
  /\ pc = "ready"
  /\ data_buffer' = [j \in 1 .. mem |-> Fetched(j)]
  /\ phase' = "done"
  /\ UNCHANGED <<vars, kind, mem, i, high, tmp_buf, before>>

Reading == AddCommand \/ Send \/ Stream \/ StoreData

ReaderNext == main_reads \/ Reading

ReaderSpec == ReaderInit /\ [][ReaderNext]_readerVars

\* A read that has begun runs on.
FairReader == ReaderSpec /\ WF_readerVars(Reading)

-----------------------------------------------------------------------------
(* Properties *)

\* Byte j of the memory (from 1).
OwnByte(j) == <<kind, j - 1>>

\* As long as nothing went wrong on an open device, data_buffer holds the
\* memory: byte j of the answer is the one at address j.
ReadsMemory ==
  phase = "done" /\ devHandle /\ seen = {} => data_buffer = [j \in 1 .. mem |-> OwnByte(j)]

\* A read that starts on a bus without leftovers and fails, but meets no short
\* read, leaves the first bytes of the memory and then malloc's garbage; never
\* the byte of another address.
FailsWithPrefix ==
  phase = "done" /\ before = {} /\ "short_read" \notin seen =>
    \E n \in 0 .. mem :
      data_buffer = [j \in 1 .. mem |-> IF j <= n THEN OwnByte(j) ELSE Garbage]

\* A read of fewer bytes than the counter can count comes to an end.
ReadReturns ==
  phase = "build" /\ mem < CounterMod ~> phase = "done" \/ "short_read" \in seen
=============================================================================
