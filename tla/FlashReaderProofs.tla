-------------------------- MODULE FlashReaderProofs --------------------------
(***************************************************************************)
(* What is proved about reading a memory, for every packet size, memory    *)
(* size, counter width and number of reads, from what SpiStreamProofs      *)
(* proves of the transfer: the instructions ask for the addresses from 0   *)
(* on, the answers are theirs up to the first failure, so that the buffer  *)
(* holds a prefix of the memory.                                           *)
(***************************************************************************)
EXTENDS FlashReader, SpiStreamProofs, SequenceTheorems, TLAPS

\* The first n instructions ask for the first n bytes.
Commands(n) == Len(tmp_buf) = n /\ \A k \in 1 .. n : tmp_buf[k] = OwnByte(k)

\* A read that began on a bus without leftovers has stored its own answers only.
Run ==
  /\ in = Own(Len(in))
  /\ pc = "write" => fifo = << >>
  /\ pc = "read" => fifo = [k \in 1 .. Payload |-> <<call, Len(in) + k - 1>>]

Undisturbed == before = {} /\ "short_read" \notin seen

ReadInv ==
  /\ Clean
  /\ ReaderTypeOK
  /\ phase # "stream" => pc = "ready"
  /\ phase # "idle" => mem \in Requests \cup {EepromBytes}
  /\ before \subseteq seen
  /\ phase = "build" => seen = before
  /\ phase = "build" /\ mem < CounterMod =>
       i <= mem /\ Commands(i) /\ (kind = "flash" => high = i % 2)
  /\ phase \in {"stream", "done"} => Commands(mem) /\ total = 4 * mem /\ call # 0
  /\ phase \in {"stream", "done"} /\ Undisturbed => Run
  /\ seen = {} /\ devHandle => ret = 0
  /\ phase = "done" => data_buffer = [j \in 1 .. mem |-> Fetched(j)]

\* The counter and the bit of `command' after one more instruction.
LEMMA CounterStep ==
  ASSUME NEW k \in Nat, NEW m \in Nat, k < m, m < CounterMod
  PROVE  /\ (k + 1) % CounterMod = k + 1
         /\ 2 * (k \div 2) + (k % 2) = k
         /\ 1 - (k % 2) = (k + 1) % 2
<1>1. CounterMod \in Nat /\ CounterMod > 0
  BY ReaderAssumption
<1>2. (k + 1) % CounterMod = k + 1
  BY <1>1
<1>3. 2 * (k \div 2) + (k % 2) = k /\ 1 - (k % 2) = (k + 1) % 2
  OBVIOUS
<1>4. QED
  BY <1>2, <1>3

\* The reader's loops keep the types of its variables.
LEMMA CounterType ==
  ASSUME NEW k \in Nat
  PROVE  (k + 1) % CounterMod \in 0 .. CounterMod - 1
BY ReaderAssumption

\* The answers that a call stores are numbered by calls and offsets.
LEMMA FetchedType ==
  ASSUME ReaderTypeOK, Len(tmp_buf) = mem, NEW j \in 1 .. mem
  PROVE  Fetched(j) \in Places \cup {Garbage, Stray}
<1>1. in \in Seq(Answers) /\ mem \in Nat /\ tmp_buf \in Seq(Places)
  BY DEF ReaderTypeOK, TypeOK
<1>2. CASE 4 * j <= Len(in)
  <2>1. 4 * j \in 1 .. Len(in)
    BY <1>1, <1>2
  <2>2. in[4 * j] \in Answers
    BY <1>1, <2>1
  <2> DEFINE a == in[4 * j]
  <2>3. a[2] \in Nat
    BY <2>2 DEF Answers
  <2>4. ASSUME a[2] < 4 * mem PROVE tmp_buf[(a[2] \div 4) + 1] \in Places
    <3>1. (a[2] \div 4) + 1 \in 1 .. mem
      BY <1>1, <2>3, <2>4
    <3>2. QED
      BY <1>1, <3>1
  <2>5. QED
    BY <1>2, <2>4 DEF Fetched, ByteOf
<1>3. CASE ~ (4 * j <= Len(in))
  BY <1>3 DEF Fetched
<1>4. QED
  BY <1>2, <1>3

\* What a stored byte is when the call's own answers were stored.
LEMMA FetchedOwn ==
  ASSUME mem \in Nat, Commands(mem), in = Own(Len(in)), Len(in) \in Nat,
         NEW j \in 1 .. mem
  PROVE  Fetched(j) = IF j <= Len(in) \div 4 THEN OwnByte(j) ELSE Garbage
<1>1. j \in Nat /\ (4 * j <= Len(in)) = (j <= Len(in) \div 4)
  OBVIOUS
<1>2. CASE 4 * j <= Len(in)
  <2> DEFINE n == Len(in)
  <2>1. 4 * j \in 1 .. n
    BY <1>2
  <2>2. Own(n)[4 * j] = <<call, 4 * j - 1>>
    BY <2>1 DEF Own
  <2>3. in[4 * j] = <<call, 4 * j - 1>>
    BY <2>2
  <2>4. /\ (4 * j - 1) % 4 = 3 /\ 4 * j - 1 < 4 * mem
        /\ ((4 * j - 1) \div 4) + 1 = j
    BY <1>1
  <2>5. Fetched(j) = tmp_buf[j]
    BY <1>2, <2>3, <2>4 DEF Fetched, ByteOf
  <2>6. QED
    BY <1>1, <1>2, <2>5 DEF Commands
<1>3. CASE ~ (4 * j <= Len(in))
  BY <1>1, <1>3 DEF Fetched
<1>4. QED
  BY <1>2, <1>3

-----------------------------------------------------------------------------

LEMMA ReadInit == ReaderInit => ReadInv
<1> SUFFICES ASSUME ReaderInit PROVE ReadInv
  OBVIOUS
<1>1. Clean
  BY CleanInit DEF ReaderInit
<1>2. ReaderTypeOK
  <2>1. TypeOK
    BY <1>1 DEF Clean, Level, IInv
  <2>2. 0 \in 0 .. CounterMod - 1
    BY ReaderAssumption
  <2>3. QED
    BY <2>1, <2>2 DEF ReaderInit, ReaderTypeOK, Memories
<1>3. QED
  BY <1>1, <1>2 DEF ReaderInit, Init, ReadInv

\* Where the transfer stands still, what is known of it stays.
LEMMA TransferKept ==
  ASSUME Clean, ReaderTypeOK, UNCHANGED vars
  PROVE  Clean' /\ TypeOK'
<1>1. Clean'
  BY CleanStep
<1>2. QED
  BY <1>1 DEF Clean, Level, IInv

LEMMA RequestKeeps ==
  ASSUME ReadInv, NEW k \in Memories, NEW n \in Requests \cup {EepromBytes}, Request(k, n)
  PROVE  ReadInv'
<1>1. Clean' /\ TypeOK'
  BY TransferKept DEF ReadInv, Request
<1>2. n \in Nat
  BY ReaderAssumption
<1>3. 0 \in 0 .. CounterMod - 1
  BY ReaderAssumption
<1>4. ReaderTypeOK'
  BY <1>1, <1>2, <1>3 DEF Request, ReaderTypeOK, ReadInv, vars, TypeOK
<1>5. i' <= mem' /\ Commands(i)' /\ high' = i' % 2
  BY <1>2 DEF Request, Commands
<1>6. phase' = "build" /\ seen' = seen /\ before' = seen /\ pc' = "ready" /\ mem' = n
      /\ devHandle' = devHandle /\ ret' = ret
  BY DEF Request, vars, ReadInv
<1>7. QED
  BY <1>1, <1>4, <1>5, <1>6 DEF ReadInv

LEMMA AddCommandKeeps ==
  ASSUME ReadInv, AddCommand
  PROVE  ReadInv'
<1>1. Clean' /\ TypeOK'
  BY TransferKept DEF ReadInv, AddCommand
<1> DEFINE c == IF kind = "flash" THEN <<kind, 2 * (i \div 2) + high>> ELSE <<kind, i>>
<1>2. /\ phase = "build" /\ i < mem /\ i \in Nat /\ mem \in Nat /\ kind \in Memories
      /\ high \in {0, 1} /\ tmp_buf \in Seq(Places) /\ tmp_buf' = Append(tmp_buf, c)
      /\ high' = (IF kind = "flash" THEN 1 - high ELSE high)
      /\ i' = (i + 1) % CounterMod
      /\ UNCHANGED <<vars, phase, kind, mem, data_buffer, before>>
  <2>1. i \in 0 .. CounterMod - 1
    BY DEF ReadInv, ReaderTypeOK
  <2>2. i \in Nat
    BY <2>1, ReaderAssumption
  <2>3. QED
    BY <2>2 DEF AddCommand, ReadInv, ReaderTypeOK
<1>3. c \in Places
  <2>1. 2 * (i \div 2) + high \in Nat
    BY <1>2
  <2>2. QED
    BY <1>2, <2>1 DEF Places
<1>4. /\ tmp_buf' \in Seq(Places) /\ Len(tmp_buf') = Len(tmp_buf) + 1
      /\ \A k \in 1 .. Len(tmp_buf) : tmp_buf'[k] = tmp_buf[k]
      /\ tmp_buf'[Len(tmp_buf) + 1] = c
  BY <1>2, <1>3, AppendProperties
<1>5. ReaderTypeOK'
  <2>1. i' \in 0 .. CounterMod - 1 /\ high' \in {0, 1}
    BY <1>2, CounterType
  <2>2. QED
    BY <1>1, <1>2, <1>4, <2>1 DEF ReadInv, ReaderTypeOK, vars
<1>6. ASSUME mem < CounterMod
      PROVE  i' <= mem' /\ Commands(i)' /\ (kind' = "flash" => high' = i' % 2)
  <2>1. Commands(i) /\ (kind = "flash" => high = i % 2)
    BY <1>2, <1>6 DEF ReadInv
  <2>2. /\ i' = i + 1
        /\ 2 * (i \div 2) + (i % 2) = i
        /\ 1 - (i % 2) = (i + 1) % 2
    BY <1>2, <1>6, CounterStep
  <2>3. c = <<kind, i>>
    BY <2>1, <2>2
  <2>4. \A k \in 1 .. i + 1 : tmp_buf'[k] = <<kind, k - 1>>
    BY <1>2, <1>4, <2>1, <2>3 DEF Commands, OwnByte
  <2>5. Commands(i)'
    BY <1>2, <1>4, <2>1, <2>2, <2>4 DEF Commands, OwnByte
  <2>6. kind' = "flash" => high' = i' % 2
    BY <1>2, <2>1, <2>2
  <2>7. QED
    BY <1>2, <2>2, <2>5, <2>6
<1>7. QED
  BY <1>1, <1>2, <1>5, <1>6 DEF ReadInv, vars

LEMMA SendKeeps ==
  ASSUME ReadInv, Send
  PROVE  ReadInv'
<1>1. /\ phase = "build" /\ ~(i < mem) /\ Call(4 * mem) /\ phase' = "stream"
      /\ UNCHANGED <<kind, mem, i, high, tmp_buf, data_buffer, before>>
  BY DEF Send
<1>2. mem \in Requests \cup {EepromBytes} /\ mem \in Nat
  BY <1>1 DEF ReadInv, ReaderTypeOK
<1>3. 4 * mem \in Lengths
  BY <1>2, ReaderAssumption
<1>4. Clean' /\ TypeOK'
  <2>1. Clean'
    BY <1>1, <1>3, CleanStep DEF ReadInv, Next
  <2>2. QED
    BY <2>1 DEF Clean, Level, IInv
<1>5. ReaderTypeOK'
  BY <1>1, <1>4 DEF ReadInv, ReaderTypeOK
<1>6. mem < CounterMod /\ i = mem
  <2>1. i \in Nat /\ i <= CounterMod - 1 /\ CounterMod \in Nat
    BY ReaderAssumption DEF ReadInv, ReaderTypeOK
  <2>2. mem < CounterMod
    BY <1>1, <1>2, <2>1
  <2>3. i <= mem
    BY <1>1, <2>2 DEF ReadInv
  <2>4. QED
    BY <1>1, <1>2, <2>1, <2>2, <2>3
<1>7. Commands(mem)'
  <2>1. Commands(mem)
    BY <1>1, <1>6 DEF ReadInv
  <2>2. QED
    BY <1>1, <2>1 DEF Commands, OwnByte
<1>8. /\ total' = 4 * mem' /\ call' # 0 /\ pc' \in {"ready", "write"} /\ in' = << >>
      /\ fifo' = fifo /\ devHandle' = devHandle /\ seen' = seen
      /\ (devHandle => ret' = ret)
  BY <1>1, SpiStreamAssumption DEF Call, ReadInv, ReaderTypeOK, TypeOK
<1>9. Undisturbed' => Run'
  <2> SUFFICES ASSUME Undisturbed' PROVE Run'
    OBVIOUS
  <2>1. seen = {} /\ pc = "ready"
    BY <1>1 DEF Undisturbed, ReadInv
  <2>2. fifo = << >>
    BY <2>1 DEF ReadInv, Clean, Tidy
  <2>3. in' = Own(Len(in))'
    BY <1>8 DEF Own
  <2>4. QED
    BY <1>8, <2>2, <2>3 DEF Run
<1>10. QED
  BY <1>1, <1>2, <1>4, <1>5, <1>7, <1>8, <1>9 DEF ReadInv

LEMMA StreamKeeps ==
  ASSUME ReadInv, Stream
  PROVE  ReadInv'
<1>1. phase = "stream" /\ Transfer /\ UNCHANGED reader
  BY DEF Stream
<1>2. Clean' /\ TypeOK'
  <2>1. Clean'
    BY <1>1, CleanStep DEF ReadInv, Next
  <2>2. QED
    BY <2>1 DEF Clean, Level, IInv
<1>3. ReaderTypeOK'
  BY <1>1, <1>2 DEF ReadInv, ReaderTypeOK, reader
<1>4. Commands(mem)' /\ total' = 4 * mem' /\ call' # 0
  BY <1>1 DEF ReadInv, Commands, OwnByte, reader, Transfer, WritePacket, WriteError,
              ReadPacket, ShortRead, ReadError, Store
<1>5. before' \subseteq seen'
  BY <1>1 DEF ReadInv, reader, Transfer, WritePacket, WriteError, ReadPacket, ShortRead,
              ReadError, Store
<1>6. seen' = {} /\ devHandle' => ret' = 0
  BY <1>1 DEF ReadInv, Transfer, WritePacket, WriteError, ReadPacket, ShortRead,
              ReadError, Store
<1>7. Undisturbed' => Run'
  <2> SUFFICES ASSUME Undisturbed' PROVE Run'
    OBVIOUS
  <2>1. before = {} /\ "short_read" \notin seen /\ Level
    BY <1>1 DEF Undisturbed, reader, Transfer, WritePacket, WriteError, ReadPacket,
                ShortRead, ReadError, Store, ReadInv, Clean
  <2>2. Run
    BY <1>1, <2>1 DEF ReadInv, Undisturbed
  <2>3. CASE WritePacket
    <3>1. pc = "write" /\ Tidy
      BY <2>2, <2>3 DEF WritePacket, Run, Tidy
    <3>2. QED
      BY <2>1, <2>3, <3>1, WriteTidy DEF Run
  <2>4. CASE ReadPacket
    <3>1. pc = "read" /\ Tidy
      BY <2>2, <2>4 DEF ReadPacket, Run, Tidy
    <3>2. QED
      BY <2>1, <2>4, <3>1, ReadTidy DEF Run
  <2>5. CASE WriteError \/ ReadError
    <3>1. in' = in /\ call' = call /\ pc' = "ready"
      BY <2>5 DEF WriteError, ReadError
    <3>2. in' = Own(Len(in))'
      BY <2>2, <3>1 DEF Run, Own
    <3>3. QED
      BY <3>1, <3>2 DEF Run
  <2>6. CASE ShortRead
    BY <2>6 DEF ShortRead, Undisturbed
  <2>7. QED
    BY <1>1, <2>3, <2>4, <2>5, <2>6 DEF Transfer
<1>8. QED
  BY <1>1, <1>2, <1>3, <1>4, <1>5, <1>6, <1>7 DEF ReadInv, reader

LEMMA StoreDataKeeps ==
  ASSUME ReadInv, StoreData
  PROVE  ReadInv'
<1>1. /\ phase = "stream" /\ pc = "ready" /\ phase' = "done"
      /\ data_buffer' = [j \in 1 .. mem |-> Fetched(j)]
      /\ UNCHANGED <<vars, kind, mem, i, high, tmp_buf, before>>
  BY DEF StoreData
<1>2. Clean' /\ TypeOK'
  BY <1>1, TransferKept DEF ReadInv
<1>3. Commands(mem) /\ ReaderTypeOK
  BY <1>1 DEF ReadInv
<1>4. data_buffer' \in Seq(Places \cup {Garbage, Stray})
  <2>1. \A j \in 1 .. mem : Fetched(j) \in Places \cup {Garbage, Stray}
    BY <1>3, FetchedType DEF Commands
  <2>2. mem \in Nat
    BY <1>3 DEF ReaderTypeOK
  <2>3. QED
    BY <1>1, <2>1, <2>2
<1>5. ReaderTypeOK'
  BY <1>1, <1>2, <1>3, <1>4 DEF ReaderTypeOK
<1>6. data_buffer' = [j \in 1 .. mem' |-> Fetched(j)']
  BY <1>1 DEF Fetched, ByteOf, vars
<1>7. Commands(mem)'
  BY <1>1, <1>3 DEF Commands, OwnByte
<1>8. Undisturbed' => Run'
  <2>1. Undisturbed => Run
    BY <1>1 DEF ReadInv
  <2>2. QED
    BY <1>1, <2>1 DEF Undisturbed, Run, Own, Payload, PacketLen, vars
<1>9. QED
  BY <1>1, <1>2, <1>5, <1>6, <1>7, <1>8 DEF ReadInv, vars

LEMMA ReadStep == ReadInv /\ [ReaderNext]_readerVars => ReadInv'
<1> SUFFICES ASSUME ReadInv, [ReaderNext]_readerVars PROVE ReadInv'
  OBVIOUS
<1>1. CASE main_reads
  <2>1. "flash" \in Memories /\ "eeprom" \in Memories
    BY DEF Memories
  <2>2. QED
    BY <1>1, <2>1, RequestKeeps DEF main_reads
<1>2. CASE Reading
  BY <1>2, AddCommandKeeps, SendKeeps, StreamKeeps, StoreDataKeeps DEF Reading
<1>3. CASE UNCHANGED readerVars
  <2>1. UNCHANGED vars /\ UNCHANGED reader
    BY <1>3 DEF readerVars
  <2>2. Clean' /\ TypeOK'
    BY <2>1, TransferKept DEF ReadInv
  <2>3. ReaderTypeOK'
    BY <2>1, <2>2 DEF ReadInv, ReaderTypeOK, reader
  <2>4. \A n : Commands(n)' = Commands(n)
    BY <2>1 DEF Commands, OwnByte, reader
  <2>5. Run' = Run /\ Undisturbed' = Undisturbed
    BY <2>1 DEF Run, Undisturbed, Own, Payload, PacketLen, reader, vars
  <2>6. [j \in 1 .. mem |-> Fetched(j)]' = [j \in 1 .. mem |-> Fetched(j)]
    BY <2>1 DEF Fetched, ByteOf, reader, vars
  <2>7. QED
    BY <2>1, <2>2, <2>3, <2>4, <2>5, <2>6 DEF ReadInv, reader, vars
<1>4. QED
  BY <1>1, <1>2, <1>3 DEF ReaderNext

LEMMA ReadInvariant == ReaderSpec => []ReadInv
BY ReadInit, ReadStep, PTL DEF ReaderSpec

\* The variables of the reading loops keep their types, whatever fails and
\* however large a request is.
THEOREM ReaderTypeCorrect == ReaderSpec => []ReaderTypeOK
<1>1. ReadInv => ReaderTypeOK
  BY DEF ReadInv
<1>2. QED
  BY <1>1, ReadInvariant, PTL

\* What a read that began undisturbed stores: a prefix of the memory.
LEMMA StoredPrefix ==
  ASSUME ReadInv, phase = "done", Undisturbed
  PROVE  /\ Len(in) \in Nat /\ Len(in) \div 4 \in 0 .. mem
         /\ data_buffer =
              [j \in 1 .. mem |-> IF j <= Len(in) \div 4 THEN OwnByte(j) ELSE Garbage]
<1>1. Commands(mem) /\ total = 4 * mem /\ mem \in Nat /\ Run
  BY DEF ReadInv, ReaderTypeOK
<1>2. Len(in) \in Nat /\ len \in Nat /\ Len(in) + len = total
  BY DEF ReadInv, Clean, Level, IInv, TypeOK, InBounded
<1>3. Len(in) <= 4 * mem
  BY <1>1, <1>2
<1>4. \A j \in 1 .. mem :
        Fetched(j) = IF j <= Len(in) \div 4 THEN OwnByte(j) ELSE Garbage
  BY <1>1, <1>2, FetchedOwn DEF Run
<1>5. data_buffer = [j \in 1 .. mem |-> Fetched(j)]
  BY DEF ReadInv
<1>6. Len(in) \div 4 \in 0 .. mem
  BY <1>1, <1>2, <1>3
<1>7. QED
  BY <1>2, <1>4, <1>5, <1>6

\* FailsWithPrefix: a read that begins on a bus without leftovers and meets no
\* short read stores the first bytes of the memory at their places and leaves
\* malloc's garbage behind them, never a byte of another address.
THEOREM FailureIsPrefix == ReaderSpec => []FailsWithPrefix
<1>1. ReadInv => FailsWithPrefix
  <2> SUFFICES ASSUME ReadInv, phase = "done", before = {}, "short_read" \notin seen
               PROVE  \E n \in 0 .. mem :
                        data_buffer = [j \in 1 .. mem |-> IF j <= n THEN OwnByte(j) ELSE Garbage]
    BY DEF FailsWithPrefix
  <2>1. Len(in) \div 4 \in 0 .. mem
    BY StoredPrefix DEF Undisturbed
  <2>2. data_buffer =
          [j \in 1 .. mem |-> IF j <= Len(in) \div 4 THEN OwnByte(j) ELSE Garbage]
    BY StoredPrefix DEF Undisturbed
  <2>3. QED
    BY <2>1, <2>2
<1>2. QED
  BY <1>1, ReadInvariant, PTL

\* ReadsMemory: as long as nothing went wrong on an open adapter, what a read
\* hands out is the memory, byte by byte from address 0.
THEOREM ReadIsMemory == ReaderSpec => []ReadsMemory
<1>1. ReadInv => ReadsMemory
  <2> SUFFICES ASSUME ReadInv, phase = "done", devHandle, seen = {}
               PROVE  data_buffer = [j \in 1 .. mem |-> OwnByte(j)]
    BY DEF ReadsMemory
  <2>1. Undisturbed /\ Returned /\ total = 4 * mem /\ mem \in Nat
    BY SpiStreamAssumption DEF ReadInv, ReaderTypeOK, TypeOK, Undisturbed, Returned
  <2>2. Len(in) = total
    BY <2>1 DEF ReadInv, Clean, Level, Balanced
  <2>3. Len(in) \div 4 = mem
    BY <2>1, <2>2
  <2>4. data_buffer =
          [j \in 1 .. mem |-> IF j <= Len(in) \div 4 THEN OwnByte(j) ELSE Garbage]
    BY <2>1, StoredPrefix
  <2>5. QED
    BY <2>3, <2>4
<1>2. QED
  BY <1>1, ReadInvariant, PTL
=============================================================================
