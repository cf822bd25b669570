------------------------------ MODULE AsyncBulk ------------------------------
(***************************************************************************)
(* ch341SpiRead: a SPI flash is read in chunks.  Each chunk is one bulk    *)
(* OUT transfer of many packets (chip select, then the read command and as *)
(* many bytes as are wanted back) and one bulk IN transfer that is         *)
(* submitted again for every packet that comes in.  Their callbacks run    *)
(* inside libusb_handle_events_timeout; the loop learns from the counter   *)
(* bulkin_count what they did.                                             *)
(*                                                                         *)
(* A byte of the flash is known by its address.  The position of a byte in *)
(* a chunk counts the bytes after the stream commands: 0 to 3 are the read *)
(* command and the address, whose echo the callback drops.                 *)
(***************************************************************************)
EXTENDS Integers, Sequences, FiniteSets

CONSTANTS
  PacketLength,  \* CH341_PACKET_LENGTH
  MaxPackets,    \* CH341_MAX_PACKETS
  Lengths,       \* the lengths that are read
  Start,         \* the address they are read from
  Faults         \* what may go wrong

ASSUME AsyncAssumption ==
  /\ PacketLength \in Nat /\ PacketLength > 5
  /\ MaxPackets \in Nat /\ MaxPackets > 1
  /\ Lengths \subseteq Nat
  /\ Start \in Nat
  /\ Faults \subseteq {"in_submit", "out_submit", "in_error", "out_error", "cs_error", "ctrl_c"}

VARIABLES
  pc,            \* "chunk": head of the outer loop, "wait": the inner loop,
                 \* "deselect": behind it, "returned"
  total,         \* history: the argument `len'
  add, len,      \* address and number of the bytes still to ask for
  buf,           \* the user's pointer, as an offset
  pkg_count,     \* packets that must come in for this chunk
  bulkin_count,  \* packets that came in, -1 after an error
  user_data,     \* where the callback stores, as an offset
  stored,        \* what is in the user's buffer: a function from offsets
  xferBulkIn,    \* "idle", "pending", "done" or "error": not yet handled
  arrived,       \* the packet of a transfer that is done
  xferBulkOut,   \* is it pending
  toSend,        \* the packets of it that the bridge has not yet seen
  answers,       \* the packets that wait in the bridge
  force_stop,
  ret,
  seen           \* history: the faults that have occurred

loop == <<pc, total, add, len, buf, pkg_count, ret>>
shared == <<bulkin_count, user_data, stored>>
usb == <<xferBulkIn, arrived, xferBulkOut, toSend, answers>>
vars == <<loop, shared, usb, force_stop, seen>>

\* A packet: the positions from `first' to `last' of its chunk, which asks for
\* the bytes from address `base' on.
Packets == [first : Nat, last : Int, base : Nat]
NoPacket == [first |-> 0, last |-> -1, base |-> 0]

TypeOK ==
  /\ pc \in {"chunk", "wait", "deselect", "returned"}
  /\ {add, len, buf, pkg_count, user_data} \subseteq Nat
  /\ bulkin_count \in -1 .. MaxPackets
  /\ DOMAIN stored \subseteq Nat
  /\ xferBulkIn \in {"idle", "pending", "done", "error"}
  /\ arrived \in Packets
  /\ xferBulkOut \in BOOLEAN
  /\ toSend \in Seq(Packets)
  /\ answers \in Seq(Packets)
  /\ force_stop \in BOOLEAN
  /\ ret \in {0, 3, -1}
  /\ seen \subseteq Faults

-----------------------------------------------------------------------------

Payload == PacketLength - 1

\* Everything but the first packet, the stream commands and the read command.
max_payload == PacketLength * MaxPackets - PacketLength - MaxPackets + 1 - 4

\* A faulty PkgCount: the read command is not counted.
PkgCountShort(n) ==
  IF n > max_payload THEN MaxPackets - 1
  ELSE n \div Payload + (IF n % Payload # 0 THEN 1 ELSE 0)

PkgCount(n) ==
  IF n > max_payload THEN MaxPackets - 1
  ELSE (n + 4) \div Payload + (IF (n + 4) % Payload # 0 THEN 1 ELSE 0)

\* pkg_len without the packet that selects the chip.
StreamLength(n) ==
  IF n > max_payload THEN PacketLength * (MaxPackets - 1)
  ELSE (PkgCount(n) - 1) * PacketLength + ((n + 4) % Payload) + 1

\* The bridge cuts a transfer into packets; each starts with a stream command.
PacketsOf(bytes, base) ==
  [k \in 1 .. (bytes + PacketLength - 1) \div PacketLength |->
     [first |-> (k - 1) * Payload,
      last |-> (k - 1) * Payload
                 + (IF k * PacketLength <= bytes THEN PacketLength
                    ELSE bytes % PacketLength) - 2,
      base |-> base]]

-----------------------------------------------------------------------------

\* The SIGINT flag may be left over from before the call.
Init ==
  /\ pc = "chunk"
  /\ total \in Lengths
  /\ add = Start
  /\ len = total
  /\ buf = 0
  /\ pkg_count = 0
  /\ bulkin_count = 0
  /\ user_data = 0
  /\ stored = << >>
  /\ xferBulkIn = "idle"
  /\ arrived = NoPacket
  /\ xferBulkOut = FALSE
  /\ toSend = << >>
  /\ answers = << >>
  /\ ret = 0
  /\ \/ force_stop = FALSE /\ seen = {}
     \/ "ctrl_c" \in Faults /\ force_stop = TRUE /\ seen = {"ctrl_c"}

\* Both transfers are submitted, and nobody looks at what libusb returns.  One that
\* is refused does not run; the OUT transfer is when it is still pending.
SubmitBoth ==
  \E refused \in SUBSET (Faults \cap {"in_submit", "out_submit"}) :
    /\ xferBulkIn' = IF "in_submit" \in refused THEN "idle" ELSE "pending"
    /\ xferBulkOut' = (xferBulkOut \/ "out_submit" \notin refused)
    /\ toSend' = IF xferBulkOut \/ "out_submit" \in refused THEN toSend
                 ELSE PacketsOf(StreamLength(len), add)
    /\ seen' = seen \cup refused

\* A faulty Chunk: bulkin_count is not set to 0.
ChunkKeepsCount ==
  /\ pc = "chunk"
  /\ len > 0
  /\ pkg_count' = PkgCount(len)
  /\ SubmitBoth
  /\ IF len > max_payload
     THEN len' = len - max_payload /\ add' = add + max_payload
     ELSE len' = 0 /\ UNCHANGED add
  /\ user_data' = buf
  /\ buf' = buf + max_payload
  /\ pc' = IF bulkin_count < pkg_count' THEN "wait" ELSE "deselect"
  /\ UNCHANGED <<total, bulkin_count, stored, arrived, answers, force_stop, ret>>

\* A faulty Chunk: the last chunk is taken for a whole one.
ChunkWhole ==
  /\ pc = "chunk"
  /\ len > 0
  /\ pkg_count' = PkgCount(len)
  /\ SubmitBoth
  /\ len' = len - max_payload
  /\ add' = add + max_payload
  /\ bulkin_count' = 0
  /\ user_data' = buf
  /\ buf' = buf + max_payload
  /\ pc' = "wait"
  /\ UNCHANGED <<total, stored, arrived, answers, force_stop, ret>>

\* The next chunk: both transfers are filled and submitted.
Chunk ==
  /\ pc = "chunk"
  /\ len > 0
  /\ pkg_count' = PkgCount(len)
  /\ SubmitBoth
  /\ IF len > max_payload
     THEN len' = len - max_payload /\ add' = add + max_payload
     ELSE len' = 0 /\ UNCHANGED add
  /\ bulkin_count' = 0
  /\ user_data' = buf
  /\ buf' = buf + max_payload
  /\ pc' = "wait"
  /\ UNCHANGED <<total, stored, arrived, answers, force_stop, ret>>

\* A faulty Skip: the echo of the read command is kept.
SkipNone(p) == p.first

\* The first position that the callback keeps of a packet.
Skip(p) == IF bulkin_count = 0 THEN p.first + 4 ELSE p.first

\* The IN transfer is submitted again; here too nobody looks at what libusb returns.
Resubmit ==
  \/ xferBulkIn' = "pending" /\ UNCHANGED seen
  \/ "in_submit" \in Faults /\ xferBulkIn' = "idle" /\ seen' = seen \cup {"in_submit"}

\* cbBulkIn for a packet, and what the loop makes of it: the IN transfer is
\* submitted again unless this was the last packet.
cbBulkIn ==
  /\ pc = "wait"
  /\ xferBulkIn = "done"
  /\ LET shift == Skip(arrived) - user_data
         places == user_data .. arrived.last - shift
     IN /\ stored' = [o \in DOMAIN stored \cup places |->
                        IF o \in places THEN arrived.base + o + shift - 4 ELSE stored[o]]
        /\ user_data' = user_data + Cardinality(places)
  /\ bulkin_count' = bulkin_count + 1
  /\ IF bulkin_count' # pkg_count
     THEN Resubmit /\ UNCHANGED pc
     ELSE xferBulkIn' = "idle" /\ pc' = "deselect" /\ UNCHANGED seen
  /\ UNCHANGED <<total, add, len, buf, pkg_count, ret, arrived, xferBulkOut, toSend,
                 answers, force_stop>>

\* A faulty cbBulkInError: the loop is not left.
cbBulkInErrorStays ==
  /\ pc = "wait"
  /\ xferBulkIn = "error"
  /\ bulkin_count' = -1
  /\ xferBulkIn' = "idle"
  /\ len' = 0
  /\ ret' = -1
  /\ UNCHANGED <<pc, total, add, buf, pkg_count, user_data, stored, arrived, xferBulkOut,
                 toSend, answers, force_stop, seen>>

\* cbBulkIn after an error: the loop is left and nothing more is asked for.
cbBulkInError ==
  /\ pc = "wait"
  /\ xferBulkIn = "error"
  /\ bulkin_count' = -1
  /\ xferBulkIn' = "idle"
  /\ len' = 0
  /\ ret' = -1
  /\ pc' = "deselect"
  /\ UNCHANGED <<total, add, buf, pkg_count, user_data, stored, arrived, xferBulkOut,
                 toSend, answers, force_stop, seen>>

\* The chip is deselected.  The packet queues behind the OUT transfer, so when it
\* is through that transfer is over; if it fails at once it need not be.  `ret'
\* is unsigned: its test never ends the loop.  Then the SIGINT flag is looked at.
Deselect ==
  /\ pc = "deselect"
  /\ \/ ~xferBulkOut /\ ret' = 3 /\ UNCHANGED seen
     \/ "cs_error" \in Faults /\ ret' = -1 /\ seen' = seen \cup {"cs_error"}
  /\ pc' = IF force_stop THEN "returned" ELSE "chunk"
  /\ force_stop' = FALSE
  /\ UNCHANGED <<total, add, len, buf, pkg_count, shared, usb>>

\* Both transfers are freed.
Return ==
  /\ pc = "chunk"
  /\ len = 0
  /\ pc' = "returned"
  /\ UNCHANGED <<total, add, len, buf, pkg_count, ret, shared, usb, force_stop, seen>>

-----------------------------------------------------------------------------
(* The bridge, libusb and the user. *)

\* The bridge clocks a packet and queues what came back, if it had a payload.
ClockPacket ==
  /\ xferBulkOut
  /\ toSend # << >>
  /\ answers' = IF Head(toSend).last >= Head(toSend).first
                THEN Append(answers, Head(toSend)) ELSE answers
  /\ toSend' = Tail(toSend)
  /\ UNCHANGED <<loop, shared, xferBulkIn, arrived, xferBulkOut, force_stop, seen>>

\* cbBulkOut has nothing to do.
cbBulkOut ==
  /\ xferBulkOut
  /\ toSend = << >>
  /\ xferBulkOut' = FALSE
  /\ UNCHANGED <<loop, shared, xferBulkIn, arrived, toSend, answers, force_stop, seen>>

InCompletes ==
  /\ xferBulkIn = "pending"
  /\ answers # << >>
  /\ xferBulkIn' = "done"
  /\ arrived' = Head(answers)
  /\ answers' = Tail(answers)
  /\ UNCHANGED <<loop, shared, xferBulkOut, toSend, force_stop, seen>>

\* Nothing comes in for DEFAULT_TIMEOUT because there is nothing to come.
InTimesOut ==
  /\ xferBulkIn = "pending"
  /\ answers = << >> /\ ~xferBulkOut
  /\ xferBulkIn' = "error"
  /\ UNCHANGED <<loop, shared, arrived, xferBulkOut, toSend, answers, force_stop, seen>>

InFails ==
  /\ "in_error" \in Faults
  /\ xferBulkIn = "pending"
  /\ xferBulkIn' = "error"
  /\ seen' = seen \cup {"in_error"}
  /\ UNCHANGED <<loop, shared, arrived, xferBulkOut, toSend, answers, force_stop>>

\* The rest of the OUT transfer is dropped.
OutFails ==
  /\ "out_error" \in Faults
  /\ xferBulkOut
  /\ xferBulkOut' = FALSE
  /\ toSend' = << >>
  /\ seen' = seen \cup {"out_error"}
  /\ UNCHANGED <<loop, shared, xferBulkIn, arrived, answers, force_stop>>

sig_int ==
  /\ "ctrl_c" \in Faults
  /\ pc # "returned"
  /\ ~force_stop
  /\ force_stop' = TRUE
  /\ seen' = seen \cup {"ctrl_c"}
  /\ UNCHANGED <<loop, shared, usb>>

ch341SpiRead == Chunk \/ cbBulkIn \/ cbBulkInError \/ Deselect \/ Return
Libusb == ClockPacket \/ cbBulkOut \/ InCompletes \/ InTimesOut

Next == ch341SpiRead \/ Libusb \/ InFails \/ OutFails \/ sig_int

Spec == Init /\ [][Next]_vars

\* The program runs on, the bridge works and libusb reports time-outs.
FairSpec == Spec /\ WF_vars(ch341SpiRead) /\ WF_vars(Libusb)

-----------------------------------------------------------------------------
(* Properties *)

\* Whatever fails, and over all chunks, the buffer is filled from its start
\* without a hole, each byte with the one of its address, and never past its end.
StoredInPlace ==
  /\ DOMAIN stored = 0 .. user_data - 1
  /\ \A o \in DOMAIN stored : o < total /\ stored[o] = Start + o

\* The bytes of the last chunk, whether they fill its last packet (the length that
\* is sent then gives that packet a command and no payload), and the bytes this costs.
LastChunk == IF total % max_payload = 0 THEN max_payload ELSE total % max_payload
LastPacketFull == (LastChunk + 4) % Payload = 0
Lost ==
  IF total = 0 \/ ~LastPacketFull THEN 0
  ELSE IF LastChunk < Payload THEN LastChunk ELSE Payload

\* A read that nothing disturbed has filled the buffer, all but the last packet's
\* bytes if its last chunk ends with a full packet.
ReadWhole == pc = "returned" /\ seen = {} => DOMAIN stored = 0 .. total - Lost - 1

\* Neither transfer is pending when it is filled again or freed, as long as every
\* packet that deselects the chip gets through.
IdleWhenReused ==
  pc \in {"chunk", "returned"} =>
    xferBulkIn = "idle" /\ (xferBulkOut => "cs_error" \in seen)

\* The function returns, whatever fails, but for one thing: once libusb has refused
\* the IN transfer nobody calls back, and the inner loop waits for ever.
Returns == <>[](pc = IF "in_submit" \in seen THEN "wait" ELSE "returned")
=============================================================================
