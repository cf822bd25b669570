------------------------------ MODULE SpiStream ------------------------------
(***************************************************************************)
(* The synchronous SPI transfer of the CH341A bridge: ch341SpiStream cuts  *)
(* a buffer of `len' bytes into USB packets, writes each packet, reads the *)
(* answer of the chip and loops on what is left to read.  Every command of *)
(* the programmer goes through this function, and none of its callers      *)
(* looks at the value it returns: after a failed call the program simply   *)
(* makes the next one, so a behaviour of this module is a sequence of      *)
(* calls on one open device.                                               *)
(*                                                                         *)
(* SPI is full duplex: for every byte clocked out the bridge queues one    *)
(* answer byte, which the next bulk read collects.  An answer is tagged    *)
(* with the call and the offset in `out' that produced it; what the bytes  *)
(* are (and the bit reversal of swapByte) is abstracted.                   *)
(***************************************************************************)
EXTENDS Integers, Sequences

CONSTANTS
  PacketLength,  \* CH341_PACKET_LENGTH: size of a packet, command byte included
  Lengths,       \* the values of `len' that callers pass
  MaxCalls,      \* bound: number of calls followed
  Overrun,       \* bound: bytes past the end of `out' that are followed
  Faults         \* what usbTransfer may do besides moving the whole packet

ASSUME SpiStreamAssumption ==
  /\ PacketLength \in Nat \ {0, 1}
  /\ Lengths \subseteq Nat
  /\ MaxCalls \in Nat
  /\ Overrun \in Nat
  /\ Faults \subseteq {"write_error", "read_error", "short_read"}

VARIABLES
  devHandle,  \* is the device open (devHandle # NULL)
  pc,         \* "ready": no call is running; "write", "read": inside the loop
  call,       \* number of the running or of the last call
  total,      \* the argument `len' of that call
  len,        \* the local `len': bytes still to read
  out,        \* the pointer `out', as an offset
  in,         \* what was stored through inPtr, in order
  fifo,       \* answers queued in the bridge
  ret,        \* what the last call returned
  seen        \* history: the faults that have occurred so far

vars == <<devHandle, pc, call, total, len, out, in, fifo, ret, seen>>

Answers == (1 .. MaxCalls) \X Nat

TypeOK ==
  /\ devHandle \in BOOLEAN
  /\ pc \in {"ready", "write", "read"}
  /\ call \in 0 .. MaxCalls
  /\ total \in Nat
  /\ len \in Nat
  /\ out \in Nat
  /\ in \in Seq(Answers)
  /\ fifo \in Seq(Answers)
  /\ ret \in {0, -1}
  /\ seen \subseteq Faults

-----------------------------------------------------------------------------
(* Local variables computed at the head of the loop from `len'. *)

\* packetLen: STREAM COMMAND + data length, cut to the size of a packet.
PacketLen == IF len + 1 > PacketLength THEN PacketLength ELSE len + 1

\* A faulty Done: the last packet is never recognised.
DoneNever == PacketLen > PacketLength

\* done: the packet takes all that is left.
Done == len + 1 <= PacketLength

Payload == PacketLen - 1

\* The answers to the next n bytes of `out'.
Clocked(n) == [k \in 1 .. n |-> <<call, out + k - 1>>]

-----------------------------------------------------------------------------

Init ==
  /\ devHandle \in BOOLEAN
  /\ pc = "ready"
  /\ call = 0
  /\ total = 0
  /\ len = 0
  /\ out = 0
  /\ in = << >>
  /\ fifo = << >>
  /\ ret = 0
  /\ seen = {}

\* A caller starts the transfer of n bytes.
Call(n) ==
  /\ pc = "ready"
  /\ call < MaxCalls
  /\ call' = call + 1
  /\ total' = n
  /\ len' = n
  /\ out' = 0
  /\ in' = << >>
  /\ IF devHandle
     THEN pc' = "write" /\ UNCHANGED ret
     ELSE pc' = "ready" /\ ret' = -1
  /\ UNCHANGED <<devHandle, fifo, seen>>

\* A faulty WritePacket: `out' is not advanced past the packets before.
WritePacketAgain ==
  /\ pc = "write"
  /\ fifo' = fifo \o Clocked(Payload)
  /\ out' = Payload
  /\ pc' = "read"
  /\ UNCHANGED <<devHandle, call, total, len, in, ret, seen>>

\* A faulty WritePacket: `out' is advanced by the command byte as well.
WritePacketCommand ==
  /\ pc = "write"
  /\ fifo' = fifo \o Clocked(Payload)
  /\ out' = out + PacketLen
  /\ pc' = "read"
  /\ UNCHANGED <<devHandle, call, total, len, in, ret, seen>>

\* The packet is written: the chip clocks its payload.
WritePacket ==
  /\ pc = "write"
  /\ fifo' = fifo \o Clocked(Payload)
  /\ out' = out + Payload
  /\ pc' = "read"
  /\ UNCHANGED <<devHandle, call, total, len, in, ret, seen>>

\* usbTransfer reports an error on the write; the chip may have clocked a
\* part of the packet before.
WriteError ==
  /\ pc = "write"
  /\ "write_error" \in Faults
  /\ \E n \in 0 .. Payload : fifo' = fifo \o Clocked(n)
  /\ seen' = seen \cup {"write_error"}
  /\ ret' = -1
  /\ pc' = "ready"
  /\ UNCHANGED <<devHandle, call, total, len, out, in>>

\* A faulty Store: `len' is reduced by what was asked for, not what came.
StorePacket(n, m) ==
  /\ in' = in \o SubSeq(fifo, 1, n)
  /\ fifo' = SubSeq(fifo, m + 1, Len(fifo))
  /\ len' = len - Payload
  /\ IF Done THEN pc' = "ready" /\ ret' = 0
             ELSE pc' = "write" /\ UNCHANGED ret
  /\ UNCHANGED <<devHandle, call, total, out>>

\* A faulty Store: `len' is reduced by the command byte as well.
StoreCommand(n, m) ==
  /\ in' = in \o SubSeq(fifo, 1, n)
  /\ fifo' = SubSeq(fifo, m + 1, Len(fifo))
  /\ len' = len - (n + 1)
  /\ IF Done THEN pc' = "ready" /\ ret' = 0
             ELSE pc' = "write" /\ UNCHANGED ret
  /\ UNCHANGED <<devHandle, call, total, out>>

\* The first n queued answers are stored in the caller's buffer, the first m
\* leave the queue, and the loop goes on unless this was the last packet.
Store(n, m) ==
  /\ in' = in \o SubSeq(fifo, 1, n)
  /\ fifo' = SubSeq(fifo, m + 1, Len(fifo))
  /\ len' = len - n
  /\ IF Done THEN pc' = "ready" /\ ret' = 0
             ELSE pc' = "write" /\ UNCHANGED ret
  /\ UNCHANGED <<devHandle, call, total, out>>

\* The read returns as many bytes as were written.
ReadPacket ==
  /\ pc = "read"
  /\ Store(Payload, Payload)
  /\ UNCHANGED seen

\* The read returns fewer bytes (usbTransfer's value is not negative, so this
\* is no error for the code); the rest of the answer stays queued or is lost.
ShortRead ==
  /\ pc = "read"
  /\ "short_read" \in Faults
  /\ out <= total + Overrun
  /\ \E n \in 0 .. Payload - 1 : \E m \in n .. Payload : Store(n, m)
  /\ seen' = seen \cup {"short_read"}

\* A faulty ReadError: the loop goes on as if nothing was to be read.
ReadErrorIgnored ==
  /\ pc = "read"
  /\ "read_error" \in Faults
  /\ \E m \in 0 .. Payload : fifo' = SubSeq(fifo, m + 1, Len(fifo))
  /\ seen' = seen \cup {"read_error"}
  /\ IF Done THEN pc' = "ready" /\ ret' = 0
             ELSE pc' = "write" /\ UNCHANGED ret
  /\ UNCHANGED <<devHandle, call, total, len, out, in>>

\* The read reports an error, for instance after DEFAULT_TIMEOUT: what it
\* moved is dropped, a later answer stays queued for the next call.
ReadError ==
  /\ pc = "read"
  /\ "read_error" \in Faults
  /\ \E m \in 0 .. Payload : fifo' = SubSeq(fifo, m + 1, Len(fifo))
  /\ seen' = seen \cup {"read_error"}
  /\ ret' = -1
  /\ pc' = "ready"
  /\ UNCHANGED <<devHandle, call, total, len, out, in>>

Transfer == WritePacket \/ WriteError \/ ReadPacket \/ ShortRead \/ ReadError

Next == (\E n \in Lengths : Call(n)) \/ Transfer

Spec == Init /\ [][Next]_vars

\* Every libusb_bulk_transfer returns within DEFAULT_TIMEOUT, so a running
\* call keeps taking steps; nothing makes a caller start one.
FairSpec == Spec /\ WF_vars(Transfer)

-----------------------------------------------------------------------------
(* Properties *)

\* The answers never run past the end of the caller's buffer, whatever the
\* reads return: `len' counts exactly the room that is left behind inPtr.
InBounded == Len(in) + len = total

\* The packets are cut from the caller's `len' bytes and from no others
\* ("transfer len bytes of data to the spi device").
OutBounded == out <= total

Returned == pc = "ready" /\ call > 0 /\ ret = 0

\* As long as no read was short, a call that reports success has clocked each of
\* its bytes once and filled the caller's buffer, as many packets as it took,
\* whatever errors earlier calls met.
WholeTransfer ==
  Returned /\ "short_read" \notin seen => out = total /\ Len(in) = total

\* As long as nothing went wrong, a call that reports success hands each byte
\* of `out' its own answer, and leaves none behind for the next call.
OwnAnswers ==
  Returned /\ seen = {} => /\ in = [k \in 1 .. total |-> <<call, k - 1>>]
                          /\ fifo = << >>

\* A call that has entered the loop returns, if no read is short.
CallReturns ==
  pc \in {"write", "read"} ~> pc = "ready" \/ "short_read" \in seen
=============================================================================
