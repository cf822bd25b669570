--------------------------- MODULE SpiStreamProofs ---------------------------
(***************************************************************************)
(* What is proved about ch341SpiStream for every packet size, every length *)
(* and every number of calls.  With all the faults of usbTransfer allowed, *)
(* the receive buffer is never overrun; until the first short read the     *)
(* send buffer is not overrun either and a call that reports success has   *)
(* moved all its bytes; until the first fault every byte gets its answer.  *)
(***************************************************************************)
EXTENDS SpiStream, SequenceTheorems, TLAPS

\* The payload of a packet is never longer than what is left to transfer, and
\* the last packet takes it all.
LEMMA PayloadFits ==
  ASSUME len \in Nat
  PROVE  /\ PacketLen \in Nat
         /\ Payload \in 0 .. len
         /\ Done => Payload = len
BY SpiStreamAssumption DEF PacketLen, Payload, Done

\* The answers clocked by one write are answers of the running call.
LEMMA ClockedType ==
  ASSUME TypeOK, call # 0, NEW n \in Nat
  PROVE  Clocked(n) \in Seq(Answers) /\ Len(Clocked(n)) = n
<1>1. \A k \in 1 .. n : <<call, out + k - 1>> \in Answers
  BY SpiStreamAssumption DEF TypeOK, Answers
<1>2. QED
  BY <1>1 DEF Clocked

\* Taking n answers from the front of the queue, or dropping m of them.
LEMMA QueueType ==
  ASSUME fifo \in Seq(Answers), NEW n \in 0 .. Len(fifo)
  PROVE  /\ SubSeq(fifo, 1, n) \in Seq(Answers)
         /\ Len(SubSeq(fifo, 1, n)) = n
         /\ \A k \in 1 .. n : SubSeq(fifo, 1, n)[k] = fifo[k]
         /\ SubSeq(fifo, n + 1, Len(fifo)) \in Seq(Answers)
         /\ Len(SubSeq(fifo, n + 1, Len(fifo))) = Len(fifo) - n
<1>1. Len(fifo) \in Nat
  OBVIOUS
<1>2. \A k \in 1 .. Len(fifo) : fifo[k] \in Answers
  OBVIOUS
<1>3. \A k \in 1 .. n : fifo[k] \in Answers
  BY <1>1, <1>2
<1>4. \A k \in n + 1 .. Len(fifo) : fifo[k] \in Answers
  BY <1>1, <1>2
<1>5. /\ SubSeq(fifo, 1, n) \in Seq(Answers)
      /\ Len(SubSeq(fifo, 1, n)) = n
      /\ \A k \in 1 .. n : SubSeq(fifo, 1, n)[k] = fifo[k]
  BY <1>1, <1>3, SubSeqProperties
<1>6. /\ SubSeq(fifo, n + 1, Len(fifo)) \in Seq(Answers)
      /\ Len(SubSeq(fifo, n + 1, Len(fifo))) = Len(fifo) - n
  BY <1>1, <1>4, SubSeqProperties
<1>7. QED
  BY <1>5, <1>6

-----------------------------------------------------------------------------

\* The inductive invariant behind the bound on the receive buffer: a call in
\* the loop is numbered, and a read always finds the packet's answers queued.
IInv ==
  /\ TypeOK
  /\ InBounded
  /\ pc # "ready" => call # 0
  /\ pc = "read" => Payload <= Len(fifo)

\* Store keeps the invariant for the counts a read can return.
LEMMA StoreKeeps ==
  ASSUME IInv, pc = "read",
         NEW n \in 0 .. Payload, NEW m \in n .. Payload, Store(n, m),
         seen' \subseteq Faults
  PROVE  IInv'
<1> USE DEF IInv
<1>1. Payload \in 0 .. len /\ len \in Nat
  BY PayloadFits DEF TypeOK
<1>2. /\ n \in 0 .. Len(fifo) /\ m \in 0 .. Len(fifo)
      /\ n \in Nat /\ n <= len
  BY <1>1 DEF TypeOK
<1>3. /\ in' = in \o SubSeq(fifo, 1, n)
      /\ SubSeq(fifo, 1, n) \in Seq(Answers)
      /\ Len(SubSeq(fifo, 1, n)) = n
  BY <1>2, QueueType DEF Store, TypeOK
<1>4. in' \in Seq(Answers) /\ Len(in') = Len(in) + n
  BY <1>3, ConcatProperties DEF TypeOK
<1>5. fifo' \in Seq(Answers)
  BY <1>2, QueueType DEF Store, TypeOK
<1>6. pc' \in {"ready", "write"} /\ ret' \in {0, -1}
  BY DEF Store, TypeOK
<1>7. len' = len - n /\ len' \in Nat
  BY <1>1, <1>2 DEF Store
<1>8. TypeOK'
  BY <1>4, <1>5, <1>6, <1>7 DEF Store, TypeOK
<1>9. InBounded'
  <2>1. Len(in) \in Nat /\ Len(in) + len = total /\ total' = total
    BY DEF Store, InBounded, TypeOK
  <2>2. Len(in') + len' = total'
    BY <1>1, <1>2, <1>4, <1>7, <2>1
  <2>3. QED
    BY <2>2 DEF InBounded
<1>10. QED
  BY <1>6, <1>8, <1>9 DEF Store

\* The answer bytes go on at the end of the queue.
LEMMA ClockKeeps ==
  ASSUME IInv, pc = "write", NEW n \in 0 .. Payload,
         fifo' = fifo \o Clocked(n)
  PROVE  fifo' \in Seq(Answers) /\ Len(fifo') = Len(fifo) + n /\ n \in Nat
<1>1. n \in Nat
  BY PayloadFits DEF IInv, TypeOK
<1>2. Clocked(n) \in Seq(Answers) /\ Len(Clocked(n)) = n
  BY <1>1, ClockedType DEF IInv
<1>3. QED
  BY <1>1, <1>2, ConcatProperties DEF IInv, TypeOK

LEMMA IInvStep == IInv /\ [Next]_vars => IInv'
<1> SUFFICES ASSUME IInv, [Next]_vars PROVE IInv'
  OBVIOUS
<1> USE DEF IInv
<1>0. len \in Nat /\ Payload \in 0 .. len
  BY PayloadFits DEF TypeOK
<1>1. ASSUME NEW n \in Lengths, Call(n) PROVE IInv'
  <2>1. n \in Nat
    BY SpiStreamAssumption
  <2>2. TypeOK'
    BY <1>1, <2>1, SpiStreamAssumption DEF Call, TypeOK
  <2>3. InBounded'
    BY <1>1, <2>1 DEF Call, InBounded
  <2>4. QED
    BY <1>1, <2>2, <2>3 DEF Call, TypeOK
<1>2. CASE WritePacket
  <2>1. fifo' \in Seq(Answers) /\ Len(fifo') = Len(fifo) + Payload
    BY <1>0, <1>2, ClockKeeps DEF WritePacket
  <2>2. out' = out + Payload /\ out' \in Nat
    BY <1>0, <1>2 DEF WritePacket, TypeOK
  <2>3. TypeOK'
    BY <1>2, <2>1, <2>2 DEF WritePacket, TypeOK
  <2>4. Payload' = Payload
    BY <1>2 DEF WritePacket, Payload, PacketLen
  <2>5. QED
    BY <1>0, <1>2, <2>1, <2>3, <2>4 DEF WritePacket, InBounded, TypeOK
<1>3. CASE WriteError
  <2>1. fifo' \in Seq(Answers)
    BY <1>3, ClockKeeps DEF WriteError
  <2>2. QED
    BY <1>3, <2>1 DEF WriteError, TypeOK, InBounded
<1>4. CASE ReadPacket
  BY <1>0, <1>4, StoreKeeps DEF ReadPacket, TypeOK
<1>5. CASE ShortRead
  <2>1. PICK n \in 0 .. Payload - 1 : \E m \in n .. Payload : Store(n, m)
    BY <1>5 DEF ShortRead
  <2>2. n \in 0 .. Payload
    BY <1>0
  <2>3. QED
    BY <1>5, <2>1, <2>2, StoreKeeps DEF ShortRead, TypeOK
<1>6. CASE ReadError
  <2>1. PICK m \in 0 .. Payload : fifo' = SubSeq(fifo, m + 1, Len(fifo))
    BY <1>6 DEF ReadError
  <2>2. m \in 0 .. Len(fifo)
    BY <1>0, <1>6 DEF ReadError, TypeOK
  <2>3. fifo' \in Seq(Answers)
    BY <2>1, <2>2, QueueType DEF TypeOK
  <2>4. QED
    BY <1>6, <2>3 DEF ReadError, TypeOK, InBounded
<1>7. CASE UNCHANGED vars
  BY <1>7 DEF vars, TypeOK, InBounded, Payload, PacketLen
<1>8. QED
  BY <1>1, <1>2, <1>3, <1>4, <1>5, <1>6, <1>7 DEF Next, Transfer

LEMMA IInvInit == Init => IInv
<1> SUFFICES ASSUME Init PROVE IInv
  OBVIOUS
<1>1. TypeOK
  BY SpiStreamAssumption, EmptySeq DEF Init, TypeOK
<1>2. QED
  BY <1>1 DEF Init, IInv, InBounded

LEMMA IInvariant == Spec => []IInv
BY IInvInit, IInvStep, PTL DEF Spec

\* The variables of a transfer keep their types, under every fault.
THEOREM TypeCorrect == Spec => []TypeOK
<1>1. IInv => TypeOK
  BY DEF IInv
<1>2. QED
  BY <1>1, IInvariant, PTL

\* A read never stores past the end of the caller's buffer, whatever counts
\* and errors usbTransfer returns.
THEOREM ReceiveBufferBounded == Spec => []InBounded
<1>1. IInv => InBounded
  BY DEF IInv
<1>2. QED
  BY <1>1, IInvariant, PTL

-----------------------------------------------------------------------------

\* Without short reads the send pointer stays level with the answers.
Balanced ==
  /\ pc = "write" => out = Len(in)
  /\ pc = "read" => out = Len(in) + Payload
  /\ OutBounded
  /\ Returned => out = total /\ Len(in) = total

Level == IInv /\ ("short_read" \notin seen => Balanced)

LEMMA LevelStep == Level /\ [Next]_vars => Level'
<1> SUFFICES ASSUME Level, [Next]_vars PROVE Level'
  OBVIOUS
<1>1. IInv'
  BY IInvStep DEF Level
<1> SUFFICES ASSUME "short_read" \notin seen' PROVE Balanced'
  BY <1>1 DEF Level
<1>12. "short_read" \notin seen
  BY DEF Next, Call, Transfer, WritePacket, WriteError, ReadPacket, ShortRead,
         ReadError, vars
<1>13. IInv /\ Balanced
  BY <1>12 DEF Level
<1> USE <1>13 DEF Balanced, Returned
<1>2. /\ len \in Nat /\ total \in Nat /\ out \in Nat /\ call \in Nat
      /\ Len(in) \in Nat /\ Len(in) + len = total
  BY SpiStreamAssumption DEF IInv, TypeOK, InBounded
<1>3. Payload \in 0 .. len /\ (Done => Payload = len)
  BY <1>2, PayloadFits
<1>4. ASSUME NEW n \in Lengths, Call(n) PROVE Balanced'
  <2>1. n \in Nat /\ Len(in') = 0 /\ out' = 0 /\ total' = n
    BY <1>4, SpiStreamAssumption DEF Call
  <2>2. pc' = "write" \/ (pc' = "ready" /\ ret' = -1)
    BY <1>4 DEF Call
  <2>3. QED
    BY <1>1, <2>1, <2>2 DEF OutBounded
<1>5. CASE WritePacket
  <2>1. Payload' = Payload
    BY <1>5 DEF WritePacket, Payload, PacketLen
  <2>2. out' = Len(in') + Payload' /\ out' <= total' /\ pc' = "read"
    BY <1>2, <1>3, <1>5, <2>1 DEF WritePacket
  <2>3. QED
    BY <1>1, <2>2 DEF OutBounded
<1>6. CASE WriteError
  BY <1>1, <1>6 DEF WriteError, OutBounded
<1>7. CASE ReadPacket
  <2>1. Payload \in 0 .. Len(fifo)
    BY <1>3, <1>7 DEF ReadPacket, IInv, TypeOK
  <2>2. SubSeq(fifo, 1, Payload) \in Seq(Answers)
        /\ Len(SubSeq(fifo, 1, Payload)) = Payload
    BY <2>1, QueueType DEF IInv, TypeOK
  <2>3. Len(in') = Len(in) + Payload
    BY <1>7, <2>2, ConcatProperties DEF ReadPacket, Store, IInv, TypeOK
  <2>4. /\ pc = "read" /\ out' = out /\ total' = total
        /\ \/ Done /\ pc' = "ready"
           \/ pc' = "write"
    BY <1>7 DEF ReadPacket, Store
  <2>5. out' = Len(in') /\ out' <= total'
    BY <2>3, <2>4 DEF OutBounded
  <2>6. Done => out' = total' /\ Len(in') = total'
    BY <1>2, <1>3, <2>3, <2>4, <2>5
  <2>7. QED
    BY <1>1, <2>4, <2>5, <2>6 DEF OutBounded
<1>8. CASE ShortRead
  BY <1>8 DEF ShortRead
<1>9. CASE ReadError
  BY <1>1, <1>9 DEF ReadError, OutBounded
<1>10. CASE UNCHANGED vars
  BY <1>1, <1>10 DEF vars, OutBounded, WholeTransfer, Payload, PacketLen
<1>11. QED
  BY <1>4, <1>5, <1>6, <1>7, <1>8, <1>9, <1>10 DEF Next, Transfer

LEMMA LevelInit == Init => Level
BY IInvInit DEF Init, Level, Balanced, OutBounded, Returned

\* Until the first short read, a call that reports success has moved every byte
\* of the caller's buffers, whatever failed before.
THEOREM SuccessIsWhole == Spec => []WholeTransfer
<1>1. Level => WholeTransfer
  BY DEF Level, Balanced, WholeTransfer
<1>2. QED
  BY <1>1, LevelInit, LevelStep, PTL DEF Spec

\* When reads are never short, the packets are cut from the caller's buffer
\* only: short reads are the one way past its end.
THEOREM NoShortReads ==
  ASSUME "short_read" \notin Faults
  PROVE  Spec => []OutBounded
<1>1. Level => OutBounded
  BY DEF Level, Balanced, IInv, TypeOK
<1>2. QED
  BY <1>1, LevelInit, LevelStep, PTL DEF Spec

-----------------------------------------------------------------------------

\* The answers to the first n bytes of the running call.
Own(n) == [k \in 1 .. n |-> <<call, k - 1>>]

\* Until the first fault nothing is queued between two packets, and what is stored
\* are the call's own answers.
Tidy ==
  /\ in = Own(Len(in))
  /\ pc # "read" => fifo = << >>
  /\ pc = "read" => fifo = [k \in 1 .. Payload |-> <<call, Len(in) + k - 1>>]

\* What a call leaves in the queue when it writes a packet into an empty one.
LEMMA WriteTidy ==
  ASSUME Level, Tidy, WritePacket, "short_read" \notin seen
  PROVE  /\ in' = Own(Len(in))' /\ pc' = "read"
         /\ fifo' = [k \in 1 .. Payload' |-> <<call', Len(in') + k - 1>>]
<1>1. IInv /\ TypeOK
  BY DEF Level, IInv
<1>2. len \in Nat /\ Payload \in 0 .. len
  BY <1>1, PayloadFits DEF TypeOK
<1>3. Payload' = Payload
  BY DEF WritePacket, Payload, PacketLen
<1>4. /\ out = Len(in) /\ pc' = "read" /\ fifo = << >> /\ in = Own(Len(in))
      /\ in' = in /\ call' = call /\ fifo' = fifo \o Clocked(Payload)
  BY DEF WritePacket, Level, Balanced, Tidy
<1>5. Clocked(Payload) \in Seq(Answers)
  BY <1>1, <1>2, ClockedType DEF IInv, WritePacket
<1>6. fifo' = Clocked(Payload)
  BY <1>4, <1>5, ConcatEmptySeq
<1>7. fifo' = [k \in 1 .. Payload' |-> <<call', Len(in') + k - 1>>]
  BY <1>3, <1>4, <1>6 DEF Clocked
<1>8. in' = Own(Len(in))'
  BY <1>4 DEF Own
<1>9. QED
  BY <1>4, <1>7, <1>8

\* A read of the whole packet stores its answers and leaves nothing queued.
LEMMA ReadTidy ==
  ASSUME Level, Tidy, ReadPacket
  PROVE  in' = Own(Len(in))' /\ fifo' = << >> /\ pc' # "read"
<1>1. IInv /\ TypeOK
  BY DEF Level, IInv
<1>2. len \in Nat /\ Payload \in 0 .. len
  BY <1>1, PayloadFits DEF TypeOK
<1>3. /\ pc = "read" /\ pc' # "read" /\ call' = call
      /\ in' = in \o SubSeq(fifo, 1, Payload)
      /\ fifo' = SubSeq(fifo, Payload + 1, Len(fifo))
  BY DEF ReadPacket, Store
<1>4. \A k \in 1 .. Len(in) : in[k] = <<call, k - 1>>
  <2>1. in = Own(Len(in))
    BY DEF Tidy
  <2>2. QED
    BY <2>1 DEF Own
<1>5. \A k \in 1 .. Payload : fifo[k] = <<call, Len(in) + k - 1>>
  BY <1>3 DEF Tidy
<1>6. fifo = [k \in 1 .. Payload |-> <<call, Len(in) + k - 1>>]
  BY <1>3 DEF Tidy
<1>7. Len(fifo) = Payload
  BY <1>2, <1>6
<1>8. fifo \in Seq(Answers)
  BY <1>1 DEF TypeOK
<1>9. fifo' = << >>
  BY <1>2, <1>3, <1>7, <1>8, SubSeqEmpty
<1>10. SubSeq(fifo, 1, Payload) = fifo
  BY <1>7, <1>8, SubSeqFull
<1>11. in \in Seq(Answers) /\ Len(in) \in Nat /\ Payload \in Nat
  BY <1>1, <1>2 DEF TypeOK
<1>12. /\ in' \in Seq(Answers)
       /\ Len(in') = Len(in) + Payload
       /\ \A k \in 1 .. Len(in) + Payload :
            in'[k] = IF k <= Len(in) THEN in[k] ELSE fifo[k - Len(in)]
  BY <1>3, <1>7, <1>8, <1>10, <1>11, ConcatProperties
<1>13. ASSUME NEW k \in 1 .. Len(in) + Payload PROVE in'[k] = <<call, k - 1>>
  <2>1. CASE k <= Len(in)
    BY <1>4, <1>11, <1>12, <2>1
  <2>2. CASE ~ (k <= Len(in))
    <3>1. k - Len(in) \in 1 .. Payload
      BY <1>11, <2>2
    <3>2. fifo[k - Len(in)] = <<call, Len(in) + (k - Len(in)) - 1>>
      BY <1>5, <3>1
    <3>3. Len(in) + (k - Len(in)) - 1 = k - 1
      BY <1>11, <3>1
    <3>4. QED
      BY <1>12, <2>2, <3>2, <3>3
  <2>3. QED
    BY <2>1, <2>2
<1>14. in' = [k \in 1 .. Len(in') |-> in'[k]]
  BY <1>12
<1>15. in' = Own(Len(in))'
  BY <1>3, <1>12, <1>13, <1>14 DEF Own
<1>16. QED
  BY <1>3, <1>9, <1>15

Clean == Level /\ (seen = {} => Tidy)

LEMMA CleanStep == Clean /\ [Next]_vars => Clean'
<1> SUFFICES ASSUME Clean, [Next]_vars PROVE Clean'
  OBVIOUS
<1>1. Level'
  BY LevelStep DEF Clean
<1> SUFFICES ASSUME seen' = {} PROVE Tidy'
  BY <1>1 DEF Clean
<1>2. IInv /\ TypeOK
  BY DEF Clean, Level, IInv
<1>10. seen = {}
  BY DEF Next, Call, Transfer, WritePacket, WriteError, ReadPacket, ShortRead,
         ReadError, vars
<1>11. Level /\ Tidy
  BY <1>10 DEF Clean
<1> USE <1>11 DEF Tidy
<1>3. len \in Nat /\ Payload \in 0 .. len
  BY <1>2, PayloadFits DEF TypeOK
<1>4. ASSUME NEW n \in Lengths, Call(n) PROVE Tidy'
  <2>1. in' = << >> /\ fifo' = fifo /\ pc' # "read" /\ pc = "ready"
    BY <1>4 DEF Call
  <2>2. in' = Own(Len(in))'
    BY <2>1 DEF Own
  <2>3. QED
    BY <1>1, <2>1, <2>2
<1>5. CASE WritePacket
  BY <1>1, <1>5, <1>10, <1>11, WriteTidy
<1>6. CASE ReadPacket
  BY <1>1, <1>6, <1>11, ReadTidy
<1>7. CASE WriteError \/ ShortRead \/ ReadError
  BY <1>7 DEF WriteError, ShortRead, ReadError
<1>8. CASE UNCHANGED vars
  BY <1>1, <1>8 DEF vars, Own, Payload, PacketLen
<1>9. QED
  BY <1>4, <1>5, <1>6, <1>7, <1>8 DEF Next, Transfer

LEMMA CleanInit == Init => Clean
<1> SUFFICES ASSUME Init PROVE Clean
  OBVIOUS
<1>1. Level
  BY LevelInit
<1>2. in = Own(Len(in))
  BY DEF Init, Own
<1>3. QED
  BY <1>1, <1>2 DEF Init, Clean, Tidy

\* Until the first fault every byte of a call gets its own answer and no answer
\* is left for the next call.
THEOREM FaultFreeAnswers == Spec => []OwnAnswers
<1>1. Clean => OwnAnswers
  BY DEF Clean, Tidy, Level, Balanced, Returned, OwnAnswers, Own
<1>2. QED
  BY <1>1, CleanInit, CleanStep, PTL DEF Spec
=============================================================================
