--------------------------- MODULE AsyncBulkProofs ---------------------------
(***************************************************************************)
(* What is proved about the asynchronous read, for every packet size,      *)
(* number of packets and length, and for every mixture of faults.          *)
(***************************************************************************)
EXTENDS AsyncBulk, SequenceTheorems, FiniteSetTheorems, TLAPS

\* The IN transfer is pending or unhandled inside the waiting loop only, and a
\* pending OUT transfer outlives a chunk only if the deselecting packet failed.
Quiet ==
  /\ pc \in {"chunk", "wait", "deselect", "returned"}
  /\ pc # "wait" => xferBulkIn = "idle"
  /\ pc \in {"chunk", "returned"} /\ xferBulkOut => "cs_error" \in seen

LEMMA QuietStep == Quiet /\ [Next]_vars => Quiet'
<1> SUFFICES ASSUME Quiet, [Next]_vars PROVE Quiet'
  OBVIOUS
<1> USE DEF Quiet
<1>1. CASE Chunk
  BY <1>1 DEF Chunk, SubmitBoth
<1>2. CASE cbBulkIn
  BY <1>2 DEF cbBulkIn, Resubmit
<1>3. CASE cbBulkInError
  BY <1>3 DEF cbBulkInError
<1>4. CASE Deselect
  BY <1>4 DEF Deselect, shared, usb
<1>5. CASE Return
  BY <1>5 DEF Return, shared, usb
<1>6. CASE ClockPacket \/ cbBulkOut
  BY <1>6 DEF ClockPacket, cbBulkOut, loop
<1>7. CASE InCompletes \/ InTimesOut \/ InFails
  BY <1>7 DEF InCompletes, InTimesOut, InFails, loop
<1>8. CASE OutFails
  BY <1>8 DEF OutFails, loop
<1>9. CASE sig_int
  BY <1>9 DEF sig_int, loop, usb
<1>10. CASE UNCHANGED vars
  BY <1>10 DEF vars, loop, usb
<1>11. QED
  BY <1>1, <1>2, <1>3, <1>4, <1>5, <1>6, <1>7, <1>8, <1>9, <1>10
     DEF Next, ch341SpiRead, Libusb

\* IdleWhenReused: whatever fails, and whenever the user interrupts, neither
\* transfer is pending when it is filled again or freed, unless a packet that
\* deselects the chip failed to get through.
THEOREM NeverReusedPending == Spec => []IdleWhenReused
<1>1. Init => Quiet
  BY DEF Init, Quiet
<1>2. Quiet => IdleWhenReused
  BY DEF Quiet, IdleWhenReused
<1>3. QED
  BY <1>1, <1>2, QuietStep, PTL DEF Spec

-----------------------------------------------------------------------------
(* The arithmetic of packets. *)

LEMMA Sizes ==
  /\ PacketLength \in Nat /\ MaxPackets \in Nat
  /\ Payload \in Nat /\ Payload >= 5 /\ PacketLength = Payload + 1
  /\ max_payload \in Nat /\ max_payload >= 1
  /\ max_payload + 4 = (MaxPackets - 1) * Payload
<1>1. /\ PacketLength \in Nat /\ MaxPackets \in Nat
      /\ PacketLength > 5 /\ MaxPackets > 1
  BY AsyncAssumption
<1>2. Payload \in Nat /\ Payload >= 5 /\ PacketLength = Payload + 1
  BY <1>1 DEF Payload
<1>3. max_payload + 4 = (MaxPackets - 1) * Payload
  BY <1>1 DEF max_payload, Payload
<1>4. MaxPackets - 1 \in Nat /\ MaxPackets - 1 >= 1
  BY <1>1
<1>5. (MaxPackets - 1) * Payload \in Nat /\ (MaxPackets - 1) * Payload >= 5
  BY <1>2, <1>4
<1>6. max_payload \in Int
  BY <1>1 DEF max_payload
<1>7. QED
  BY <1>1, <1>2, <1>3, <1>5, <1>6

LEMMA Monotone ==
  ASSUME NEW a \in Nat, NEW b \in Nat, NEW d \in Nat, a <= b
  PROVE  a * d <= b * d /\ a * d \in Nat
OBVIOUS

LEMMA Quotient ==
  ASSUME NEW q \in Nat, NEW d \in Nat, NEW r \in Nat, r < d
  PROVE  (q * d + r) \div d = q /\ (q * d + r) % d = r
OBVIOUS

LEMMA Division ==
  ASSUME NEW m \in Nat, NEW d \in Nat, d > 0
  PROVE  m = (m \div d) * d + (m % d) /\ m \div d \in Nat /\ m % d \in 0 .. d - 1
OBVIOUS

\* The bytes that a chunk wants when n are left.
Part(n) == IF n > max_payload THEN max_payload ELSE n

HasPayload(p) == p.first <= p.last

\* When n bytes are left, the last packet of the next chunk carries some of them.
Filling(n) == n > max_payload \/ (n + 4) % Payload # 0

\* p is the k-th of c packets of a chunk that wants e bytes from address b on.
IsPacket(p, k, c, e, b) ==
  /\ p \in Packets
  /\ p.first = (k - 1) * Payload
  /\ p.base = b
  /\ k < c => p.last = k * Payload - 1
  /\ k = c => p.last = e + 3 \/ p.last < p.first

\* ps are q full packets and one with s bytes.
Cut(ps, q, s, b) ==
  /\ ps \in Seq(Packets)
  /\ Len(ps) = q + 1
  /\ \A k \in 1 .. q + 1 :
       /\ ps[k] \in Packets
       /\ ps[k].first = (k - 1) * Payload
       /\ ps[k].base = b
       /\ k < q + 1 => ps[k].last = k * Payload - 1
       /\ k = q + 1 => ps[k].last = q * Payload + s - 2

\* A transfer of q full packets and s bytes more.
LEMMA Cutting ==
  ASSUME NEW q \in Nat, NEW s \in 1 .. PacketLength, NEW b \in Nat
  PROVE  Cut(PacketsOf(q * PacketLength + s, b), q, s, b)
<1> DEFINE bytes == q * PacketLength + s
           ps == PacketsOf(bytes, b)
           size(k) == IF k * PacketLength <= bytes THEN PacketLength ELSE bytes % PacketLength
<1>1. PacketLength \in Nat /\ Payload \in Nat /\ PacketLength = Payload + 1 /\ PacketLength >= 6
  BY Sizes
<1>2. q * PacketLength \in Nat /\ bytes \in Nat
  BY <1>1
<1>3. (bytes + PacketLength - 1) \div PacketLength = q + 1
  <2>1. bytes + PacketLength - 1 = (q + 1) * PacketLength + (s - 1)
    BY <1>1, <1>2
  <2>2. s - 1 \in Nat /\ s - 1 < PacketLength /\ q + 1 \in Nat
    BY <1>1
  <2>3. QED
    BY <1>1, <2>1, <2>2, Quotient
<1>4. ps = [k \in 1 .. q + 1 |->
              [first |-> (k - 1) * Payload, last |-> (k - 1) * Payload + size(k) - 2, base |-> b]]
  BY <1>3 DEF PacketsOf
<1>5. ASSUME NEW k \in 1 .. q + 1
      PROVE  /\ (k - 1) * Payload \in Nat
             /\ size(k) \in Nat
             /\ k < q + 1 => size(k) = PacketLength
             /\ k = q + 1 => size(k) = s
  <2>1. (k - 1) * Payload \in Nat
    BY <1>1
  <2>2. CASE k < q + 1
    <3>1. k * PacketLength <= q * PacketLength
      BY <1>1, <2>2, Monotone
    <3>2. k * PacketLength <= bytes
      BY <1>1, <1>2, <3>1
    <3>3. QED
      BY <1>1, <2>1, <2>2, <3>2
  <2>3. CASE k = q + 1
    <3>1. k * PacketLength = q * PacketLength + PacketLength
      BY <1>1, <2>3
    <3>2. CASE s = PacketLength
      BY <1>1, <1>2, <2>1, <2>3, <3>1, <3>2
    <3>3. CASE s < PacketLength
      <4>1. ~(k * PacketLength <= bytes)
        BY <1>1, <1>2, <3>1, <3>3
      <4>2. bytes % PacketLength = s
        BY <1>1, <3>3, Quotient
      <4>3. QED
        BY <2>1, <2>3, <4>1, <4>2
    <3>4. QED
      BY <1>1, <3>2, <3>3
  <2>4. QED
    BY <2>2, <2>3
<1>6. ASSUME NEW k \in 1 .. q + 1
      PROVE  /\ ps[k] \in Packets
             /\ ps[k].first = (k - 1) * Payload
             /\ ps[k].base = b
             /\ k < q + 1 => ps[k].last = k * Payload - 1
             /\ k = q + 1 => ps[k].last = q * Payload + s - 2
  <2>1. ps[k] = [first |-> (k - 1) * Payload, last |-> (k - 1) * Payload + size(k) - 2,
                 base |-> b]
    BY <1>4
  <2>2. /\ (k - 1) * Payload \in Nat
        /\ size(k) \in Nat
        /\ k < q + 1 => size(k) = PacketLength
        /\ k = q + 1 => size(k) = s
    BY <1>5
  <2>3. k < q + 1 => (k - 1) * Payload + size(k) - 2 = k * Payload - 1
    BY <1>1, <2>2
  <2>4. (k - 1) * Payload + size(k) - 2 \in Int
    BY <2>2
  <2>5. ps[k] \in Packets
    BY <2>1, <2>2, <2>4 DEF Packets
  <2>6. k = q + 1 => (k - 1) * Payload + size(k) - 2 = q * Payload + s - 2
    BY <1>1, <2>2
  <2>7. QED
    BY <2>1, <2>3, <2>5, <2>6
<1>7. ps \in Seq(Packets) /\ Len(ps) = q + 1
  <2>1. \A k \in 1 .. q + 1 : ps[k] \in Packets
    BY <1>6
  <2>2. q + 1 \in Nat
    OBVIOUS
  <2>3. DOMAIN ps = 1 .. q + 1 /\ ps = [k \in 1 .. q + 1 |-> ps[k]]
    BY <1>4
  <2> HIDE DEF ps
  <2>4. QED
    BY <2>1, <2>2, <2>3
<1>8. QED
  BY <1>6, <1>7 DEF Cut

\* The packets of a chunk when n bytes are left: as many as pkg_count says, one
\* behind the other; the last one ends with the last byte or has no payload, and
\* it has none only in a last chunk that ends with a full packet.
LEMMA ChunkPackets ==
  ASSUME NEW n \in Nat, n > 0, NEW b \in Nat
  PROVE  LET ps == PacketsOf(StreamLength(n), b) IN
         /\ PkgCount(n) \in 1 .. MaxPackets - 1
         /\ ps \in Seq(Packets) /\ Len(ps) = PkgCount(n)
         /\ (PkgCount(n) - 1) * Payload <= Part(n) + 4
         /\ \A k \in 1 .. PkgCount(n) : IsPacket(ps[k], k, PkgCount(n), Part(n), b)
         /\ Filling(n) <=> HasPayload(ps[PkgCount(n)])
<1> DEFINE m == n + 4
           ps == PacketsOf(StreamLength(n), b)
           q == m \div Payload
           r == m % Payload
<1>1. /\ PacketLength \in Nat /\ MaxPackets \in Nat /\ Payload \in Nat /\ Payload >= 5
      /\ PacketLength = Payload + 1 /\ max_payload \in Nat /\ max_payload >= 1
      /\ max_payload + 4 = (MaxPackets - 1) * Payload
  BY Sizes
<1>2. CASE n > max_payload
  <2>1. PkgCount(n) = MaxPackets - 1 /\ StreamLength(n) = PacketLength * (MaxPackets - 1)
    BY <1>2 DEF PkgCount, StreamLength
  <2> DEFINE c == MaxPackets - 2
  <2>2. c \in Nat /\ MaxPackets - 1 = c + 1
    BY AsyncAssumption
  <2>3. StreamLength(n) = c * PacketLength + PacketLength
    BY <1>1, <2>1, <2>2
  <2>4. PacketLength \in 1 .. PacketLength
    BY <1>1
  <2>5. Cut(ps, c, PacketLength, b)
    <3>1. Cut(PacketsOf(c * PacketLength + PacketLength, b), c, PacketLength, b)
      BY <2>2, <2>4, Cutting
    <3>2. QED
      BY <2>3, <3>1
  <2>6. c * Payload + PacketLength - 2 = Part(n) + 3
    BY <1>1, <1>2, <2>2 DEF Part
  <2>9. (PkgCount(n) - 1) * Payload <= Part(n) + 4
    BY <1>1, <1>2, <2>1, <2>2 DEF Part
  <2>10. c * Payload <= c * Payload + PacketLength - 2
    BY <1>1, <2>2
  <2> HIDE DEF ps, c
  <2>7. \A k \in 1 .. c + 1 : IsPacket(ps[k], k, c + 1, Part(n), b)
    BY <2>5, <2>6 DEF IsPacket, Cut
  <2>11. HasPayload(ps[c + 1])
    <3>1. c + 1 \in 1 .. c + 1 /\ (c + 1) - 1 = c
      BY <2>2
    <3>2. ps[c + 1].first = c * Payload /\ ps[c + 1].last = c * Payload + PacketLength - 2
      BY <2>5, <3>1 DEF Cut
    <3>3. QED
      BY <2>10, <3>2 DEF HasPayload
  <2>12. Filling(n)
    BY <1>2 DEF Filling
  <2>8. QED
    BY <2>1, <2>2, <2>5, <2>7, <2>9, <2>11, <2>12 DEF ps, Cut
<1>3. CASE ~(n > max_payload)
  <2>1. m = q * Payload + r /\ q \in Nat /\ r \in 0 .. Payload - 1
    BY <1>1, Division
  <2>2. Part(n) = n
    BY <1>3 DEF Part
  <2>3. m <= (MaxPackets - 1) * Payload /\ m >= 5
    BY <1>1, <1>3
  <2>4. CASE r = 0
    <3>1. PkgCount(n) = q
      BY <1>1, <1>3, <2>1, <2>4 DEF PkgCount
    <3>2. q >= 1
      BY <1>1, <2>1, <2>3, <2>4
    <3>3. StreamLength(n) = (q - 1) * PacketLength + 1
      <4>1. (q - 1) * PacketLength \in Int
        BY <1>1, <2>1
      <4>2. QED
        BY <1>3, <2>4, <3>1, <4>1 DEF StreamLength
    <3> DEFINE c == q - 1
    <3>4. c \in Nat /\ 1 \in 1 .. PacketLength /\ q = c + 1
      BY <1>1, <2>1, <3>2
    <3>5. Cut(ps, c, 1, b)
      <4>1. Cut(PacketsOf(c * PacketLength + 1, b), c, 1, b)
        BY <3>4, Cutting
      <4>2. QED
        BY <3>3, <4>1
    <3>6. c * Payload \in Nat
      BY <1>1, <3>4
    <3>7. q <= MaxPackets - 1
      BY <1>1, <2>1, <2>3, <2>4
    <3>11. (PkgCount(n) - 1) * Payload <= Part(n) + 4
      BY <1>1, <2>1, <2>2, <3>1, <3>2
    <3>12. ~Filling(n)
      BY <1>3, <2>4 DEF Filling
    <3>14. (c + 1) - 1 = c /\ c + 1 \in 1 .. c + 1
      BY <3>4
    <3> HIDE DEF ps, c, q
    <3>10. ASSUME NEW k \in 1 .. c + 1 PROVE IsPacket(ps[k], k, c + 1, Part(n), b)
      <4>1. /\ ps[k] \in Packets /\ ps[k].first = (k - 1) * Payload /\ ps[k].base = b
            /\ k < c + 1 => ps[k].last = k * Payload - 1
            /\ k = c + 1 => ps[k].last = c * Payload + 1 - 2
        BY <3>5 DEF Cut
      <4>2. k = c + 1 => (k - 1) * Payload = c * Payload
        BY <3>4
      <4>3. k = c + 1 => ps[k].last < ps[k].first
        BY <3>6, <4>1, <4>2
      <4>4. QED
        BY <4>1, <4>3 DEF IsPacket
    <3>8. \A k \in 1 .. c + 1 : IsPacket(ps[k], k, c + 1, Part(n), b)
      BY <3>10
    <3>13. ~HasPayload(ps[c + 1])
      <4>1. ps[c + 1].first = c * Payload /\ ps[c + 1].last = c * Payload + 1 - 2
        BY <3>5, <3>14 DEF Cut
      <4>2. QED
        BY <3>6, <4>1 DEF HasPayload
    <3>9. QED
      BY <3>1, <3>2, <3>4, <3>5, <3>7, <3>8, <3>11, <3>12, <3>13, <2>1 DEF ps, Cut
  <2>5. CASE r > 0
    <3>1. PkgCount(n) = q + 1
      BY <1>1, <1>3, <2>1, <2>5 DEF PkgCount
    <3>2. StreamLength(n) = q * PacketLength + (r + 1)
      BY <1>1, <1>3, <2>1, <3>1 DEF StreamLength
    <3>3. r + 1 \in 1 .. PacketLength
      BY <1>1, <2>1
    <3>4. Cut(ps, q, r + 1, b)
      <4>1. Cut(PacketsOf(q * PacketLength + (r + 1), b), q, r + 1, b)
        <5> HIDE DEF q, r
        <5>1. QED
          BY <2>1, <3>3, Cutting
      <4>2. QED
        BY <3>2, <4>1
    <3>5. q * Payload + (r + 1) - 2 = Part(n) + 3
      BY <1>1, <2>1, <2>2
    <3>6. q < MaxPackets - 1
      <4>1. q * Payload < (MaxPackets - 1) * Payload
        BY <1>1, <2>1, <2>3, <2>5
      <4>2. QED
        BY <1>1, <2>1, <4>1, AsyncAssumption
    <3>9. (PkgCount(n) - 1) * Payload <= Part(n) + 4
      BY <1>1, <2>1, <2>2, <3>1
    <3>10. q * Payload <= q * Payload + (r + 1) - 2
      BY <1>1, <2>1, <2>5
    <3> HIDE DEF ps, q, r
    <3>7. \A k \in 1 .. q + 1 : IsPacket(ps[k], k, q + 1, Part(n), b)
      BY <3>4, <3>5 DEF IsPacket, Cut
    <3>11. HasPayload(ps[q + 1])
      <4>1. q + 1 \in 1 .. q + 1 /\ (q + 1) - 1 = q
        BY <2>1
      <4>2. ps[q + 1].first = q * Payload /\ ps[q + 1].last = q * Payload + (r + 1) - 2
        BY <3>4, <4>1 DEF Cut
      <4>3. QED
        BY <3>10, <4>2 DEF HasPayload
    <3>12. Filling(n)
      BY <2>5 DEF Filling, r
    <3>8. QED
      BY <1>1, <2>1, <3>1, <3>4, <3>6, <3>7, <3>9, <3>11, <3>12 DEF ps, Cut
  <2>6. QED
    BY <2>1, <2>4, <2>5
<1>4. QED
  BY <1>2, <1>3

-----------------------------------------------------------------------------
(* Where the bytes go. *)

\* The offset of the running chunk, what was left to read when it began, and the
\* packets of it that have come in.
ChunkStart == buf - max_payload
Left == total - ChunkStart
Got == IF xferBulkIn = "done" THEN bulkin_count + 1 ELSE bulkin_count

\* The packets on their way are the next ones of the chunk, in order.
OnTheWay ==
  /\ xferBulkIn = "done" =>
       /\ IsPacket(arrived, Got, pkg_count, Part(Left), Start + ChunkStart)
       /\ HasPayload(arrived)
  /\ \A j \in 1 .. Len(answers) :
       /\ IsPacket(answers[j], Got + j, pkg_count, Part(Left), Start + ChunkStart)
       /\ HasPayload(answers[j])
  /\ \A j \in 1 .. Len(toSend) :
       IsPacket(toSend[j], Got + Len(answers) + j, pkg_count, Part(Left), Start + ChunkStart)
  /\ Got + Len(answers) + Len(toSend) <= pkg_count

\* What holds while a chunk is waited for.
InChunk ==
  /\ ChunkStart \in Nat /\ Left \in Nat /\ Left > 0
  /\ pkg_count \in 1 .. MaxPackets - 1
  /\ (pkg_count - 1) * Payload <= Part(Left) + 4
  /\ bulkin_count \in 0 .. pkg_count - 1
  /\ user_data = IF bulkin_count = 0 THEN ChunkStart
                 ELSE ChunkStart + bulkin_count * Payload - 4
  /\ len > 0 => total = buf + len /\ add = Start + buf
  /\ len = 0 => Left <= max_payload
  /\ OnTheWay

\* What holds between two chunks.
Between ==
  len > 0 => /\ total = buf + len /\ add = Start + buf
             /\ toSend = << >> /\ answers = << >> /\ user_data = buf

PlaceInv ==
  /\ TypeOK
  /\ total \in Nat
  /\ StoredInPlace
  /\ pc = "wait" => InChunk
  /\ pc \in {"chunk", "deselect"} => Between

LEMMA HeadTail ==
  ASSUME NEW s \in Seq(Packets), s # << >>
  PROVE  /\ Head(s) = s[1] /\ Head(s) \in Packets
         /\ Tail(s) \in Seq(Packets) /\ Len(Tail(s)) = Len(s) - 1
         /\ Len(s) \in Nat /\ Len(s) >= 1
         /\ \A j \in 1 .. Len(s) - 1 : Tail(s)[j] = s[j + 1]
<1>1. Len(s) \in Nat /\ Len(s) >= 1
  OBVIOUS
<1>2. s[1] \in Packets
  BY <1>1
<1>3. QED
  BY <1>1, <1>2

LEMMA PlaceInit == Init => PlaceInv
<1> SUFFICES ASSUME Init PROVE PlaceInv
  OBVIOUS
<1>1. total \in Nat /\ Start \in Nat /\ MaxPackets \in Nat
  BY AsyncAssumption DEF Init
<1>2. NoPacket \in Packets
  BY DEF NoPacket, Packets
<1>3. TypeOK
  <2>1. << >> \in Seq(Packets) /\ DOMAIN stored \subseteq Nat
    BY DEF Init
  <2>2. {add, len, buf, pkg_count, user_data} \subseteq Nat
    BY <1>1 DEF Init
  <2>3. bulkin_count \in -1 .. MaxPackets
    BY <1>1 DEF Init
  <2>4. force_stop \in BOOLEAN /\ seen \subseteq Faults
    BY DEF Init
  <2>5. QED
    BY <1>2, <2>1, <2>2, <2>3, <2>4 DEF Init, TypeOK
<1>4. StoredInPlace
  BY DEF Init, StoredInPlace
<1>5. Between
  BY <1>1 DEF Init, Between
<1>6. QED
  BY <1>1, <1>3, <1>4, <1>5 DEF Init, PlaceInv

LEMMA ChunkKeeps ==
  ASSUME PlaceInv, Chunk
  PROVE  PlaceInv'
<1>1. /\ len \in Nat /\ len > 0 /\ buf \in Nat /\ add \in Nat /\ total \in Nat
      /\ total = buf + len /\ add = Start + buf /\ Start \in Nat
      /\ toSend = << >> /\ answers = << >> /\ user_data = buf
  BY AsyncAssumption DEF PlaceInv, TypeOK, Between, Chunk
<1>2. max_payload \in Nat /\ max_payload >= 1
  BY Sizes
<1>3. /\ buf' = buf + max_payload /\ total' = total /\ user_data' = buf /\ bulkin_count' = 0
      /\ pkg_count' = PkgCount(len) /\ xferBulkIn' \in {"idle", "pending"} /\ answers' = << >>
      /\ arrived' = arrived /\ stored' = stored /\ pc' = "wait" /\ xferBulkOut' \in BOOLEAN
      /\ force_stop' = force_stop /\ ret' = ret /\ seen' \subseteq Faults
      /\ toSend' = << >> \/ toSend' = PacketsOf(StreamLength(len), Start + buf)
  <2>1. /\ UNCHANGED <<total, stored, arrived, answers, force_stop, ret>>
        /\ buf' = buf + max_payload /\ user_data' = buf /\ bulkin_count' = 0
        /\ pkg_count' = PkgCount(len) /\ pc' = "wait"
    BY DEF Chunk
  <2>2. PICK refused \in SUBSET (Faults \cap {"in_submit", "out_submit"}) :
          /\ xferBulkIn' = IF "in_submit" \in refused THEN "idle" ELSE "pending"
          /\ xferBulkOut' = (xferBulkOut \/ "out_submit" \notin refused)
          /\ toSend' = IF xferBulkOut \/ "out_submit" \in refused THEN toSend
                       ELSE PacketsOf(StreamLength(len), add)
          /\ seen' = seen \cup refused
    BY DEF Chunk, SubmitBoth
  <2>3. seen' \subseteq Faults
    BY <2>2 DEF PlaceInv, TypeOK
  <2>4. xferBulkOut' \in BOOLEAN
    BY <2>2
  <2>5. toSend' = << >> \/ toSend' = PacketsOf(StreamLength(len), Start + buf)
    BY <1>1, <2>2
  <2>6. xferBulkIn' \in {"idle", "pending"}
    BY <2>2
  <2>7. QED
    BY <1>1, <2>1, <2>3, <2>4, <2>5, <2>6
<1>4. IF len > max_payload THEN len' = len - max_payload /\ add' = add + max_payload
                           ELSE len' = 0 /\ add' = add
  BY DEF Chunk
<1>5. ChunkStart' = buf /\ Left' = len /\ Got' = 0
  BY <1>1, <1>2, <1>3 DEF ChunkStart, Left, Got
<1> DEFINE ps == PacketsOf(StreamLength(len), Start + buf)
           c == PkgCount(len)
<1>6. /\ c \in 1 .. MaxPackets - 1
      /\ ps \in Seq(Packets) /\ Len(ps) = c
      /\ (c - 1) * Payload <= Part(len) + 4
      /\ \A k \in 1 .. c : IsPacket(ps[k], k, c, Part(len), Start + buf)
  BY <1>1, ChunkPackets
<1>7. toSend' = << >> \/ toSend' = ps
  BY <1>3
<1> HIDE DEF ps, c
<1>8. toSend' \in Seq(Packets) /\ Len(toSend') \in 0 .. c
  <2>1. c \in Nat /\ c >= 1
    BY <1>6
  <2>2. CASE toSend' = << >>
    <3>1. << >> \in Seq(Packets) /\ Len(<< >>) = 0
      OBVIOUS
    <3>2. QED
      BY <2>1, <2>2, <3>1
  <2>3. CASE toSend' = ps
    <3>1. Len(toSend') = c
      BY <1>6, <2>3
    <3>2. QED
      BY <1>6, <2>1, <2>3, <3>1
  <2>4. QED
    BY <1>7, <2>2, <2>3
<1>9. \A j \in 1 .. Len(toSend') : IsPacket(toSend'[j], j, c, Part(len), Start + buf)
  BY <1>6, <1>7
<1>10. len' \in Nat /\ add' \in Nat /\ buf' \in Nat
  BY <1>1, <1>2, <1>3, <1>4
<1>11. MaxPackets \in Nat
  BY Sizes
<1>12. TypeOK'
  <2>1. /\ DOMAIN stored \subseteq Nat /\ arrived \in Packets /\ force_stop \in BOOLEAN
        /\ ret \in {0, 3, -1}
    BY DEF PlaceInv, TypeOK
  <2>2. pkg_count' \in Nat
    BY <1>3, <1>6, <1>11 DEF c
  <2>3. bulkin_count' \in -1 .. MaxPackets
    BY <1>3, <1>11
  <2>4. answers' \in Seq(Packets) /\ user_data' \in Nat
    BY <1>1, <1>3
  <2>5. QED
    BY <1>3, <1>8, <1>10, <2>1, <2>2, <2>3, <2>4 DEF TypeOK
<1>13. StoredInPlace'
  BY <1>1, <1>3 DEF PlaceInv, StoredInPlace
<1>14. OnTheWay'
  <2>1. pkg_count' = c /\ Len(answers') = 0 /\ xferBulkIn' # "done"
    BY <1>3 DEF c
  <2>2. \A j \in 1 .. Len(toSend') :
          IsPacket(toSend'[j], Got' + Len(answers') + j, pkg_count', Part(Left'), Start + ChunkStart')
    BY <1>5, <1>8, <1>9, <2>1
  <2>3. Got' + Len(answers') + Len(toSend') <= pkg_count'
    BY <1>5, <1>6, <1>8, <2>1
  <2>4. QED
    BY <2>1, <2>2, <2>3 DEF OnTheWay, Part
<1>15. InChunk'
  <2>1. (pkg_count' - 1) * Payload <= Part(Left') + 4
    BY <1>3, <1>5, <1>6 DEF c
  <2>2. len' > 0 => total' = buf' + len' /\ add' = Start + buf'
    BY <1>1, <1>2, <1>3, <1>4
  <2>3. len' = 0 => Left' <= max_payload
    BY <1>1, <1>2, <1>4, <1>5
  <2>4. pkg_count' \in 1 .. MaxPackets - 1 /\ bulkin_count' \in 0 .. pkg_count' - 1
    BY <1>3, <1>6, <1>11 DEF c
  <2>5. QED
    BY <1>1, <1>3, <1>5, <1>14, <2>1, <2>2, <2>3, <2>4 DEF InChunk, Part
<1>16. QED
  BY <1>1, <1>3, <1>12, <1>13, <1>15 DEF PlaceInv

\* The last packet of a chunk brings the last byte of it.
LEMMA PacketComes ==
  ASSUME PlaceInv, cbBulkIn
  PROVE  /\ PlaceInv'
         /\ bulkin_count + 1 = pkg_count => user_data' = ChunkStart + Part(Left)
<1>1. /\ pc = "wait" /\ xferBulkIn = "done" /\ bulkin_count' = bulkin_count + 1
      /\ UNCHANGED <<total, add, len, buf, pkg_count, ret, arrived, xferBulkOut, toSend,
                     answers, force_stop>>
      /\ seen' \in {seen, seen \cup (Faults \cap {"in_submit"})}
  BY DEF cbBulkIn, Resubmit
<1>2. TypeOK /\ StoredInPlace /\ InChunk /\ total \in Nat
  BY <1>1 DEF PlaceInv
<1> DEFINE p == arrived
           k == bulkin_count + 1
           e == Part(Left)
           hi == ChunkStart + p.last - 4
<1>3. /\ Payload \in Nat /\ Payload >= 5 /\ max_payload \in Nat /\ max_payload >= 1
      /\ MaxPackets \in Nat /\ Start \in Nat
  BY Sizes, AsyncAssumption
<1>4. /\ ChunkStart \in Nat /\ Left \in Nat /\ Left > 0 /\ total = ChunkStart + Left
      /\ e \in Nat /\ e >= 1 /\ e <= Left /\ e <= max_payload
      /\ pkg_count \in 1 .. MaxPackets - 1 /\ k \in 1 .. pkg_count /\ k \in Nat
      /\ (pkg_count - 1) * Payload <= e + 4
  BY <1>2, <1>3 DEF InChunk, Left, Part
<1>5. IsPacket(p, k, pkg_count, e, Start + ChunkStart) /\ HasPayload(p) /\ Got = k
  BY <1>1, <1>2 DEF InChunk, OnTheWay, Got
<1>6. /\ p.first = (k - 1) * Payload /\ p.base = Start + ChunkStart /\ p.last \in Int
      /\ k < pkg_count => p.last = k * Payload - 1
      /\ k = pkg_count => p.last = e + 3
  BY <1>5 DEF IsPacket, HasPayload, Packets
<1>7. (k - 1) * Payload \in Nat /\ k * Payload = (k - 1) * Payload + Payload
  BY <1>3, <1>4
<1>8. k < pkg_count => k * Payload <= e + 4
  <2>1. ASSUME k < pkg_count PROVE k * Payload <= (pkg_count - 1) * Payload
    BY <1>3, <1>4, <2>1, Monotone
  <2>2. (pkg_count - 1) * Payload \in Int
    BY <1>3, <1>4
  <2>3. QED
    BY <1>3, <1>4, <1>7, <2>1, <2>2
<1>9. /\ user_data \in Nat
      /\ user_data = IF k = 1 THEN ChunkStart ELSE ChunkStart + (k - 1) * Payload - 4
  BY <1>2 DEF InChunk, TypeOK
<1>10. Skip(arrived) - user_data = 4 - ChunkStart
  <2>1. CASE k = 1
    <3>1. bulkin_count = 0
      BY <1>2, <2>1 DEF TypeOK
    <3>2. p.first = 0
      BY <1>3, <1>6, <2>1
    <3>3. QED
      BY <1>4, <1>9, <2>1, <3>1, <3>2 DEF Skip
  <2>2. CASE k # 1
    <3>1. bulkin_count # 0
      BY <1>2, <1>4, <2>2 DEF TypeOK
    <3>2. QED
      BY <1>3, <1>4, <1>6, <1>7, <1>9, <2>2, <3>1 DEF Skip
  <2>3. QED
    BY <2>1, <2>2
<1>11. /\ hi \in Int /\ user_data <= hi + 1 /\ hi < total
       /\ k < pkg_count => hi + 1 = ChunkStart + k * Payload - 4
       /\ k = pkg_count => hi + 1 = ChunkStart + e
  <2> DEFINE f == (k - 1) * Payload
             g == k * Payload
  <2>1. f \in Nat /\ g = f + Payload /\ (k < pkg_count => g <= e + 4)
    BY <1>7, <1>8
  <2>2. IF k = 1 THEN f = 0 /\ user_data = ChunkStart ELSE user_data = ChunkStart + f - 4
    BY <1>3, <1>4, <1>9
  <2>3. p.last \in Int /\ hi = ChunkStart + p.last - 4 /\ p.first = f
    BY <1>6
  <2>4. (k < pkg_count => p.last = g - 1) /\ (k = pkg_count => p.last = e + 3)
    BY <1>6
  <2>5. p.first <= p.last
    BY <1>5 DEF HasPayload
  <2>6. SUFFICES /\ hi \in Int /\ user_data <= hi + 1 /\ hi < total
                 /\ k < pkg_count => hi + 1 = ChunkStart + g - 4
                 /\ k = pkg_count => hi + 1 = ChunkStart + e
    OBVIOUS
  <2>7. (k < pkg_count \/ k = pkg_count) /\ pkg_count \in Int
    BY <1>4
  <2> HIDE DEF f, g, hi, k, e, p
  <2>8. QED
    BY <1>3, <1>4, <1>9, <2>1, <2>2, <2>3, <2>4, <2>5, <2>7
<1> DEFINE places == user_data .. hi
<1>12. Cardinality(places) = hi + 1 - user_data
  <2>1. user_data \in Int /\ hi \in Int /\ user_data <= hi + 1
    BY <1>9, <1>11
  <2> HIDE DEF hi
  <2>2. Cardinality(places) = IF user_data > hi THEN 0 ELSE hi - user_data + 1
    BY <2>1, FS_Interval
  <2>3. QED
    BY <2>1, <2>2
<1>13. arrived.last - (Skip(arrived) - user_data) = hi
  BY <1>4, <1>6, <1>10
<1>14. /\ stored' = [o \in DOMAIN stored \cup places |->
                       IF o \in places THEN arrived.base + o + (4 - ChunkStart) - 4 ELSE stored[o]]
       /\ user_data' = user_data + Cardinality(places)
  BY <1>10, <1>13 DEF cbBulkIn
<1>15. user_data' = hi + 1
  BY <1>9, <1>11, <1>12, <1>14
<1>16. StoredInPlace'
  <2>1. DOMAIN stored = 0 .. user_data - 1
    BY <1>2 DEF StoredInPlace
  <2>2. DOMAIN stored' = 0 .. user_data' - 1
    BY <1>9, <1>11, <1>14, <1>15, <2>1
  <2>3. ASSUME NEW o \in DOMAIN stored' PROVE o < total /\ stored'[o] = Start + o
    <3>1. CASE o \in places
      <4>1. o \in Int /\ o < total
        BY <1>4, <1>9, <1>11, <3>1
      <4>2. stored'[o] = arrived.base + o + (4 - ChunkStart) - 4
        BY <1>14, <3>1
      <4>3. QED
        BY <1>3, <1>4, <1>6, <4>1, <4>2
    <3>2. CASE o \notin places
      <4>1. o \in DOMAIN stored /\ stored'[o] = stored[o]
        BY <1>14, <3>2
      <4>2. QED
        BY <1>2, <4>1 DEF StoredInPlace
    <3>3. QED
      BY <3>1, <3>2
  <2>4. QED
    BY <1>1, <2>2, <2>3 DEF StoredInPlace
<1>17. /\ xferBulkIn' \in {"idle", "pending"} /\ pc' \in {"wait", "deselect"}
       /\ k # pkg_count => pc' = "wait"
       /\ k = pkg_count => pc' = "deselect"
  BY <1>1 DEF cbBulkIn, Resubmit
<1>18. TypeOK'
  <2>1. user_data' \in Nat /\ bulkin_count' \in -1 .. MaxPackets
    BY <1>1, <1>3, <1>4, <1>9, <1>11, <1>15
  <2>2. DOMAIN stored' \subseteq Nat
    <3>1. DOMAIN stored' = 0 .. user_data' - 1
      BY <1>16 DEF StoredInPlace
    <3>2. \A n \in Nat : 0 .. n - 1 \subseteq Nat
      OBVIOUS
    <3> QED
      BY <2>1, <3>1, <3>2
  <2>3. {add, len, buf, pkg_count, user_data}' \subseteq Nat
    BY <1>1, <1>2, <2>1 DEF TypeOK
  <2>4. seen' \subseteq Faults
    BY <1>1, <1>2 DEF TypeOK
  <2>5. QED
    BY <1>1, <1>2, <1>17, <2>1, <2>2, <2>3, <2>4 DEF TypeOK
<1>19. ChunkStart' = ChunkStart /\ Left' = Left /\ Got' = Got
  BY <1>1, <1>5, <1>17 DEF ChunkStart, Left, Got
<1>20. ASSUME pc' = "wait" PROVE InChunk'
  <2>1. k < pkg_count
    BY <1>4, <1>17, <1>20
  <2>2. bulkin_count' \in 0 .. pkg_count - 1 /\ bulkin_count' # 0
    BY <1>1, <1>4, <2>1
  <2>3. user_data' = ChunkStart + bulkin_count' * Payload - 4
    BY <1>1, <1>11, <1>15, <2>1
  <2>4. OnTheWay'
    BY <1>1, <1>2, <1>17, <1>19 DEF InChunk, OnTheWay, Part
  <2>5. QED
    BY <1>1, <1>2, <1>19, <2>2, <2>3, <2>4 DEF InChunk, Part
<1>21. ASSUME pc' = "deselect" PROVE Between'
  <2>1. k = pkg_count
    BY <1>17, <1>21
  <2>2. SUFFICES ASSUME len > 0
                 PROVE /\ total = buf + len /\ add = Start + buf
                       /\ toSend = << >> /\ answers = << >> /\ user_data' = buf
    BY <1>1 DEF Between
  <2>3. total = buf + len /\ add = Start + buf
    BY <1>2, <2>2 DEF InChunk
  <2>4. Len(answers) + Len(toSend) <= 0 /\ answers \in Seq(Packets) /\ toSend \in Seq(Packets)
    <3>1. answers \in Seq(Packets) /\ toSend \in Seq(Packets)
      BY <1>2 DEF TypeOK
    <3>2. Got + Len(answers) + Len(toSend) <= pkg_count
      BY <1>2 DEF InChunk, OnTheWay
    <3>3. Got = pkg_count /\ pkg_count \in Int
      BY <1>4, <1>5, <2>1
    <3>4. Len(answers) \in Nat /\ Len(toSend) \in Nat
      BY <3>1
    <3>5. QED
      BY <3>1, <3>2, <3>3, <3>4
  <2>5. toSend = << >> /\ answers = << >>
    BY <2>4
  <2>6. Left > max_payload
    <3>1. buf \in Int /\ len \in Int /\ total \in Int /\ max_payload \in Int
      BY <1>2, <1>3, <2>3 DEF TypeOK
    <3>2. Left = total - (buf - max_payload)
      BY DEF Left, ChunkStart
    <3>3. QED
      BY <2>2, <2>3, <3>1, <3>2
  <2>7. e = max_payload
    BY <2>6 DEF Part
  <2>8. user_data' = buf
    <3>1. user_data' = ChunkStart + max_payload
      BY <1>11, <1>15, <2>1, <2>7
    <3>2. buf \in Int /\ max_payload \in Int
      BY <1>2, <1>3 DEF TypeOK
    <3>3. QED
      BY <3>1, <3>2 DEF ChunkStart
  <2>9. QED
    BY <2>3, <2>5, <2>8
<1>22. bulkin_count + 1 = pkg_count => user_data' = ChunkStart + Part(Left)
  BY <1>11, <1>15
<1>23. QED
  BY <1>1, <1>2, <1>16, <1>17, <1>18, <1>20, <1>21, <1>22 DEF PlaceInv

LEMMA ErrorComes ==
  ASSUME PlaceInv, cbBulkInError
  PROVE  PlaceInv'
<1>1. /\ pc' = "deselect" /\ xferBulkIn' = "idle" /\ bulkin_count' = -1 /\ len' = 0 /\ ret' = -1
      /\ UNCHANGED <<total, add, buf, pkg_count, user_data, stored, arrived, xferBulkOut,
                     toSend, answers, force_stop, seen>>
  BY DEF cbBulkInError
<1>2. MaxPackets \in Nat /\ -1 \in -1 .. MaxPackets
  BY AsyncAssumption
<1>3. TypeOK'
  BY <1>1, <1>2 DEF PlaceInv, TypeOK
<1>4. StoredInPlace' /\ Between'
  BY <1>1 DEF PlaceInv, StoredInPlace, Between
<1>5. QED
  BY <1>1, <1>3, <1>4 DEF PlaceInv

LEMMA DeselectKeeps ==
  ASSUME PlaceInv, Deselect \/ Return
  PROVE  PlaceInv'
<1>1. /\ pc \in {"chunk", "deselect"} /\ pc' \in {"chunk", "returned"}
      /\ UNCHANGED <<total, add, len, buf, pkg_count, bulkin_count, user_data, stored,
                     xferBulkIn, arrived, xferBulkOut, toSend, answers>>
  BY DEF Deselect, Return, shared, usb
<1>2. ret' \in {0, 3, -1} /\ force_stop' \in BOOLEAN /\ seen' \subseteq Faults
  BY DEF PlaceInv, TypeOK, Deselect, Return
<1>3. TypeOK'
  BY <1>1, <1>2 DEF PlaceInv, TypeOK
<1>4. StoredInPlace' /\ Between'
  BY <1>1 DEF PlaceInv, StoredInPlace, Between
<1>5. QED
  BY <1>1, <1>3, <1>4 DEF PlaceInv

\* What the bridge, libusb and the user leave alone.
Frame ==
  /\ UNCHANGED <<loop, bulkin_count, user_data, stored>>
  /\ xferBulkOut' \in BOOLEAN /\ force_stop' \in BOOLEAN /\ seen' \subseteq Faults

\* What is left to show of such a step.
LEMMA FrameKeeps ==
  ASSUME PlaceInv, Frame,
         xferBulkIn' \in {"idle", "pending", "done", "error"},
         arrived' \in Packets, toSend' \in Seq(Packets), answers' \in Seq(Packets),
         pc = "wait" => OnTheWay',
         toSend = << >> /\ answers = << >> => toSend' = << >> /\ answers' = << >>
  PROVE  PlaceInv'
<1>1. /\ UNCHANGED <<pc, total, add, len, buf, pkg_count, ret, bulkin_count, user_data, stored>>
      /\ xferBulkOut' \in BOOLEAN /\ force_stop' \in BOOLEAN /\ seen' \subseteq Faults
  BY DEF Frame, loop
<1>2. TypeOK'
  BY <1>1 DEF PlaceInv, TypeOK
<1>3. StoredInPlace'
  BY <1>1 DEF PlaceInv, StoredInPlace
<1>4. pc' = "wait" => InChunk'
  <2>1. ChunkStart' = ChunkStart /\ Left' = Left
    BY <1>1 DEF ChunkStart, Left
  <2>2. QED
    BY <1>1, <2>1 DEF PlaceInv, InChunk, Part
<1>5. pc' \in {"chunk", "deselect"} => Between'
  BY <1>1 DEF PlaceInv, Between
<1>6. QED
  BY <1>1, <1>2, <1>3, <1>4, <1>5 DEF PlaceInv

LEMMA ClockKeeps ==
  ASSUME PlaceInv, ClockPacket
  PROVE  PlaceInv'
<1>1. /\ toSend # << >> /\ toSend' = Tail(toSend)
      /\ answers' = IF HasPayload(Head(toSend)) THEN Append(answers, Head(toSend)) ELSE answers
      /\ UNCHANGED <<loop, bulkin_count, user_data, stored, xferBulkIn, arrived, xferBulkOut,
                     force_stop, seen>>
  BY DEF ClockPacket, shared, HasPayload, PlaceInv, TypeOK, Packets
<1>2. TypeOK
  BY DEF PlaceInv
<1>3. toSend \in Seq(Packets) /\ answers \in Seq(Packets) /\ Len(answers) \in Nat
  BY <1>2 DEF TypeOK
<1>4. /\ Head(toSend) = toSend[1] /\ Head(toSend) \in Packets /\ Tail(toSend) \in Seq(Packets)
      /\ Len(Tail(toSend)) = Len(toSend) - 1 /\ Len(toSend) \in Nat /\ Len(toSend) >= 1
      /\ \A j \in 1 .. Len(toSend) - 1 : Tail(toSend)[j] = toSend[j + 1]
  BY <1>1, <1>3, HeadTail
<1>5. toSend' \in Seq(Packets) /\ answers' \in Seq(Packets)
  BY <1>1, <1>3, <1>4
<1>6. ASSUME pc = "wait" PROVE OnTheWay'
  <2> DEFINE c == pkg_count
             b == Start + ChunkStart
             e == Part(Left)
  <2>1. InChunk /\ OnTheWay
    BY <1>6 DEF PlaceInv, InChunk
  <2>2. /\ Got' = Got /\ c' = c /\ (Start + ChunkStart)' = b /\ Part(Left') = e
    BY <1>1 DEF Got, ChunkStart, Left, loop
  <2>3. Got \in Nat /\ c \in Nat
    BY <2>1 DEF InChunk, Got
  <2>4. /\ \A j \in 1 .. Len(answers) : IsPacket(answers[j], Got + j, c, e, b) /\ HasPayload(answers[j])
        /\ \A j \in 1 .. Len(toSend) : IsPacket(toSend[j], Got + Len(answers) + j, c, e, b)
        /\ Got + Len(answers) + Len(toSend) <= c
    BY <2>1 DEF OnTheWay
  <2>5. IsPacket(Head(toSend), Got + Len(answers) + 1, c, e, b)
    BY <1>4, <2>4
  <2>6. CASE HasPayload(Head(toSend))
    <3>1. /\ answers' = Append(answers, Head(toSend)) /\ Len(answers') = Len(answers) + 1
          /\ \A j \in 1 .. Len(answers) : answers'[j] = answers[j]
          /\ answers'[Len(answers) + 1] = Head(toSend)
      BY <1>1, <1>3, <1>4, <2>6
    <3>2. ASSUME NEW j \in 1 .. Len(answers')
          PROVE IsPacket(answers'[j], Got + j, c, e, b) /\ HasPayload(answers'[j])
      <4>1. CASE j \in 1 .. Len(answers)
        BY <2>4, <3>1, <4>1
      <4>2. CASE j = Len(answers) + 1
        <5>1. Got + j = Got + Len(answers) + 1
          BY <1>3, <2>3, <4>2
        <5>2. QED
          BY <2>5, <2>6, <3>1, <4>2, <5>1
      <4>3. QED
        BY <1>3, <3>1, <4>1, <4>2
    <3>3. ASSUME NEW j \in 1 .. Len(toSend')
          PROVE IsPacket(toSend'[j], Got + Len(answers') + j, c, e, b)
      <4>1. j + 1 \in 1 .. Len(toSend) /\ toSend'[j] = toSend[j + 1]
        BY <1>1, <1>4
      <4>2. Got + Len(answers) + (j + 1) = Got + Len(answers') + j
        BY <1>3, <2>3, <3>1, <4>1
      <4>3. QED
        BY <2>4, <4>1, <4>2
    <3>4. Got + Len(answers') + Len(toSend') <= c
      BY <1>1, <1>3, <1>4, <2>3, <2>4, <3>1
    <3>5. QED
      BY <1>1, <2>1, <2>2, <3>2, <3>3, <3>4 DEF OnTheWay, loop
  <2>7. CASE ~HasPayload(Head(toSend))
    <3>1. Got + Len(answers) + 1 = c
      <4>1. SUFFICES ASSUME Got + Len(answers) + 1 < c PROVE FALSE
        BY <1>3, <1>4, <2>3, <2>4
      <4> DEFINE k == Got + Len(answers) + 1
      <4>2. /\ Head(toSend).first = (k - 1) * Payload
            /\ Head(toSend).last = k * Payload - 1
        BY <2>5, <4>1 DEF IsPacket
      <4>3. k \in Nat /\ Payload \in Nat /\ Payload >= 5
        BY <1>3, <2>3, Sizes
      <4> HIDE DEF k
      <4>4. (k - 1) * Payload <= k * Payload - 1
        BY <4>3
      <4>5. QED
        BY <2>7, <4>2, <4>4 DEF HasPayload
    <3>2. Len(toSend') = 0 /\ answers' = answers
      BY <1>1, <1>3, <1>4, <2>3, <2>4, <2>7, <3>1
    <3>3. Got + Len(answers') + Len(toSend') <= c
      BY <1>3, <2>3, <3>1, <3>2
    <3>4. /\ arrived' = arrived /\ pkg_count' = pkg_count /\ xferBulkIn' = xferBulkIn
      BY <1>1 DEF loop
    <3>7. \A j \in 1 .. Len(toSend') : FALSE
      BY <3>2
    <3>5. xferBulkIn = "done" =>
            IsPacket(arrived, Got, pkg_count, Part(Left), Start + ChunkStart) /\ HasPayload(arrived)
      BY <2>1 DEF OnTheWay
    <3>6. QED
      BY <2>2, <2>4, <3>2, <3>3, <3>4, <3>5, <3>7 DEF OnTheWay
  <2>8. QED
    BY <2>6, <2>7
<1>7. QED
  BY <1>1, <1>2, <1>5, <1>6, FrameKeeps DEF Frame, TypeOK

LEMMA CompletionKeeps ==
  ASSUME PlaceInv, InCompletes
  PROVE  PlaceInv'
<1>1. /\ xferBulkIn = "pending" /\ answers # << >> /\ xferBulkIn' = "done"
      /\ arrived' = Head(answers) /\ answers' = Tail(answers)
      /\ UNCHANGED <<loop, bulkin_count, user_data, stored, xferBulkOut, toSend, force_stop, seen>>
  BY DEF InCompletes, shared
<1>2. TypeOK
  BY DEF PlaceInv
<1>3. toSend \in Seq(Packets) /\ answers \in Seq(Packets) /\ Len(toSend) \in Nat
  BY <1>2 DEF TypeOK
<1>4. /\ Head(answers) = answers[1] /\ Head(answers) \in Packets /\ Tail(answers) \in Seq(Packets)
      /\ Len(Tail(answers)) = Len(answers) - 1 /\ Len(answers) \in Nat /\ Len(answers) >= 1
      /\ \A j \in 1 .. Len(answers) - 1 : Tail(answers)[j] = answers[j + 1]
  BY <1>1, <1>3, HeadTail
<1>5. ASSUME pc = "wait" PROVE OnTheWay'
  <2> DEFINE c == pkg_count
             b == Start + ChunkStart
             e == Part(Left)
  <2>1. InChunk /\ OnTheWay
    BY <1>5 DEF PlaceInv, InChunk
  <2>2. /\ c' = c /\ (Start + ChunkStart)' = b /\ Part(Left') = e /\ bulkin_count' = bulkin_count
    BY <1>1 DEF ChunkStart, Left, loop
  <2>3. Got = bulkin_count /\ Got' = Got + 1 /\ Got \in Nat
    BY <1>1, <2>1, <2>2 DEF Got, InChunk
  <2>4. /\ \A j \in 1 .. Len(answers) : IsPacket(answers[j], Got + j, c, e, b) /\ HasPayload(answers[j])
        /\ \A j \in 1 .. Len(toSend) : IsPacket(toSend[j], Got + Len(answers) + j, c, e, b)
        /\ Got + Len(answers) + Len(toSend) <= c
    BY <2>1 DEF OnTheWay
  <2>5. IsPacket(arrived', Got', c, e, b) /\ HasPayload(arrived')
    BY <1>1, <1>4, <2>3, <2>4
  <2>6. ASSUME NEW j \in 1 .. Len(answers')
        PROVE IsPacket(answers'[j], Got' + j, c, e, b) /\ HasPayload(answers'[j])
    <3>1. j + 1 \in 1 .. Len(answers) /\ answers'[j] = answers[j + 1]
      BY <1>1, <1>4
    <3>2. Got + (j + 1) = Got' + j
      BY <2>3
    <3>3. QED
      BY <2>4, <3>1, <3>2
  <2>7. ASSUME NEW j \in 1 .. Len(toSend')
        PROVE IsPacket(toSend'[j], Got' + Len(answers') + j, c, e, b)
    <3>1. Got + Len(answers) + j = Got' + Len(answers') + j /\ toSend' = toSend
      BY <1>1, <1>4, <2>3
    <3>2. QED
      BY <2>4, <3>1
  <2>8. Got' + Len(answers') + Len(toSend') <= c
    BY <1>1, <1>3, <1>4, <2>3, <2>4
  <2>9. QED
    BY <2>2, <2>5, <2>6, <2>7, <2>8 DEF OnTheWay
<1>6. QED
  BY <1>1, <1>2, <1>3, <1>4, <1>5, FrameKeeps DEF Frame, TypeOK

LEMMA OthersKeep ==
  ASSUME PlaceInv, cbBulkOut \/ InTimesOut \/ InFails \/ OutFails \/ sig_int
  PROVE  PlaceInv'
<1>1. TypeOK
  BY DEF PlaceInv
<1>2. /\ UNCHANGED <<loop, bulkin_count, user_data, stored, arrived, answers>>
      /\ xferBulkOut' \in BOOLEAN /\ force_stop' \in BOOLEAN /\ seen' \subseteq Faults
      /\ toSend' \in {toSend, << >>}
      /\ xferBulkIn' = xferBulkIn \/ (xferBulkIn = "pending" /\ xferBulkIn' = "error")
  <2>1. UNCHANGED <<loop, bulkin_count, user_data, stored, arrived, answers>>
    BY DEF cbBulkOut, InTimesOut, InFails, OutFails, sig_int, shared, usb
  <2>2. xferBulkOut' \in {xferBulkOut, FALSE} /\ force_stop' \in {force_stop, TRUE}
    BY DEF cbBulkOut, InTimesOut, InFails, OutFails, sig_int, usb
  <2>3. seen' \subseteq Faults
    BY <1>1 DEF cbBulkOut, InTimesOut, InFails, OutFails, sig_int, TypeOK
  <2>4. toSend' \in {toSend, << >>}
    BY DEF cbBulkOut, InTimesOut, InFails, OutFails, sig_int, usb
  <2>5. xferBulkIn' = xferBulkIn \/ (xferBulkIn = "pending" /\ xferBulkIn' = "error")
    BY DEF cbBulkOut, InTimesOut, InFails, OutFails, sig_int, usb
  <2>6. xferBulkOut' \in BOOLEAN /\ force_stop' \in BOOLEAN
    BY <1>1, <2>2 DEF TypeOK
  <2>7. QED
    BY <2>1, <2>3, <2>4, <2>5, <2>6
<1>3. << >> \in Seq(Packets) /\ Len(<< >>) = 0
  OBVIOUS
<1>4. toSend' \in Seq(Packets) /\ answers' \in Seq(Packets) /\ Len(toSend) \in Nat
  <2>1. toSend \in Seq(Packets) /\ answers \in Seq(Packets)
    BY <1>1 DEF TypeOK
  <2>2. answers' = answers
    BY <1>2
  <2>3. toSend' = toSend \/ toSend' = << >>
    BY <1>2
  <2>4. toSend' \in Seq(Packets)
    BY <1>3, <2>1, <2>3
  <2>5. QED
    BY <2>1, <2>2, <2>4
<1>5. ASSUME pc = "wait" PROVE OnTheWay'
  <2>1. InChunk /\ OnTheWay
    BY <1>5 DEF PlaceInv, InChunk
  <2>2. /\ Got' = Got /\ pkg_count' = pkg_count /\ ChunkStart' = ChunkStart /\ Left' = Left
        /\ xferBulkIn' = "done" => xferBulkIn = "done"
    BY <1>2 DEF Got, ChunkStart, Left, loop
  <2>3. Got \in Nat /\ pkg_count \in Nat /\ Len(answers) \in Nat
    BY <1>1, <2>1 DEF InChunk, Got, TypeOK
  <2>4. CASE toSend' = toSend
    BY <1>2, <2>1, <2>2, <2>4 DEF OnTheWay, Part
  <2>5. CASE toSend' = << >>
    <3>1. Len(toSend') = 0
      BY <1>3, <2>5
    <3>2. Got' + Len(answers') + Len(toSend') <= pkg_count'
      BY <1>2, <1>4, <2>1, <2>2, <2>3, <3>1 DEF OnTheWay
    <3>3. QED
      BY <1>2, <2>1, <2>2, <3>1, <3>2 DEF OnTheWay, Part
  <2>6. QED
    BY <1>2, <2>4, <2>5
<1>6. QED
  BY <1>1, <1>2, <1>4, <1>5, FrameKeeps DEF Frame, TypeOK

LEMMA PlaceStep == PlaceInv /\ [Next]_vars => PlaceInv'
<1> SUFFICES ASSUME PlaceInv, [Next]_vars PROVE PlaceInv'
  OBVIOUS
<1>1. CASE UNCHANGED vars
  <2>1. UNCHANGED <<pc, total, add, len, buf, pkg_count, ret, bulkin_count, user_data, stored,
                    xferBulkIn, arrived, xferBulkOut, toSend, answers, force_stop, seen>>
    BY <1>1 DEF vars, loop, shared, usb
  <2>2. TypeOK' /\ StoredInPlace' /\ (pc = "wait" => InChunk') /\ (pc \in {"chunk", "deselect"} => Between')
    BY <2>1 DEF PlaceInv, TypeOK, StoredInPlace, InChunk, Between, OnTheWay, Got, ChunkStart, Left
  <2>3. QED
    BY <2>1, <2>2 DEF PlaceInv
<1>2. QED
  BY <1>1, ChunkKeeps, PacketComes, ErrorComes, DeselectKeeps, ClockKeeps, CompletionKeeps,
     OthersKeep DEF Next, ch341SpiRead, Libusb

\* TypeOK: among others the counter stays between -1 and the number of packets.
THEOREM TypeCorrect == Spec => []TypeOK
<1>1. PlaceInv => TypeOK
  BY DEF PlaceInv
<1>2. QED
  BY <1>1, PlaceInit, PlaceStep, PTL DEF Spec

\* StoredInPlace: for every packet length, number of packets and length, and
\* whatever fails or is interrupted, the callbacks fill the buffer from its start
\* without a hole, each byte at its place, and never past its end.
THEOREM BytesInPlace == Spec => []StoredInPlace
<1>1. PlaceInv => StoredInPlace
  BY DEF PlaceInv
<1>2. QED
  BY <1>1, PlaceInit, PlaceStep, PTL DEF Spec

-----------------------------------------------------------------------------
(* A read that nothing disturbs. *)

\* The buffer is filled by whole chunks.
WholeChunks == \E i \in Nat : buf = i * max_payload

\* The last packet of the running chunk has no payload.
Hollow == len = 0 /\ LastPacketFull

\* Every packet of the running chunk is still to be sent, waits in the bridge or has
\* come in, and brings something, but for a last one without a payload: it brings
\* nothing, and when only that is left to wait for the time-out may strike.
AllComing ==
  /\ xferBulkIn \in {"pending", "done", "error"}
  /\ xferBulkIn = "error" => Hollow /\ bulkin_count = pkg_count - 1
  /\ toSend # << >> => xferBulkOut
  /\ \A j \in 1 .. Len(toSend) : HasPayload(toSend[j]) \/ (Hollow /\ j = Len(toSend))
  /\ Hollow /\ toSend # << >> => ~HasPayload(toSend[Len(toSend)])
  /\ Got + Len(answers) + Len(toSend) =
       IF Hollow /\ toSend = << >> THEN pkg_count - 1 ELSE pkg_count

\* What holds as long as nothing has failed and nobody has interrupted.
Undisturbed ==
  /\ ~force_stop
  /\ pc = "wait" => AllComing
  /\ pc \in {"chunk", "deselect"} /\ len = 0 => user_data = total - Lost
  /\ pc = "returned" => user_data = total - Lost

WholeInv ==
  /\ WholeChunks
  /\ pc = "wait" => pkg_count = PkgCount(Left)
  /\ seen = {} => Undisturbed

\* What is left behind whole chunks, when it fits one chunk, is the last chunk.
LEMMA LastPart ==
  ASSUME NEW i \in Nat, NEW n \in Nat, n > 0, total = i * max_payload + n, n <= max_payload
  PROVE  LastChunk = n
<1>1. max_payload \in Nat /\ max_payload >= 1
  BY Sizes
<1>2. CASE n = max_payload
  <2>1. total = (i + 1) * max_payload + 0 /\ i + 1 \in Nat /\ 0 < max_payload
    BY <1>1, <1>2
  <2>2. total % max_payload = 0
    <3> DEFINE q == i + 1
               d == max_payload
    <3>1. total = q * d + 0 /\ q \in Nat /\ d \in Nat /\ 0 < d
      BY <1>1, <2>1
    <3> HIDE DEF q, d
    <3>4. 0 \in Nat /\ (q * d + 0) % d = 0
      BY <3>1, Quotient
    <3>2. total % d = 0
      BY <3>1, <3>4
    <3>3. QED
      BY <3>2 DEF d
  <2>3. QED
    BY <1>2, <2>2 DEF LastChunk
<1>3. CASE n < max_payload
  <2>1. total % max_payload = n
    <3> DEFINE d == max_payload
    <3>1. d \in Nat /\ n < d /\ total = i * d + n
      BY <1>1, <1>3
    <3> HIDE DEF d
    <3>2. total % d = n
      BY <3>1, Quotient
    <3>3. QED
      BY <3>2 DEF d
  <2>2. QED
    BY <2>1 DEF LastChunk
<1>4. QED
  BY <1>1, <1>2, <1>3

\* A chunk behind whole chunks ends with a packet without a payload exactly if it is
\* the last one and LastPacketFull.
LEMMA HollowChunk ==
  ASSUME WholeChunks, NEW n \in Nat, n > 0, total = buf + n, n <= max_payload
  PROVE  LastChunk = n /\ (LastPacketFull <=> ~Filling(n))
<1>1. PICK i \in Nat : buf = i * max_payload
  BY DEF WholeChunks
<1>2. LastChunk = n
  BY <1>1, LastPart
<1>3. ~(n > max_payload)
  BY Sizes
<1>4. QED
  BY <1>2, <1>3 DEF LastPacketFull, Filling

LEMMA WholeInit == Init => WholeInv
<1> SUFFICES ASSUME Init PROVE WholeInv
  OBVIOUS
<1>1. 0 = 0 * max_payload
  BY Sizes
<1>2. WholeChunks
  BY <1>1 DEF Init, WholeChunks
<1>3. seen = {} => ~force_stop
  BY DEF Init
<1>4. total = 0 => Lost = 0
  BY DEF Lost
<1>5. QED
  BY <1>2, <1>3, <1>4 DEF Init, WholeInv, Undisturbed

LEMMA WholeChunksStep ==
  ASSUME WholeChunks, [Next]_vars
  PROVE  WholeChunks'
<1>1. PICK i \in Nat : buf = i * max_payload
  BY DEF WholeChunks
<1>2. CASE Chunk
  <2>1. i * max_payload + max_payload = (i + 1) * max_payload /\ i + 1 \in Nat
    BY Sizes
  <2>2. buf' = (i + 1) * max_payload
    BY <1>1, <1>2, <2>1 DEF Chunk
  <2>3. QED
    BY <2>1, <2>2 DEF WholeChunks
<1>3. CASE ~Chunk
  <2>1. buf' = buf
    BY <1>3 DEF Next, ch341SpiRead, Libusb, cbBulkIn, cbBulkInError, Deselect, Return, ClockPacket,
       cbBulkOut, InCompletes, InTimesOut, InFails, OutFails, sig_int, vars, loop
  <2>2. QED
    BY <1>1, <2>1 DEF WholeChunks
<1>4. QED
  BY <1>2, <1>3

\* Every packet of the new chunk is on its way.
LEMMA ChunkComing ==
  ASSUME PlaceInv, Quiet, WholeChunks, seen = {}, seen' = {}, Chunk
  PROVE  AllComing'
<1>1. /\ len \in Nat /\ len > 0 /\ total = buf + len /\ add \in Nat /\ answers = << >>
      /\ ~xferBulkOut
  BY DEF PlaceInv, TypeOK, Between, Quiet, Chunk
<1> DEFINE ps == PacketsOf(StreamLength(len), add)
           c == PkgCount(len)
<1>2. Hollow' <=> ~Filling(len)
  <2>1. LastPacketFull' <=> LastPacketFull
    BY DEF Chunk, LastPacketFull, LastChunk
  <2>2. CASE len > max_payload
    <3>1. len' > 0
      BY <1>1, <2>2, Sizes DEF Chunk
    <3>2. QED
      BY <2>2, <3>1 DEF Hollow, Filling
  <2>3. CASE ~(len > max_payload)
    <3>1. len' = 0 /\ len <= max_payload
      BY <1>1, <2>3, Sizes DEF Chunk
    <3>2. LastPacketFull <=> ~Filling(len)
      BY <1>1, <3>1, HollowChunk
    <3>3. QED
      BY <2>1, <3>1, <3>2 DEF Hollow
  <2>4. QED
    BY <2>2, <2>3
<1>3. /\ c \in Nat /\ c >= 1 /\ Len(ps) = c
      /\ \A k \in 1 .. c : IsPacket(ps[k], k, c, Part(len), add)
      /\ Filling(len) <=> HasPayload(ps[c])
  <2>1. /\ c \in 1 .. MaxPackets - 1 /\ Len(ps) = c
        /\ \A k \in 1 .. c : IsPacket(ps[k], k, c, Part(len), add)
    BY <1>1, ChunkPackets
  <2>2. Filling(len) <=> HasPayload(ps[c])
    BY <1>1, ChunkPackets
  <2>3. c \in Nat /\ c >= 1
    BY <2>1, Sizes
  <2>4. QED
    BY <2>1, <2>2, <2>3
<1>4. /\ toSend' = ps /\ pkg_count' = c /\ xferBulkIn' = "pending" /\ xferBulkOut'
      /\ answers' = << >> /\ bulkin_count' = 0
  <2>1. PICK refused \in SUBSET (Faults \cap {"in_submit", "out_submit"}) :
          /\ xferBulkIn' = IF "in_submit" \in refused THEN "idle" ELSE "pending"
          /\ xferBulkOut' = (xferBulkOut \/ "out_submit" \notin refused)
          /\ toSend' = IF xferBulkOut \/ "out_submit" \in refused THEN toSend
                       ELSE PacketsOf(StreamLength(len), add)
          /\ seen' = seen \cup refused
    BY DEF Chunk, SubmitBoth
  <2>2. refused = {}
    BY <2>1
  <2>3. QED
    BY <1>1, <2>1, <2>2 DEF Chunk
<1> HIDE DEF ps, c
<1>5. ASSUME NEW j \in 1 .. c PROVE HasPayload(ps[j]) \/ (Hollow' /\ j = c)
  <2>1. CASE j = c
    BY <1>2, <1>3, <2>1
  <2>2. CASE j < c
    <3>1. ps[j].first = (j - 1) * Payload /\ ps[j].last = j * Payload - 1
      BY <1>3, <2>2 DEF IsPacket
    <3>2. (j - 1) * Payload <= j * Payload - 1
      BY <1>3, Sizes
    <3>3. QED
      BY <3>1, <3>2 DEF HasPayload
  <2>3. QED
    BY <1>3, <2>1, <2>2
<1>6. toSend' # << >>
  BY <1>3, <1>4
<1>7. Got' + Len(answers') + Len(toSend') = pkg_count'
  BY <1>3, <1>4 DEF Got
<1>8. Hollow' => ~HasPayload(toSend'[Len(toSend')])
  BY <1>2, <1>3, <1>4
<1>9. QED
  BY <1>3, <1>4, <1>5, <1>6, <1>7, <1>8 DEF AllComing

\* What AllComing says of the lengths, as numbers.
LEMMA ComingTypes ==
  ASSUME PlaceInv, pc = "wait", AllComing
  PROVE  /\ Got \in Nat /\ bulkin_count \in Nat /\ pkg_count \in Nat /\ bulkin_count < pkg_count
         /\ toSend \in Seq(Packets) /\ answers \in Seq(Packets)
         /\ Len(toSend) \in Nat /\ Len(answers) \in Nat
<1>1. TypeOK /\ InChunk
  BY DEF PlaceInv
<1>2. bulkin_count \in 0 .. pkg_count - 1 /\ pkg_count \in 1 .. MaxPackets - 1 /\ MaxPackets \in Nat
  BY <1>1, Sizes DEF InChunk
<1>3. toSend \in Seq(Packets) /\ answers \in Seq(Packets)
  BY <1>1 DEF TypeOK
<1>4. QED
  BY <1>2, <1>3 DEF Got

LEMMA BridgeComing ==
  ASSUME PlaceInv, pc = "wait", AllComing,
         ClockPacket \/ cbBulkOut \/ InCompletes
  PROVE  AllComing'
<1>1. /\ Got \in Nat /\ bulkin_count \in Nat /\ pkg_count \in Nat
      /\ toSend \in Seq(Packets) /\ answers \in Seq(Packets)
      /\ Len(toSend) \in Nat /\ Len(answers) \in Nat
  BY ComingTypes
<1>2. /\ xferBulkIn \in {"pending", "done", "error"}
      /\ xferBulkIn = "error" => Hollow /\ bulkin_count = pkg_count - 1
      /\ toSend # << >> => xferBulkOut
      /\ \A j \in 1 .. Len(toSend) : HasPayload(toSend[j]) \/ (Hollow /\ j = Len(toSend))
      /\ Hollow /\ toSend # << >> => ~HasPayload(toSend[Len(toSend)])
      /\ Got + Len(answers) + Len(toSend) =
           IF Hollow /\ toSend = << >> THEN pkg_count - 1 ELSE pkg_count
  BY DEF AllComing
<1>3. Hollow' <=> Hollow
  BY DEF Hollow, LastPacketFull, LastChunk, ClockPacket, cbBulkOut, InCompletes, loop
<1>4. CASE ClockPacket
  <2>1. toSend # << >>
    BY <1>4 DEF ClockPacket
  <2>2. /\ Head(toSend) = toSend[1] /\ Head(toSend) \in Packets
        /\ Tail(toSend) \in Seq(Packets)
        /\ Len(Tail(toSend)) = Len(toSend) - 1 /\ Len(toSend) >= 1
        /\ \A j \in 1 .. Len(toSend) - 1 : Tail(toSend)[j] = toSend[j + 1]
    BY <1>1, <2>1, HeadTail
  <2>3. /\ toSend' = Tail(toSend)
        /\ answers' = IF HasPayload(Head(toSend)) THEN Append(answers, Head(toSend)) ELSE answers
        /\ UNCHANGED <<xferBulkIn, xferBulkOut, bulkin_count, pkg_count>>
    BY <1>4, <2>2 DEF ClockPacket, loop, shared, HasPayload, Packets
  <2>4. Got' = Got
    BY <2>3 DEF Got
  <2>5. \A j \in 1 .. Len(toSend') : HasPayload(toSend'[j]) \/ (Hollow' /\ j = Len(toSend'))
    <3>1. SUFFICES ASSUME NEW j \in 1 .. Len(toSend')
                   PROVE  HasPayload(toSend'[j]) \/ (Hollow' /\ j = Len(toSend'))
      OBVIOUS
    <3>2. j + 1 \in 1 .. Len(toSend) /\ toSend'[j] = toSend[j + 1] /\ Len(toSend') = Len(toSend) - 1
      BY <1>1, <2>2, <2>3
    <3>3. HasPayload(toSend[j + 1]) \/ (Hollow /\ j + 1 = Len(toSend))
      BY <1>2, <3>2
    <3>4. j + 1 = Len(toSend) => j = Len(toSend')
      BY <1>1, <3>2
    <3>5. QED
      BY <1>3, <3>2, <3>3, <3>4
  <2>6. Hollow' /\ toSend' # << >> => ~HasPayload(toSend'[Len(toSend')])
    <3>1. SUFFICES ASSUME Hollow, toSend' # << >> PROVE ~HasPayload(toSend'[Len(toSend')])
      BY <1>3
    <3>2. Len(toSend') >= 1 /\ Len(toSend') = Len(toSend) - 1
      BY <2>2, <2>3, <3>1
    <3>3. toSend'[Len(toSend')] = toSend[Len(toSend)]
      BY <1>1, <2>2, <2>3, <3>2
    <3>4. QED
      BY <1>2, <2>1, <3>1, <3>3
  <2>7. Got' + Len(answers') + Len(toSend') =
          IF Hollow' /\ toSend' = << >> THEN pkg_count' - 1 ELSE pkg_count'
    <3>1. Len(toSend') = Len(toSend) - 1 /\ pkg_count' = pkg_count
      BY <2>2, <2>3
    <3>2. Got + Len(answers) + Len(toSend) = pkg_count
      BY <1>2, <2>1
    <3>3. toSend' = << >> <=> Len(toSend) = 1
      <4>1. toSend' = << >> <=> Len(toSend') = 0
        <5>1. toSend' \in Seq(Packets)
          BY <2>2, <2>3
        <5>2. QED
          BY <5>1
      <4>2. QED
        BY <1>1, <3>1, <4>1
    <3>4. CASE Hollow /\ Len(toSend) = 1
      <4>1. ~HasPayload(Head(toSend))
        BY <1>2, <2>1, <2>2, <3>4
      <4>2. Len(answers') = Len(answers)
        BY <2>3, <4>1
      <4>3. Got + Len(answers) + (Len(toSend) - 1) = pkg_count - 1
        BY <1>1, <3>2
      <4>4. QED
        BY <1>3, <2>4, <3>1, <3>3, <3>4, <4>2, <4>3
    <3>5. CASE ~(Hollow /\ Len(toSend) = 1)
      <4>1. HasPayload(Head(toSend))
        <5>1. 1 \in 1 .. Len(toSend)
          BY <1>1, <2>2
        <5>2. HasPayload(toSend[1]) \/ (Hollow /\ 1 = Len(toSend))
          BY <1>2, <5>1
        <5>3. QED
          BY <2>2, <3>5, <5>2
      <4>2. Len(answers') = Len(answers) + 1
        BY <1>1, <2>2, <2>3, <4>1
      <4>3. Got + (Len(answers) + 1) + (Len(toSend) - 1) = pkg_count
        BY <1>1, <3>2
      <4>4. QED
        BY <1>3, <2>4, <3>1, <3>3, <3>5, <4>2, <4>3
    <3>6. QED
      BY <3>4, <3>5
  <2>8. QED
    BY <1>2, <1>3, <2>1, <2>3, <2>5, <2>6, <2>7 DEF AllComing
<1>5. CASE cbBulkOut
  <2>1. /\ toSend = << >> /\ UNCHANGED <<xferBulkIn, toSend, answers, bulkin_count, pkg_count>>
    BY <1>5 DEF cbBulkOut, loop, shared
  <2>2. Got' = Got
    BY <2>1 DEF Got
  <2>3. QED
    BY <1>2, <1>3, <2>1, <2>2 DEF AllComing
<1>6. CASE InCompletes
  <2>1. /\ xferBulkIn = "pending" /\ xferBulkIn' = "done" /\ answers # << >>
        /\ answers' = Tail(answers)
        /\ UNCHANGED <<toSend, xferBulkOut, bulkin_count, pkg_count>>
    BY <1>6 DEF InCompletes, loop, shared
  <2>2. Len(answers') = Len(answers) - 1
    BY <1>1, <2>1, HeadTail
  <2>3. Got' = Got + 1
    BY <2>1 DEF Got
  <2>4. Got' + Len(answers') + Len(toSend') =
          IF Hollow' /\ toSend' = << >> THEN pkg_count' - 1 ELSE pkg_count'
    <3>1. (Got + 1) + (Len(answers) - 1) + Len(toSend) = Got + Len(answers) + Len(toSend)
      BY <1>1
    <3>2. QED
      BY <1>2, <1>3, <2>1, <2>2, <2>3, <3>1
  <2>5. QED
    BY <1>2, <1>3, <2>1, <2>4 DEF AllComing
<1>7. QED
  BY <1>4, <1>5, <1>6

\* While packets are on their way the time-out cannot strike: it strikes when only a
\* packet without a payload is waited for.
LEMMA TimesOutHollow ==
  ASSUME PlaceInv, pc = "wait", AllComing, InTimesOut
  PROVE  AllComing'
<1>1. xferBulkIn = "pending" /\ answers = << >> /\ toSend = << >> /\ xferBulkIn' = "error"
  BY DEF InTimesOut, AllComing
<1>2. Got = bulkin_count /\ Len(answers) = 0 /\ Len(toSend) = 0
  BY <1>1 DEF Got
<1>3. bulkin_count \in Nat /\ pkg_count \in Nat /\ bulkin_count < pkg_count
  BY ComingTypes
<1>4. bulkin_count + 0 + 0 = IF Hollow THEN pkg_count - 1 ELSE pkg_count
  BY <1>1, <1>2 DEF AllComing
<1>5. Hollow /\ bulkin_count = pkg_count - 1
  BY <1>3, <1>4
<1>6. Hollow' /\ Got' = bulkin_count
  BY <1>1, <1>5 DEF InTimesOut, Hollow, LastPacketFull, LastChunk, loop, shared, Got
<1>7. UNCHANGED <<toSend, answers, bulkin_count, pkg_count>>
  BY DEF InTimesOut, loop, shared
<1>8. QED
  BY <1>1, <1>2, <1>3, <1>5, <1>6, <1>7 DEF AllComing

\* When the time-out strikes, all has come but the bytes of the last packet.
LEMMA TimeOutWhole ==
  ASSUME PlaceInv, WholeInv, Undisturbed, cbBulkInError
  PROVE  Undisturbed'
<1>1. /\ pc = "wait" /\ xferBulkIn = "error" /\ pc' = "deselect" /\ len' = 0
      /\ UNCHANGED <<total, user_data, force_stop>>
  BY DEF cbBulkInError
<1>2. /\ len = 0 /\ LastPacketFull /\ bulkin_count = pkg_count - 1
  BY <1>1 DEF Undisturbed, AllComing, Hollow
<1>3. /\ ChunkStart \in Nat /\ Left \in Nat /\ Left > 0 /\ Left <= max_payload
      /\ total \in Nat /\ total = ChunkStart + Left /\ pkg_count = PkgCount(Left)
      /\ buf \in Nat
  BY <1>1, <1>2 DEF PlaceInv, InChunk, TypeOK, WholeInv, Left
<1>4. max_payload \in Nat /\ max_payload >= 1 /\ Payload \in Nat /\ Payload >= 5
  BY Sizes
<1>5. LastChunk = Left
  <2>1. PICK i \in Nat : buf = i * max_payload
    BY DEF WholeInv, WholeChunks
  <2>2. i # 0
    BY <1>3, <1>4, <2>1 DEF ChunkStart
  <2>3. i - 1 \in Nat /\ ChunkStart = (i - 1) * max_payload
    BY <1>3, <1>4, <2>1, <2>2 DEF ChunkStart
  <2>4. QED
    BY <1>3, <2>3, LastPart
<1> DEFINE m == Left + 4
<1>6. m = PkgCount(Left) * Payload
  <2>1. m % Payload = 0 /\ m \in Nat
    BY <1>2, <1>3, <1>5 DEF LastPacketFull
  <2>2. m = (m \div Payload) * Payload + (m % Payload) /\ m \div Payload \in Nat
    BY <1>4, <2>1, Division
  <2>3. PkgCount(Left) = m \div Payload
    BY <1>3, <1>4, <2>1, <2>2 DEF PkgCount
  <2>4. QED
    BY <1>4, <2>1, <2>2, <2>3
<1>7. user_data = total - Lost
  <2>1. /\ user_data = IF bulkin_count = 0 THEN ChunkStart
                       ELSE ChunkStart + bulkin_count * Payload - 4
        /\ pkg_count \in Nat
    BY <1>1, Sizes DEF PlaceInv, InChunk
  <2>2. Lost = IF Left < Payload THEN Left ELSE Payload
    <3>1. total # 0
      BY <1>3
    <3>2. QED
      BY <1>2, <1>5, <3>1 DEF Lost
  <2>3. m = pkg_count * Payload
    BY <1>3, <1>6
  <2>4. CASE bulkin_count = 0
    <3>1. pkg_count = 1
      BY <1>2, <2>1, <2>4
    <3>2. Left + 4 = Payload
      BY <1>4, <2>3, <3>1
    <3>3. QED
      BY <1>3, <1>4, <2>1, <2>2, <2>4, <3>2
  <2>5. CASE bulkin_count # 0
    <3>1. bulkin_count * Payload = m - Payload
      BY <1>2, <1>4, <2>1, <2>3
    <3>2. user_data = ChunkStart + Left - Payload
      BY <1>3, <1>4, <2>1, <2>5, <3>1
    <3>3. Left >= Payload
      <4>1. bulkin_count \in Nat /\ bulkin_count >= 1 /\ pkg_count >= 2
        BY <1>2, <2>1, <2>5, <1>1 DEF PlaceInv, InChunk
      <4>2. 2 * Payload <= pkg_count * Payload
        BY <1>4, <2>1, <4>1, Monotone
      <4>3. QED
        BY <1>3, <1>4, <2>3, <4>2
    <3>4. QED
      BY <1>3, <1>4, <2>2, <3>2, <3>3
  <2>6. QED
    BY <2>4, <2>5
<1>8. Lost' = Lost
  BY <1>1 DEF Lost, LastPacketFull, LastChunk
<1>9. QED
  BY <1>1, <1>7, <1>8 DEF Undisturbed

LEMMA PacketWhole ==
  ASSUME PlaceInv, Undisturbed, seen' = {}, cbBulkIn
  PROVE  Undisturbed'
<1>1. /\ pc = "wait" /\ xferBulkIn = "done" /\ bulkin_count' = bulkin_count + 1
      /\ UNCHANGED <<total, len, buf, pkg_count, xferBulkOut, toSend, answers, force_stop>>
      /\ IF bulkin_count' # pkg_count THEN xferBulkIn' = "pending" /\ pc' = pc
                                       ELSE xferBulkIn' = "idle" /\ pc' = "deselect"
  BY DEF cbBulkIn, Resubmit
<1>2. AllComing /\ ~force_stop
  BY <1>1 DEF Undisturbed
<1>3. Lost' = Lost /\ (Hollow' <=> Hollow)
  BY <1>1 DEF Lost, Hollow, LastPacketFull, LastChunk
<1>4. CASE bulkin_count' # pkg_count
  <2>1. pc' = "wait" /\ xferBulkIn' = "pending"
    BY <1>1, <1>4
  <2>2. Got' = Got
    BY <1>1, <2>1 DEF Got
  <2>3. AllComing'
    BY <1>1, <1>2, <1>3, <2>1, <2>2 DEF AllComing
  <2>4. QED
    BY <1>1, <1>2, <2>1, <2>3 DEF Undisturbed
<1>5. CASE bulkin_count' = pkg_count
  <2>1. pc' = "deselect"
    BY <1>1, <1>5
  <2>2. user_data' = ChunkStart + Part(Left)
    BY <1>1, <1>5, PacketComes
  <2>3. len = 0 => ChunkStart + Part(Left) = total
    <3>1. InChunk /\ total \in Nat
      BY <1>1 DEF PlaceInv
    <3>2. len = 0 => Part(Left) = Left
      BY <3>1, Sizes DEF InChunk, Part
    <3>3. ChunkStart + Left = total
      BY <3>1 DEF InChunk, Left
    <3>4. QED
      BY <3>2, <3>3
  <2>4. ~Hollow
    <3>1. /\ Got = pkg_count /\ pkg_count \in Nat
          /\ toSend \in Seq(Packets) /\ Len(toSend) \in Nat /\ Len(answers) \in Nat
      BY <1>1, <1>2, <1>5, ComingTypes DEF Got
    <3>2. Got + Len(answers) + Len(toSend) =
            IF Hollow /\ toSend = << >> THEN pkg_count - 1 ELSE pkg_count
      BY <1>2 DEF AllComing
    <3>3. Len(toSend) = 0
      BY <3>1, <3>2
    <3>4. toSend = << >>
      BY <3>1, <3>3
    <3>5. QED
      BY <3>1, <3>2, <3>4
  <2>5. len = 0 => Lost = 0
    BY <2>4 DEF Hollow, Lost
  <2>6. total \in Nat
    BY DEF PlaceInv
  <2>7. QED
    BY <1>1, <1>2, <1>3, <2>1, <2>2, <2>3, <2>5, <2>6 DEF Undisturbed
<1>6. QED
  BY <1>4, <1>5

LEMMA CountedStep ==
  ASSUME PlaceInv, Quiet, pc = "wait" => pkg_count = PkgCount(Left), [Next]_vars, pc' = "wait"
  PROVE  pkg_count' = PkgCount(Left')
<1>1. CASE Chunk
  <2>1. len \in Nat /\ len > 0 /\ total = buf + len /\ buf \in Nat /\ total \in Nat
    BY <1>1 DEF PlaceInv, TypeOK, Between, Chunk
  <2>2. Left' = len
    BY <1>1, <2>1, Sizes DEF Chunk, Left, ChunkStart
  <2>3. QED
    BY <1>1, <2>2 DEF Chunk
<1>2. CASE ~Chunk
  <2>1. pc = "wait" /\ UNCHANGED <<pkg_count, total, buf>>
    BY <1>2 DEF Next, ch341SpiRead, Libusb, cbBulkIn, cbBulkInError, Deselect, Return, ClockPacket,
       cbBulkOut, InCompletes, InTimesOut, InFails, OutFails, sig_int, vars, loop
  <2>2. Left' = Left
    BY <2>1 DEF Left, ChunkStart
  <2>3. QED
    BY <2>1, <2>2
<1>3. QED
  BY <1>1, <1>2

LEMMA WholeStep == PlaceInv /\ Quiet /\ WholeInv /\ [Next]_vars => WholeInv'
<1> SUFFICES ASSUME PlaceInv, Quiet, WholeInv, [Next]_vars PROVE WholeInv'
  OBVIOUS
<1>1. WholeChunks /\ WholeChunks'
  BY WholeChunksStep DEF WholeInv
<1>2. pc' = "wait" => pkg_count' = PkgCount(Left')
  BY CountedStep DEF WholeInv
<1>3. SUFFICES ASSUME seen' = {} PROVE Undisturbed'
  BY <1>1, <1>2 DEF WholeInv
<1>4. seen = {} /\ total' = total
  BY <1>3 DEF Next, ch341SpiRead, Libusb, Chunk, SubmitBoth, cbBulkIn, Resubmit, cbBulkInError,
     Deselect, Return, ClockPacket, cbBulkOut, InCompletes, InTimesOut, InFails, OutFails, sig_int,
     vars, loop
<1>5. Undisturbed /\ Lost' = Lost
  BY <1>4 DEF WholeInv, Lost, LastPacketFull, LastChunk
<1>6. CASE Chunk
  <2>1. AllComing'
    BY <1>1, <1>3, <1>4, <1>6, ChunkComing
  <2>2. pc' = "wait" /\ force_stop' = force_stop
    BY <1>6 DEF Chunk
  <2>3. QED
    BY <1>5, <2>1, <2>2 DEF Undisturbed
<1>7. CASE cbBulkIn
  BY <1>3, <1>5, <1>7, PacketWhole
<1>8. CASE cbBulkInError
  BY <1>5, <1>8, TimeOutWhole
<1>9. CASE Deselect
  <2>1. pc = "deselect" /\ pc' = "chunk" /\ ~force_stop' /\ UNCHANGED <<total, len, user_data>>
    BY <1>5, <1>9 DEF Deselect, Undisturbed, shared
  <2>2. QED
    BY <1>5, <2>1 DEF Undisturbed
<1>10. CASE Return
  <2>1. /\ pc = "chunk" /\ len = 0 /\ pc' = "returned"
        /\ UNCHANGED <<total, len, user_data, force_stop>>
    BY <1>10 DEF Return, shared
  <2>2. QED
    BY <1>5, <2>1 DEF Undisturbed
<1>11. CASE ClockPacket \/ cbBulkOut \/ InCompletes
  <2>1. UNCHANGED <<pc, total, len, user_data, force_stop>>
    BY <1>11 DEF ClockPacket, cbBulkOut, InCompletes, loop, shared
  <2>2. pc = "wait" => AllComing'
    BY <1>5, <1>11, BridgeComing DEF Undisturbed
  <2>3. QED
    BY <1>5, <2>1, <2>2 DEF Undisturbed
<1>12. CASE InTimesOut
  <2>1. pc = "wait" /\ UNCHANGED <<pc, force_stop>>
    BY <1>12 DEF InTimesOut, Quiet, loop
  <2>2. AllComing'
    BY <1>5, <1>12, <2>1, TimesOutHollow DEF Undisturbed
  <2>3. QED
    BY <1>5, <2>1, <2>2 DEF Undisturbed
<1>13. CASE InFails \/ OutFails \/ sig_int
  BY <1>3, <1>13 DEF InFails, OutFails, sig_int
<1>14. CASE UNCHANGED vars
  <2>1. UNCHANGED <<pc, total, len, user_data, force_stop, xferBulkIn, toSend, xferBulkOut,
                    answers, bulkin_count, pkg_count>>
    BY <1>14 DEF vars, loop, shared, usb
  <2>2. Got' = Got /\ (Hollow' <=> Hollow)
    BY <2>1 DEF Got, Hollow, LastPacketFull, LastChunk
  <2>3. QED
    BY <1>5, <2>1, <2>2 DEF Undisturbed, AllComing
<1>15. QED
  BY <1>6, <1>7, <1>8, <1>9, <1>10, <1>11, <1>12, <1>13, <1>14 DEF Next, ch341SpiRead, Libusb

\* ReadWhole: for every packet length, number of packets and length, a read that
\* nothing disturbs returns with the whole buffer filled, or, if its last chunk ends
\* with a full packet, with all but the bytes of that packet.
THEOREM WholeRead == Spec => []ReadWhole
<1>1. Init => Quiet
  BY DEF Init, Quiet
<1>2. PlaceInv /\ WholeInv => ReadWhole
  BY DEF PlaceInv, StoredInPlace, WholeInv, Undisturbed, ReadWhole
<1>3. QED
  BY <1>1, <1>2, QuietStep, PlaceInit, PlaceStep, WholeInit, WholeStep, PTL DEF Spec
=============================================================================
