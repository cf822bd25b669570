------------------------------ MODULE HexImage -------------------------------
(***************************************************************************)
(* What the HEX library makes of a parsed record set:                      *)
(* ihex_rs_get_address_range walks over its data records with              *)
(* ihex_rs_iterate_data, which keeps the offset of the last extended       *)
(* address record; ihex_mem_copy, with or without such a walk before it,   *)
(* does the same and stores them, as words of 16 bits, in a buffer of n    *)
(* bytes.                                                                  *)
(***************************************************************************)
EXTENDS HexParser

CONSTANTS
  n,           \* the size of the buffer
  UINT32_MAX   \* the largest address, and the start value of the lowest

ASSUME ImageAssumption == n \in Nat /\ UINT32_MAX \in Nat /\ n <= UINT32_MAX

VARIABLES
  pass,    \* "parse", "parsed"; a walk: "range", "copy"; behind it: "ranged",
           \* "copied", "failed"
  next,    \* *i of iterate_data: records already seen
  offset,  \* the offset that iterate_data keeps
  min, max,  \* the address range
  dst,     \* the buffer
  top      \* the end of the highest store

image == <<pass, next, offset, min, max, dst, top>>
vars == <<parser, image>>

TypeOK ==
  /\ ParserTypeOK
  /\ pass \in {"parse", "parsed", "range", "ranged", "copy", "copied", "failed"}
  /\ next \in 0 .. Len(records)
  /\ offset \in Nat
  /\ min \in Nat /\ max \in Nat
  /\ dst \in [0 .. n - 1 -> HexByte]
  /\ top \in Nat

-----------------------------------------------------------------------------
(* ihex_rs_iterate_data *)

\* The records whose bodies it does not hand out.
Skipped == {IHEX_ESA, IHEX_SSA, IHEX_ELA, IHEX_SLA}

\* The record at which the walk stops, or one more than there are.
Stop ==
  Min({k \in next + 1 .. Len(records) : records[k].type \notin Skipped}
        \cup {Len(records) + 1})

\* The k-th byte of a record, read without a look at its length.
DataByte(rec, k) == IF k <= Len(rec.data) THEN rec.data[k] ELSE beyond[k]

OffsetOf(rec) ==
  IF rec.type = IHEX_ESA THEN DataByte(rec, 1) * 16
  ELSE DataByte(rec, 1) * 16777216 + DataByte(rec, 2) * 65536

\* The offset at the record at which the walk stops.
OffsetAtStop ==
  LET switches == {k \in next + 1 .. Stop - 1 : records[k].type \in {IHEX_ESA, IHEX_ELA}}
  IN IF switches # {} THEN OffsetOf(records[Max(switches)])
     ELSE IF next = 0 THEN 0 ELSE offset

AtData == Stop <= Len(records) /\ records[Stop].type = IHEX_DATA

\* The EOF record, as the last one.
AtEnd == Stop = Len(records) /\ records[Stop].type = IHEX_EOF

Rec == records[Stop]
Address == OffsetAtStop + Rec.address

\* Just behind the record, in the width of an address.
End == (Address + Len(Rec.data)) % (UINT32_MAX + 1)

-----------------------------------------------------------------------------

\* check_flash fills the buffer with 0xff.
Init ==
  /\ ParserInit
  /\ pass = "parse"
  /\ next = 0
  /\ offset = 0
  /\ min = 0
  /\ max = 0
  /\ dst = [a \in 0 .. n - 1 |-> 255]
  /\ top = 0

ihex_rs_from_mem ==
  /\ pass = "parse"
  /\ Parse
  /\ pass' = IF pc' = "accepted" THEN "parsed" ELSE "parse"
  /\ UNCHANGED <<next, offset, min, max, dst, top>>

\* Both walks start with an index and an offset of their own.
ihex_rs_get_address_range ==
  /\ pass = "parsed"
  /\ pass' = "range"
  /\ next' = 0
  /\ offset' = 0
  /\ min' = UINT32_MAX
  /\ max' = 0
  /\ UNCHANGED <<parser, dst, top>>

ihex_mem_copy ==
  /\ pass \in {"parsed", "ranged"}
  /\ pass' = "copy"
  /\ next' = 0
  /\ offset' = 0
  /\ dst' = [a \in DOMAIN dst |-> 0]
  /\ UNCHANGED <<parser, min, max, top>>

\* An EOF record before the last, an unknown type, or no EOF record: the walk ends,
\* and a copy keeps what it has stored.
IterateFails ==
  /\ pass \in {"range", "copy"}
  /\ ~AtData /\ ~AtEnd
  /\ pass' = "failed"
  /\ UNCHANGED <<parser, next, offset, min, max, dst, top>>

\* A faulty IterateEnds: the index is 0 again, and the walk does not end.
IterateEndsAgain ==
  /\ pass \in {"range", "copy"}
  /\ AtEnd
  /\ next' = 0
  /\ UNCHANGED <<parser, pass, offset, min, max, dst, top>>

\* The end of a walk; *i is 0 again.
IterateEnds ==
  /\ pass \in {"range", "copy"}
  /\ AtEnd
  /\ pass' = IF pass = "range" THEN "ranged" ELSE "copied"
  /\ next' = 0
  /\ UNCHANGED <<parser, offset, min, max, dst, top>>

\* A faulty RangeRecord: the highest address is that of the last record.
RangeRecordLast ==
  /\ pass = "range"
  /\ AtData
  /\ next' = Stop
  /\ offset' = OffsetAtStop
  /\ min' = IF Address < min THEN Address ELSE min
  /\ max' = End
  /\ UNCHANGED <<parser, pass, dst, top>>

\* A data record in ihex_rs_get_address_range.
RangeRecord ==
  /\ pass = "range"
  /\ AtData
  /\ next' = Stop
  /\ offset' = OffsetAtStop
  /\ min' = IF Address < min THEN Address ELSE min
  /\ max' = IF End > max THEN End ELSE max
  /\ UNCHANGED <<parser, pass, dst, top>>

\* A faulty Stored: the pointer is to 64 bits.
StoredWide(rec) == IF rec.data = << >> THEN 0 ELSE 2 * ((Len(rec.data) + 1) \div 2) + 6

\* Bytes stored for a record: whole words of 16 bits, through a pointer to 32.
Stored(rec) == IF rec.data = << >> THEN 0 ELSE 2 * ((Len(rec.data) + 1) \div 2) + 2

\* A faulty CopyRecord: the offset is not applied.
CopyRecordNoOffset ==
  /\ pass = "copy"
  /\ AtData
  /\ Rec.address < n
  /\ next' = Stop
  /\ offset' = OffsetAtStop
  /\ dst' = [a \in DOMAIN dst |->
               LET k == a - Rec.address + 1 IN
               IF k \in DOMAIN Rec.data THEN Rec.data[k]
               ELSE IF k \in 1 .. Stored(Rec) THEN 0 ELSE dst[a]]
  /\ top' = Max({top, IF Rec.data = << >> THEN 0 ELSE Rec.address + Stored(Rec)})
  /\ UNCHANGED <<parser, pass, min, max>>

\* A data record in ihex_mem_copy: its bytes and zeros behind them.
CopyRecord ==
  /\ pass = "copy"
  /\ AtData
  /\ Address < n
  /\ next' = Stop
  /\ offset' = OffsetAtStop
  /\ dst' = [a \in DOMAIN dst |->
               LET k == a - Address + 1 IN
               IF k \in DOMAIN Rec.data THEN Rec.data[k]
               ELSE IF k \in 1 .. Stored(Rec) THEN 0 ELSE dst[a]]
  /\ top' = Max({top, IF Rec.data = << >> THEN 0 ELSE Address + Stored(Rec)})
  /\ UNCHANGED <<parser, pass, min, max>>

\* Only where the record begins is compared with the size of the buffer.
OutOfRange ==
  /\ pass = "copy"
  /\ AtData
  /\ Address >= n
  /\ pass' = "failed"
  /\ UNCHANGED <<parser, next, offset, min, max, dst, top>>

Next ==
  \/ ihex_rs_from_mem \/ ihex_rs_get_address_range \/ ihex_mem_copy
  \/ RangeRecord \/ CopyRecord \/ OutOfRange
  \/ IterateFails \/ IterateEnds

Spec == Init /\ [][Next]_vars

-----------------------------------------------------------------------------
(* What the format says, for a record set rs: the base of its k-th record is *)
(* set by the last extended address record before it.                        *)

Word(rec) == 256 * rec.data[1] + rec.data[2]
Base(rs, k) ==
  LET switches == {m \in 1 .. k - 1 : rs[m].type \in {IHEX_ESA, IHEX_ELA}} IN
  IF switches = {} THEN 0
  ELSE LET rec == rs[Max(switches)] IN
       IF rec.type = IHEX_ESA THEN 16 * Word(rec) ELSE 65536 * Word(rec)

DataRecords(rs) == {k \in DOMAIN rs : rs[k].type = IHEX_DATA}
StartOf(rs, k) == Base(rs, k) + rs[k].address
Extent(rs, k) == StartOf(rs, k) .. StartOf(rs, k) + Len(rs[k].data) - 1
Covered(rs) == UNION {Extent(rs, k) : k \in DataRecords(rs)}
ByteAt(rs, a) ==
  LET k == CHOOSE k \in DataRecords(rs) : a \in Extent(rs, k)
  IN rs[k].data[a - StartOf(rs, k) + 1]

\* Extended address records have two bytes, and segments only the value 0: of
\* another one the library uses one byte, as if it were a whole segment.
Understood(rs) ==
  \A k \in DOMAIN rs : rs[k].type \in {IHEX_ESA, IHEX_ELA} =>
    Len(rs[k].data) = 2 /\ (rs[k].type = IHEX_ESA => Word(rs[k]) = 0)

\* Data in ascending order without overlaps.
InOrder(rs) ==
  \A k, m \in DataRecords(rs) :
    k < m => StartOf(rs, k) + Len(rs[k].data) <= StartOf(rs, m)

Usable == Understood(records) /\ EndsWithEof(records)

-----------------------------------------------------------------------------
(* Properties *)

\* The address range is the smallest that holds all data ("large enough to hold
\* all contained data", "just past highest address"), unless the data reaches the
\* last address: what is past it does not fit into 32 bits.
RangeHoldsData ==
  pass = "ranged" /\ Usable /\ Covered(records) # {}
      /\ UINT32_MAX \notin Covered(records) =>
    /\ \A a \in Covered(records) : a \in min .. max - 1
    /\ \E k \in DataRecords(records) : StartOf(records, k) = min
    /\ \E k \in DataRecords(records) : StartOf(records, k) + Len(records[k].data) = max

\* A copy that succeeds puts each byte of a file in ascending order at its
\* address and zeros elsewhere: the zeros stored behind a record never hit data.
CopyIsImage ==
  pass = "copied" /\ Usable /\ InOrder(records) =>
    \A a \in 0 .. n - 1 :
      dst[a] = IF a \in Covered(records) THEN ByteAt(records, a) ELSE 0

\* Nothing is stored behind the buffer while the data ends three bytes before
\* its end; a record that reaches the end itself is followed by zeros outside.
StoredInBuffer ==
  top > n /\ Usable => \E a \in Covered(records) : a + 3 >= n
=============================================================================
