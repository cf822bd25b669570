------------------------------ MODULE HexProofs ------------------------------
(***************************************************************************)
(* What is proved about the HEX library, for every set of texts, every     *)
(* buffer and every EEPROM.                                                *)
(***************************************************************************)
EXTENDS EepromWriter, Recursion, FiniteSetTheorems, TLAPS

-----------------------------------------------------------------------------
(* The walk of the parser. *)

TextTyped == text \in Seq(Chars) /\ beyond \in [1 .. 3 -> Chars]

NoNul == NUL \notin Range(text)

\* The marks before `data'.
Seen == {k \in Marks : k <= data}

\* What holds while the second pass runs, if nothing stopped the first one early.
InWalk ==
  /\ i <= Cardinality(Seen)
  /\ i > 0 /\ data < Len(text) => Chr(data) = IHEX_CHR_RECORDMARK

Walk ==
  /\ TextTyped /\ ParserTypeOK
  /\ pc = "count" => data = 0 /\ i = 0 /\ records = << >> /\ ~spilled
  /\ pc = "parse" => i <= data
  /\ pc # "count" => /\ Len(records) = Cardinality(Marks)
                     /\ \A k \in 1 .. Len(records) : records[k].type # IHEX_DATA => k <= i
  /\ NoNul => /\ ~spilled
              /\ pc = "parse" => InWalk
              /\ pc \in {"finish", "accepted"} => i <= Len(records) \/ records = << >>
  /\ pc = "accepted" /\ records # << >> => Last(records).type = IHEX_EOF

LEMMA Codes ==
  /\ IHEX_DATA = 0 /\ IHEX_EOF = 1 /\ IHEX_DATA \in HexByte
  /\ Chars = 0 .. 20 /\ HexByte = 0 .. 255
BY DEF IHEX_DATA, IHEX_EOF, HexByte, Chars

LEMMA MarksFinite ==
  ASSUME TextTyped
  PROVE  /\ Marks \subseteq 1 .. Len(text) /\ Len(text) \in Nat
         /\ IsFiniteSet(Marks) /\ Cardinality(Marks) \in Nat
<1>1. Marks \subseteq 1 .. Len(text) /\ Len(text) \in Nat
  BY DEF Marks, TextTyped
<1>2. IsFiniteSet(1 .. Len(text))
  BY <1>1, FS_Interval
<1>3. IsFiniteSet(Marks)
  BY <1>1, <1>2, FS_Subset
<1>4. QED
  BY <1>1, <1>3, FS_CardinalityType

\* A character, of the text or right behind it.
LEMMA ChrTyped ==
  ASSUME TextTyped, NEW k \in Nat, k < Len(text) + 3
  PROVE  Chr(k) \in Chars
<1>1. text \in Seq(Chars) /\ Len(text) \in Nat /\ beyond \in [1 .. 3 -> Chars]
  BY DEF TextTyped
<1>2. CASE k < Len(text)
  <2>1. k + 1 \in 1 .. Len(text)
    BY <1>1, <1>2
  <2>2. text[k + 1] \in Chars
    BY <1>1, <2>1
  <2>3. QED
    BY <1>2, <2>2 DEF Chr
<1>3. CASE ~(k < Len(text))
  <2>1. k - Len(text) + 1 \in 1 .. 3
    BY <1>1, <1>3
  <2>2. QED
    BY <1>1, <1>3, <2>1 DEF Chr
<1>4. QED
  BY <1>2, <1>3

LEMMA Hex8Typed ==
  ASSUME TextTyped, NEW k \in Nat, k + 1 < Len(text) + 3
  PROVE  FromHex8(k) \in HexByte
<1>1. Len(text) \in Nat
  BY DEF TextTyped
<1>2. Chr(k) \in Chars
  BY <1>1, ChrTyped
<1>3. k + 1 \in Nat /\ Chr(k + 1) \in Chars
  BY <1>1, ChrTyped
<1>4. FromHex4(k) \in 0 .. 15 /\ FromHex4(k + 1) \in 0 .. 15
  <2> SUFFICES ASSUME NEW m \in {k, k + 1} PROVE FromHex4(m) \in 0 .. 15
    OBVIOUS
  <2> DEFINE c == Chr(m)
  <2>1. c \in 0 .. 20
    BY <1>2, <1>3, Codes
  <2>2. FromHex4(m) = IF c < 16 THEN c ELSE 0
    BY DEF FromHex4
  <2> HIDE DEF c
  <2>3. QED
    BY <2>1, <2>2
<1>5. \A a, b \in 0 .. 15 : 16 * a + b \in 0 .. 255
  OBVIOUS
<1>6. QED
  BY <1>4, <1>5 DEF FromHex8, HexByte

LEMMA TwoBytes == \A a, b \in HexByte : 256 * a + b \in HexWord
<1> SUFFICES ASSUME NEW a \in HexByte, NEW b \in HexByte PROVE 256 * a + b \in HexWord
  OBVIOUS
<1>1. a \in Nat /\ b \in Nat /\ a <= 255 /\ b <= 255
  BY DEF HexByte
<1>2. 256 * a + b \in Nat /\ 256 * a + b <= UINT16_MAX
  BY <1>1 DEF UINT16_MAX
<1>3. UINT16_MAX \in Nat
  BY DEF UINT16_MAX
<1>4. QED
  BY <1>2, <1>3 DEF HexWord

LEMMA MakeRecord ==
  ASSUME NEW t \in HexByte, NEW a \in HexWord, NEW d \in Seq(HexByte)
  PROVE  [type |-> t, address |-> a, data |-> d] \in HexRecord
BY DEF HexRecord

\* A record that ends before the text does.
LEMMA RecordTyped ==
  ASSUME TextTyped, data \in Nat, NEW l \in Nat, data + 9 + 2 * l < Len(text)
  PROVE  Record(l) \in HexRecord
<1>1. Len(text) \in Nat
  BY DEF TextTyped
<1>2. FromHex8(data + 7) \in HexByte
  BY <1>1, Hex8Typed
<1>3. FromHex16(data + 3) \in HexWord
  <2>1. FromHex8(data + 3) \in HexByte /\ FromHex8(data + 3 + 2) \in HexByte
    BY <1>1, Hex8Typed
  <2>2. 256 * FromHex8(data + 3) + FromHex8(data + 3 + 2) \in HexWord
    BY <2>1, TwoBytes
  <2>3. QED
    BY <2>2 DEF FromHex16
<1>4. ASSUME NEW k \in 1 .. l PROVE FromHex8(data + 7 + 2 * k) \in HexByte
  BY <1>1, Hex8Typed
<1>5. [k \in 1 .. l |-> FromHex8(data + 7 + 2 * k)] \in Seq(HexByte)
  BY <1>4
<1> DEFINE d == [k \in 1 .. l |-> FromHex8(data + 7 + 2 * k)]
<1>6. Record(l) = [type |-> FromHex8(data + 7), address |-> FromHex16(data + 3), data |-> d]
  BY DEF Record
<1>7. d \in Seq(HexByte)
  BY <1>5
<1> HIDE DEF d
<1>8. QED
  BY <1>2, <1>3, <1>6, <1>7, MakeRecord

\* The search for a mark stays in the text, and stops at a mark or a NUL.
LEMMA Skipping ==
  ASSUME TextTyped, NEW k \in Nat, k <= Len(text)
  PROVE  /\ SkipToMark(k) \in k .. Len(text)
         /\ SkipToMark(k) < Len(text) =>
              Chr(SkipToMark(k)) \in {IHEX_CHR_RECORDMARK, NUL}
<1> DEFINE stops == {m \in k .. Len(text) - 1 : Chr(m) \in {IHEX_CHR_RECORDMARK, NUL}}
<1>1. Len(text) \in Nat
  BY DEF TextTyped
<1>2. SkipToMark(k) = IF stops = {} THEN Len(text) ELSE Min(stops)
  BY DEF SkipToMark
<1>3. CASE stops = {}
  BY <1>1, <1>2, <1>3
<1>4. CASE stops # {}
  <2>1. stops \in SUBSET Nat
    BY <1>1
  <2>2. Min(stops) \in stops
    BY <1>4, <2>1, MinOf
  <2>3. QED
    BY <1>1, <1>2, <1>4, <2>2
<1>5. QED
  BY <1>3, <1>4

\* In a text without NUL every mark is counted.
LEMMA MarkCounted ==
  ASSUME TextTyped, NoNul, NEW k \in Nat, k < Len(text), Chr(k) = IHEX_CHR_RECORDMARK
  PROVE  k + 1 \in Marks
<1>1. Len(text) \in Nat /\ DOMAIN text = 1 .. Len(text)
  BY DEF TextTyped
<1>2. k + 1 \in DOMAIN text /\ text[k + 1] = IHEX_CHR_RECORDMARK
  BY <1>1 DEF Chr
<1>3. \A m \in DOMAIN text : text[m] # NUL
  BY DEF NoNul, Range
<1>4. QED
  BY <1>1, <1>2, <1>3 DEF Marks

LEMMA WalkInit == ParserInit => Walk
<1> SUFFICES ASSUME ParserInit PROVE Walk
  OBVIOUS
<1>1. TextTyped
  <2>1. PICK s \in Sources : source = s[1] /\ text = s[2]
    BY DEF ParserInit
  <2>2. text \in Seq(Chars)
    BY <2>1, ParserAssumption
  <2>3. beyond \in [1 .. 3 -> Chars]
    BY ParserAssumption DEF ParserInit
  <2>4. QED
    BY <2>2, <2>3 DEF TextTyped
<1>2. ParserTypeOK
  <2>1. Len(text) \in Nat
    BY <1>1 DEF TextTyped
  <2>2. << >> \in Seq(HexRecord)
    OBVIOUS
  <2>3. data = 0 /\ i = 0 /\ records = << >> /\ pc = "count" /\ spilled = FALSE /\ errno = "none"
    BY DEF ParserInit
  <2>4. spilled \in BOOLEAN
    BY <2>3
  <2>5. data \in 0 .. Len(text) /\ i \in 0 .. Len(text)
    BY <2>1, <2>3
  <2>6. QED
    BY <2>2, <2>3, <2>4, <2>5 DEF ParserTypeOK, Errors
<1>3. QED
  BY <1>1, <1>2 DEF ParserInit, Walk

LEMMA CountKeeps ==
  ASSUME Walk, CountMarks
  PROVE  Walk'
<1>1. /\ TextTyped /\ ParserTypeOK /\ data = 0 /\ i = 0 /\ spilled = FALSE
      /\ records' = [k \in 1 .. Cardinality(Marks) |-> Calloc] /\ pc' = "parse"
      /\ UNCHANGED <<source, text, beyond, data, i, spilled, errno>>
  BY DEF Walk, CountMarks, ParserTypeOK
<1>2. Cardinality(Marks) \in Nat /\ Marks' = Marks
  BY <1>1, MarksFinite DEF Marks
<1>3. Calloc \in HexRecord /\ Calloc.type = IHEX_DATA
  <2>1. 0 \in HexWord /\ << >> \in Seq(HexByte)
    BY DEF HexWord, UINT16_MAX
  <2>2. QED
    BY <2>1, Codes, MakeRecord DEF Calloc
<1> DEFINE c == Cardinality(Marks)
           rs == [k \in 1 .. c |-> Calloc]
<1>4. rs \in Seq(HexRecord) /\ Len(rs) = c /\ \A k \in 1 .. c : rs[k] = Calloc
  BY <1>2, <1>3
<1> HIDE DEF rs
<1>5. TextTyped' /\ ParserTypeOK'
  BY <1>1, <1>4 DEF TextTyped, ParserTypeOK, rs
<1>6. /\ Len(records') = Cardinality(Marks')
      /\ \A k \in 1 .. Len(records') : records'[k].type = IHEX_DATA
  BY <1>1, <1>2, <1>3, <1>4 DEF rs
<1>7. Seen \in SUBSET Marks /\ Seen' = Seen
  BY <1>1, <1>2 DEF Seen
<1>8. Cardinality(Seen') \in Nat
  BY <1>1, <1>7, MarksFinite, FS_Subset, FS_CardinalityType
<1>9. InWalk'
  BY <1>1, <1>8 DEF InWalk
<1>10. i' <= data' /\ ~spilled'
  BY <1>1
<1>11. QED
  BY <1>1, <1>5, <1>6, <1>9, <1>10 DEF Walk

\* A round that takes a record without error.
LEMMA Taken ==
  ASSUME ParseRecord, ~(data + 9 + 2 * FromHex8(data + 1) >= Len(text)),
         ParseError(FromHex8(data + 1)) = "none",
         data + 9 + 2 * FromHex8(data + 1) \in Nat, Len(text) \in Nat
  PROVE  /\ records' = [k \in DOMAIN records |->
                           IF k = i' THEN Record(FromHex8(data + 1)) ELSE records[k]]
         /\ data' = SkipToMark(data + 2 * FromHex8(data + 1) + 10)
         /\ pc' = pc
<1> DEFINE l == FromHex8(data + 1)
<1>1. data + 9 + 2 * l < Len(text)
  OBVIOUS
<1>2. Chr(data) = IHEX_CHR_RECORDMARK
  BY DEF ParseError
<1>3. QED
  BY <1>1, <1>2 DEF ParseRecord

\* What is known while a round of the second pass begins.
LEMMA InParse ==
  ASSUME Walk, pc = "parse"
  PROVE  /\ TextTyped /\ ParserTypeOK /\ i <= data
         /\ data \in Nat /\ i \in Nat /\ Len(text) \in Nat /\ data <= Len(text)
         /\ records \in Seq(HexRecord) /\ Len(records) \in Nat
         /\ Len(records) = Cardinality(Marks)
         /\ \A k \in 1 .. Len(records) : records[k].type # IHEX_DATA => k <= i
         /\ NoNul => ~spilled /\ InWalk
BY DEF Walk, ParserTypeOK, TextTyped

\* Where a record ends.
LEMMA RecordEndType ==
  ASSUME Walk, pc = "parse", MoreText, ~Truncated
  PROVE  data + 9 + 2 * FromHex8(data + 1) \in Nat
<1>1. data < Len(text) /\ data + 3 < Len(text) /\ data \in Nat /\ TextTyped
  BY InParse DEF MoreText, Truncated
<1> DEFINE l == FromHex8(data + 1)
<1>2. l \in HexByte
  BY <1>1, Hex8Typed
<1> HIDE DEF l
<1>3. l \in Nat
  BY <1>2 DEF HexByte
<1>4. data + 9 + 2 * l \in Nat
  BY <1>1, <1>3
<1>5. QED
  BY <1>4 DEF l

\* A mark at `data' is one more than those seen.
LEMMA OneMore ==
  ASSUME TextTyped, NoNul, data \in Nat, data < Len(text), Chr(data) = IHEX_CHR_RECORDMARK
  PROVE  /\ Cardinality(Seen) \in Nat
         /\ Cardinality(Seen) + 1 <= Cardinality(Marks)
         /\ \A T \in SUBSET Marks : Seen \cup {data + 1} \subseteq T =>
              Cardinality(Seen) + 1 <= Cardinality(T) /\ Cardinality(T) \in Nat
<1>1. data + 1 \in Marks /\ data + 1 \notin Seen /\ Seen \in SUBSET Marks
  BY MarkCounted DEF Seen
<1>2. IsFiniteSet(Marks) /\ Cardinality(Marks) \in Nat
  BY MarksFinite
<1>3. IsFiniteSet(Seen) /\ Cardinality(Seen) \in Nat
  BY <1>1, <1>2, FS_Subset, FS_CardinalityType
<1>4. Cardinality(Seen \cup {data + 1}) = Cardinality(Seen) + 1
  BY <1>1, <1>3, FS_AddElement
<1>5. ASSUME NEW T \in SUBSET Marks, Seen \cup {data + 1} \subseteq T
      PROVE  Cardinality(Seen) + 1 <= Cardinality(T) /\ Cardinality(T) \in Nat
  <2>1. IsFiniteSet(T) /\ Cardinality(T) \in Nat
    BY <1>2, FS_Subset, FS_CardinalityType
  <2>2. Cardinality(Seen \cup {data + 1}) <= Cardinality(T)
    BY <1>5, <2>1, FS_Subset
  <2>3. QED
    BY <1>4, <2>1, <2>2
<1>6. Seen \cup {data + 1} \subseteq Marks
  BY <1>1
<1>7. QED
  BY <1>3, <1>5, <1>6

LEMMA RecordKeeps ==
  ASSUME Walk, ParseRecord
  PROVE  Walk'
<1> DEFINE l == FromHex8(data + 1)
           whole == data + 9 + 2 * l < Len(text)
           stored == whole /\ Chr(data) = IHEX_CHR_RECORDMARK
<1>1. pc = "parse" /\ MoreText /\ ~Truncated /\ i' = i + 1 /\ UNCHANGED <<source, text, beyond>>
  BY DEF ParseRecord
<1>2. /\ TextTyped /\ ParserTypeOK /\ i <= data
      /\ data \in Nat /\ i \in Nat /\ Len(text) \in Nat /\ data <= Len(text)
      /\ records \in Seq(HexRecord) /\ Len(records) \in Nat
      /\ Len(records) = Cardinality(Marks)
      /\ \A k \in 1 .. Len(records) : records[k].type # IHEX_DATA => k <= i
      /\ NoNul => ~spilled /\ InWalk
  BY <1>1, InParse
<1>3. data < Len(text) /\ data + 3 < Len(text) /\ l \in Nat
  <2>1. data < Len(text) /\ data + 3 < Len(text)
    BY <1>1, <1>2 DEF MoreText, Truncated
  <2>2. l \in HexByte
    BY <1>2, <2>1, Hex8Typed
  <2>3. \A b \in HexByte : b \in Nat
    BY DEF HexByte
  <2>4. QED
    BY <2>1, <2>2, <2>3
<1>4. TextTyped' /\ Marks' = Marks /\ (NoNul' <=> NoNul) /\ Len(text') = Len(text)
      /\ i' \in 0 .. Len(text)
  BY <1>1, <1>2, <1>3 DEF TextTyped, Marks, NoNul
<1>5. /\ records' = [k \in DOMAIN records |->
                       IF stored /\ k = i' THEN Record(l) ELSE records[k]]
      /\ spilled' = (spilled \/ (stored /\ i' > Len(records)))
  BY DEF ParseRecord
<1>6. records' \in Seq(HexRecord) /\ Len(records') = Len(records)
      /\ \A k \in 1 .. Len(records) :
           records'[k] = IF stored /\ k = i' THEN Record(l) ELSE records[k]
  <2>1. DOMAIN records = 1 .. Len(records) /\ \A k \in 1 .. Len(records) : records[k] \in HexRecord
    BY <1>2
  <2>2. stored => Record(l) \in HexRecord
    BY <1>2, <1>3, RecordTyped
  <2> DEFINE rs == [k \in 1 .. Len(records) |->
                      IF stored /\ k = i' THEN Record(l) ELSE records[k]]
  <2> HIDE DEF stored
  <2>3. \A k \in 1 .. Len(records) : rs[k] \in HexRecord
    BY <2>1, <2>2
  <2>4. rs \in Seq(HexRecord) /\ Len(rs) = Len(records)
    BY <1>2, <2>3
  <2>5. records' = rs
    BY <1>5, <2>1
  <2>6. QED
    BY <2>4, <2>5
<1>7. \A k \in 1 .. Len(records') : records'[k].type # IHEX_DATA => k <= i'
  <2> HIDE DEF stored
  <2> QED
    BY <1>1, <1>2, <1>6
<1>8. spilled' \in BOOLEAN /\ (NoNul => ~spilled')
  <2>1. spilled' \in BOOLEAN
    BY <1>2, <1>5 DEF ParserTypeOK
  <2>2. ASSUME NoNul, stored PROVE ~(i' > Len(records))
    <3>1. Cardinality(Seen) \in Nat /\ Cardinality(Seen) + 1 <= Len(records)
      BY <1>2, <1>3, <2>2, OneMore
    <3>2. i <= Cardinality(Seen)
      BY <1>2, <2>2 DEF InWalk
    <3>3. QED
      BY <1>1, <1>2, <3>1, <3>2
  <2>3. QED
    BY <1>2, <1>5, <2>1, <2>2
<1>9. CASE pc' = "refused" /\ UNCHANGED data
  <2>1. errno' \in Errors
    BY <1>2 DEF ParseRecord, ParserTypeOK, ParseError, Errors
  <2>2. ParserTypeOK'
    BY <1>2, <1>4, <1>6, <1>8, <1>9, <2>1 DEF ParserTypeOK
  <2>3. QED
    BY <1>2, <1>4, <1>6, <1>7, <1>8, <1>9, <2>2 DEF Walk
<1>10. CASE whole /\ ParseError(l) = "none"
  <2>1. data' = SkipToMark(data + 2 * l + 10) /\ UNCHANGED <<pc, errno>>
    BY <1>10 DEF ParseRecord
  <2>2. data + 9 + 2 * l < Len(text) /\ data + 2 * l + 10 \in Nat /\ data + 2 * l + 10 <= Len(text)
    BY <1>2, <1>3, <1>10
  <2>3. /\ data' \in data + 2 * l + 10 .. Len(text)
        /\ data' < Len(text) => Chr(data') \in {IHEX_CHR_RECORDMARK, NUL}
    BY <1>2, <2>1, <2>2, Skipping
  <2>4. data' \in Nat /\ data' <= Len(text) /\ data + 1 < data' /\ i' <= data'
    <3> DEFINE z == data + 2 * l + 10
    <3>1. z \in Nat /\ data + 1 < z
      BY <1>2, <1>3
    <3>2. data' \in z .. Len(text)
      BY <2>3
    <3> HIDE DEF z
    <3>3. data' \in Nat /\ data' <= Len(text) /\ data + 1 < data'
      BY <1>2, <3>1, <3>2
    <3> QED
      BY <1>1, <1>2, <3>3
  <2>5. ParserTypeOK'
    BY <1>2, <1>4, <1>6, <1>8, <2>1, <2>4 DEF ParserTypeOK
  <2>6. ASSUME NoNul PROVE InWalk'
    <3>1. Chr(data) = IHEX_CHR_RECORDMARK
      BY <1>10 DEF ParseError
    <3>2. Seen' \in SUBSET Marks /\ Seen \cup {data + 1} \subseteq Seen'
      <4>1. Seen' = {k \in Marks : k <= data'}
        BY <1>4 DEF Seen
      <4>2. data + 1 \in Marks /\ Marks \subseteq 1 .. Len(text)
        BY <1>2, <1>3, <2>6, <3>1, MarkCounted, MarksFinite
      <4>3. ASSUME NEW m \in Seen PROVE m \in Seen'
        <5>1. m \in Marks /\ m \in Nat /\ m <= data
          BY <4>2 DEF Seen
        <5>2. m <= data'
          BY <1>2, <2>4, <5>1
        <5>3. QED
          BY <4>1, <5>1, <5>2
      <4>4. data + 1 \in Seen'
        BY <1>2, <2>4, <4>1, <4>2
      <4>5. QED
        BY <4>1, <4>3, <4>4
    <3>3. /\ Cardinality(Seen) \in Nat /\ Cardinality(Seen) + 1 <= Len(records)
          /\ Cardinality(Seen) + 1 <= Cardinality(Seen') /\ Cardinality(Seen') \in Nat
      BY <1>2, <1>3, <2>6, <3>1, <3>2, OneMore
    <3>4. i <= Cardinality(Seen)
      BY <1>2, <2>6 DEF InWalk
    <3>5. i' <= Cardinality(Seen')
      BY <1>1, <1>2, <3>3, <3>4
    <3>6. data' < Len(text) => Chr(data') = IHEX_CHR_RECORDMARK
      <4>1. SUFFICES ASSUME data' < Len(text), Chr(data') = NUL PROVE FALSE
        BY <2>3
      <4>2. data' + 1 \in DOMAIN text /\ text[data' + 1] = NUL
        BY <1>2, <2>4, <4>1 DEF Chr, TextTyped
      <4>3. QED
        BY <2>6, <4>2 DEF NoNul, Range
    <3>7. Chr(data)' = Chr(data')
      BY <1>1 DEF Chr
    <3>8. QED
      BY <1>4, <3>5, <3>6, <3>7 DEF InWalk
  <2>7. QED
    BY <1>1, <1>2, <1>4, <1>6, <1>7, <1>8, <2>1, <2>4, <2>5, <2>6 DEF Walk
<1>11. QED
  BY <1>9, <1>10 DEF ParseRecord

LEMMA EndKeeps ==
  ASSUME Walk, EndOfText
  PROVE  Walk'
<1>1. /\ pc = "parse" /\ pc' = "finish"
      /\ UNCHANGED <<source, text, beyond, data, records, spilled, errno>>
      /\ i' = (IF MoreText THEN i + 1 ELSE i) /\ (MoreText => Truncated)
  BY DEF EndOfText
<1>2. /\ TextTyped /\ ParserTypeOK /\ i <= data
      /\ data \in Nat /\ i \in Nat /\ Len(text) \in Nat /\ data <= Len(text)
      /\ Len(records) \in Nat /\ Len(records) = Cardinality(Marks)
      /\ \A k \in 1 .. Len(records) : records[k].type # IHEX_DATA => k <= i
      /\ NoNul => ~spilled /\ InWalk
  BY <1>1, InParse
<1>3. MoreText => data < Len(text)
  BY DEF MoreText
<1>4. i' \in Nat /\ i <= i' /\ i' <= Len(text)
  BY <1>1, <1>2, <1>3
<1>5. TextTyped' /\ Marks' = Marks /\ (NoNul' <=> NoNul)
  BY <1>1, <1>2 DEF TextTyped, Marks, NoNul
<1>6. ParserTypeOK'
  BY <1>1, <1>2, <1>4 DEF ParserTypeOK
<1>7. \A k \in 1 .. Len(records) : records[k].type # IHEX_DATA => k <= i'
  BY <1>2, <1>4
<1>8. ASSUME NoNul PROVE i' <= Len(records) \/ records = << >>
  <2>1. /\ Seen \in SUBSET Marks /\ IsFiniteSet(Marks) /\ i <= Cardinality(Seen)
    BY <1>2, <1>8, MarksFinite DEF Seen, InWalk
  <2>2. Cardinality(Seen) \in Nat /\ Cardinality(Seen) <= Len(records)
    BY <1>2, <2>1, FS_Subset, FS_CardinalityType
  <2>3. CASE ~MoreText
    BY <1>1, <1>2, <2>1, <2>2, <2>3
  <2>4. CASE MoreText /\ i > 0
    <3>1. Chr(data) = IHEX_CHR_RECORDMARK
      BY <1>2, <1>3, <1>8, <2>4 DEF InWalk
    <3>2. Cardinality(Seen) + 1 <= Cardinality(Marks)
      BY <1>2, <1>3, <1>8, <2>4, <3>1, OneMore
    <3>3. QED
      BY <1>1, <1>2, <2>1, <2>2, <2>4, <3>2
  <2>5. CASE MoreText /\ ~(i > 0)
    <3>1. i' = 1
      BY <1>1, <1>2, <2>5
    <3>2. Len(records) = 0 => records = << >>
      BY <1>2 DEF ParserTypeOK
    <3>3. QED
      BY <1>2, <3>1, <3>2
  <2>6. QED
    BY <2>3, <2>4, <2>5
<1>9. QED
  BY <1>1, <1>2, <1>5, <1>6, <1>7, <1>8 DEF Walk

LEMMA LastKeeps ==
  ASSUME Walk, CheckLast
  PROVE  Walk'
<1>1. /\ pc = "finish" /\ pc' \in {"accepted", "refused", "crashed"}
      /\ UNCHANGED <<source, text, beyond, data, i, records, spilled>>
      /\ errno' \in {errno, "NO_EOF"}
      /\ pc' = "accepted" /\ records # << >> => Last(records).type = IHEX_EOF
  BY DEF CheckLast
<1>2. TextTyped' /\ Marks' = Marks /\ (NoNul' <=> NoNul)
  BY <1>1 DEF Walk, TextTyped, Marks, NoNul
<1>3. ParserTypeOK'
  BY <1>1 DEF Walk, ParserTypeOK, Errors
<1>4. QED
  BY <1>1, <1>2, <1>3 DEF Walk

LEMMA WalkStep == Walk /\ [EepromNext]_allVars => Walk'
<1> SUFFICES ASSUME Walk, [EepromNext]_allVars PROVE Walk'
  OBVIOUS
<1>1. CASE UNCHANGED parser
  <2>1. UNCHANGED <<source, text, beyond, pc, data, i, records, spilled, errno>>
    BY <1>1 DEF parser
  <2>2. TextTyped' /\ ParserTypeOK' /\ Marks' = Marks /\ (NoNul' <=> NoNul)
    BY <2>1 DEF Walk, TextTyped, ParserTypeOK, Marks, NoNul
  <2>3. Seen' = Seen /\ Chr(data)' = Chr(data)
    BY <2>1, <2>2 DEF Seen, Chr
  <2>4. InWalk' <=> InWalk
    BY <2>1, <2>3 DEF InWalk
  <2>5. QED
    BY <2>1, <2>2, <2>4 DEF Walk
<1>2. CASE ihex_rs_from_mem
  BY <1>2, CountKeeps, RecordKeeps, EndKeeps, LastKeeps DEF ihex_rs_from_mem, Parse
<1>3. CASE ~ihex_rs_from_mem
  <2>1. UNCHANGED parser
    BY <1>3 DEF EepromNext, UseImage, Next, write_eeprom, WriteByte, NextRecord, AllWritten,
       ihex_rs_get_address_range, ihex_mem_copy, RangeRecord, CopyRecord, OutOfRange,
       IterateFails, IterateEnds, allVars, vars
  <2>2. QED
    BY <1>1, <2>1
<1>4. QED
  BY <1>2, <1>3

LEMMA WalkAlways == EepromSpec => []Walk
<1>1. EepromInit => Walk
  BY WalkInit DEF EepromInit, Init
<1>2. QED
  BY <1>1, WalkStep, PTL DEF EepromSpec

\* StoredInArray: in a text without NUL the two passes agree on the number of
\* records, so none is stored behind the array, whatever the text.
THEOREM ArrayBounded == EepromSpec => []StoredInArray
<1>1. Walk => StoredInArray
  BY DEF Walk, NoNul, StoredInArray
<1>2. QED
  BY <1>1, WalkAlways, PTL

\* AcceptedComplete: an accepted record set has no element that was not parsed,
\* and ends with an EOF record, whatever the text.
THEOREM AcceptedIsComplete == EepromSpec => []AcceptedComplete
<1>1. Walk => AcceptedComplete
  <2> SUFFICES ASSUME Walk, pc = "accepted", records # << >>
               PROVE  /\ Last(records).type = IHEX_EOF
                      /\ i >= Len(records)
                      /\ NUL \notin Range(text) => i = Len(records)
    BY DEF AcceptedComplete
  <2>1. records \in Seq(HexRecord) /\ Len(records) \in Nat /\ i \in Nat
    BY DEF Walk, ParserTypeOK, TextTyped
  <2>2. Len(records) \in 1 .. Len(records)
    BY <2>1
  <2>3. records[Len(records)].type = IHEX_EOF
    BY DEF Walk, Last
  <2>4. Len(records) <= i
    BY <2>2, <2>3, Codes DEF Walk
  <2>5. NoNul => i <= Len(records)
    BY DEF Walk
  <2>6. QED
    BY <2>1, <2>3, <2>4, <2>5 DEF Last, NoNul
<1>2. QED
  BY <1>1, WalkAlways, PTL

-----------------------------------------------------------------------------
(* The walk over the records. *)

LEMMA RecordType ==
  ASSUME records \in Seq(HexRecord), NEW k \in 1 .. Len(records)
  PROVE  /\ records[k].address \in Nat /\ records[k].address <= UINT16_MAX
         /\ records[k].data \in Seq(HexByte) /\ Len(records[k].data) \in Nat
         /\ records[k].type \in HexByte
<1>1. records[k] \in HexRecord
  OBVIOUS
<1>2. UINT16_MAX \in Nat
  BY DEF UINT16_MAX
<1>3. QED
  BY <1>1, <1>2 DEF HexRecord, HexWord

\* Where a walk stops, and what it has passed over.
LEMMA StopFacts ==
  ASSUME records \in Seq(HexRecord), next \in 0 .. Len(records)
  PROVE  /\ Stop \in next + 1 .. Len(records) + 1
         /\ \A k \in next + 1 .. Stop - 1 : k \in 1 .. Len(records) /\ records[k].type \in Skipped
<1> DEFINE S == {k \in next + 1 .. Len(records) : records[k].type \notin Skipped}
                  \cup {Len(records) + 1}
<1>1. Len(records) \in Nat
  OBVIOUS
<1>2. S \in SUBSET Nat /\ S # {} /\ S \subseteq next + 1 .. Len(records) + 1
  BY <1>1
<1>3. Stop = Min(S)
  BY DEF Stop
<1>4. Stop \in S /\ \A b \in S : Stop <= b
  BY <1>2, <1>3, MinOf
<1>5. Stop \in next + 1 .. Len(records) + 1
  BY <1>2, <1>4
<1>6. ASSUME NEW k \in next + 1 .. Stop - 1
      PROVE  k \in 1 .. Len(records) /\ records[k].type \in Skipped
  <2>1. k \in next + 1 .. Len(records) /\ ~(Stop <= k)
    BY <1>1, <1>5
  <2>2. k \notin S
    BY <1>4, <2>1
  <2>3. QED
    BY <1>1, <2>1, <2>2
<1>7. QED
  BY <1>5, <1>6

LEMMA ByteNat == \A b \in HexByte : b \in Nat
  BY DEF HexByte

LEMMA WordType == \A a, b \in HexByte : 256 * a + b \in Nat /\ 256 * a + b <= UINT16_MAX
<1> SUFFICES ASSUME NEW a \in HexByte, NEW b \in HexByte
             PROVE  256 * a + b \in Nat /\ 256 * a + b <= UINT16_MAX
  OBVIOUS
<1>1. a \in Nat /\ b \in Nat /\ a <= 255 /\ b <= 255
  BY DEF HexByte
<1>2. QED
  BY <1>1, SMT DEF UINT16_MAX

LEMMA HighWord == \A a, b \in Nat : a * 16777216 + b * 65536 = 65536 * (256 * a + b)
  BY SMT

Extended == {IHEX_ESA, IHEX_ELA}

\* The base that an extended address record sets, and the highest there is.
BaseOf(rec) == IF rec.type = IHEX_ESA THEN 16 * Word(rec) ELSE 65536 * Word(rec)
HighBase == 65536 * UINT16_MAX

LEMMA BaseBound ==
  /\ \A w \in Nat : w <= UINT16_MAX =>
       /\ 16 * w \in Nat /\ 16 * w <= HighBase
       /\ 65536 * w \in Nat /\ 65536 * w <= HighBase
  /\ HighBase \in Nat
  BY SMT DEF HighBase, UINT16_MAX

\* What the library makes of an extended address record, if it has the form
\* that the library expects.
LEMMA OffsetUnderstood ==
  ASSUME records \in Seq(HexRecord), Understood(records),
         NEW k \in 1 .. Len(records), records[k].type \in Extended
  PROVE  /\ OffsetOf(records[k]) = BaseOf(records[k])
         /\ BaseOf(records[k]) \in Nat /\ BaseOf(records[k]) <= HighBase
<1> DEFINE d == records[k].data
<1>1. d \in Seq(HexByte) /\ Len(d) = 2 /\ (records[k].type = IHEX_ESA => Word(records[k]) = 0)
  BY RecordType DEF Understood, Extended
<1>2. d[1] \in HexByte /\ d[2] \in HexByte
  BY <1>1
<1>3. DataByte(records[k], 1) = d[1] /\ DataByte(records[k], 2) = d[2]
  BY <1>1 DEF DataByte
<1>4. Word(records[k]) = 256 * d[1] + d[2]
  BY DEF Word
<1> HIDE DEF d
<1>5. 256 * d[1] + d[2] \in Nat /\ 256 * d[1] + d[2] <= UINT16_MAX
  BY <1>2, WordType
<1>6. d[1] \in Nat /\ d[2] \in Nat
  BY <1>2, ByteNat
<1>a. d[1] * 16777216 + d[2] * 65536 = 65536 * (256 * d[1] + d[2])
  BY <1>6, HighWord
<1>7. CASE records[k].type = IHEX_ESA
  <2>1. 256 * d[1] + d[2] = 0
    BY <1>1, <1>4, <1>7
  <2>2. d[1] = 0
    BY <1>6, <2>1
  <2>3. OffsetOf(records[k]) = d[1] * 16
    BY <1>3, <1>7, SMT DEF OffsetOf
  <2>4. BaseOf(records[k]) = 16 * Word(records[k])
    BY <1>7, SMT DEF BaseOf
  <2>5. OffsetOf(records[k]) = 16 * Word(records[k])
    BY <1>4, <2>1, <2>2, <2>3, SMT
  <2>6. QED
    BY <1>4, <1>5, <2>4, <2>5, BaseBound, SMT
<1>8. CASE records[k].type # IHEX_ESA
  <2>1. OffsetOf(records[k]) = d[1] * 16777216 + d[2] * 65536
    BY <1>3, <1>8, SMT DEF OffsetOf
  <2>2. BaseOf(records[k]) = 65536 * Word(records[k])
    BY <1>8, SMT DEF BaseOf
  <2>3. QED
    BY <1>4, <1>5, <1>a, <2>1, <2>2, BaseBound, SMT
<1>9. QED
  BY <1>7, <1>8

\* The extended address records from one to another, and the base that they set.
ExtendedIn(first, last) == {m \in first .. last : records[m].type \in Extended}
BaseFrom(S) ==
  IF S = {} THEN 0
  ELSE BaseOf(records[Max(S)])

LEMMA BaseIs == \A k : Base(records, k) = BaseFrom(ExtendedIn(1, k - 1))
  BY SMT DEF Base, BaseFrom, BaseOf, ExtendedIn, Extended

LEMMA OffsetAtStopIs ==
  OffsetAtStop = IF ExtendedIn(next + 1, Stop - 1) # {}
                 THEN OffsetOf(records[Max(ExtendedIn(next + 1, Stop - 1))])
                 ELSE IF next = 0 THEN 0 ELSE offset
  BY DEF OffsetAtStop, ExtendedIn, Extended

\* The base of a record in the format.
LEMMA BaseType ==
  ASSUME records \in Seq(HexRecord), Understood(records), NEW k \in 1 .. Len(records)
  PROVE  Base(records, k) \in Nat /\ Base(records, k) <= HighBase
<1> DEFINE S == ExtendedIn(1, k - 1)
<1>1. S \in SUBSET (0 .. Len(records)) /\ Len(records) \in Nat
  BY DEF ExtendedIn
<1>2. HighBase \in Nat
  BY BaseBound
<1>3. Base(records, k) = BaseFrom(S)
  BY BaseIs
<1>4. CASE S = {}
  BY <1>2, <1>3, <1>4 DEF BaseFrom
<1>5. CASE S # {}
  <2>1. Max(S) \in S
    BY <1>1, <1>5, MaxOf
  <2>2. Max(S) \in 1 .. Len(records) /\ records[Max(S)].type \in Extended
    BY <2>1 DEF ExtendedIn
  <2>3. BaseFrom(S) = BaseOf(records[Max(S)])
    BY <1>5 DEF BaseFrom
  <2>4. QED
    BY <1>3, <2>2, <2>3, OffsetUnderstood
<1>6. QED
  BY <1>4, <1>5

\* The offset that the walk computes from the one before is the base that the
\* format gives to the record where it stops.
LEMMA OffsetIsBase ==
  ASSUME records \in Seq(HexRecord), Understood(records), next \in 0 .. Len(records),
         next > 0 => records[next].type = IHEX_DATA /\ offset = Base(records, next)
  PROVE  OffsetAtStop = Base(records, Stop)
<1> DEFINE near == ExtendedIn(next + 1, Stop - 1)
           all == ExtendedIn(1, Stop - 1)
<1>1. Stop \in next + 1 .. Len(records) + 1 /\ Len(records) \in Nat
  BY StopFacts
<1>2. /\ near \in SUBSET (0 .. Len(records)) /\ all \in SUBSET (0 .. Len(records))
      /\ near \subseteq all /\ \A m \in all : m > next => m \in near
  BY <1>1 DEF ExtendedIn
<1>3. /\ Base(records, Stop) = BaseFrom(all)
      /\ OffsetAtStop = IF near # {} THEN OffsetOf(records[Max(near)])
                        ELSE IF next = 0 THEN 0 ELSE offset
  BY BaseIs, OffsetAtStopIs
<1>4. CASE near # {}
  <2>1. all # {}
    BY <1>2, <1>4
  <2>2. /\ Max(near) \in near /\ \A m \in near : Max(near) >= m
        /\ Max(all) \in all /\ \A m \in all : Max(all) >= m
    BY <1>1, <1>2, <1>4, <2>1, MaxOf
  <2>3. \A m \in near : m \in next + 1 .. Stop - 1
    BY DEF ExtendedIn
  <2>4. Max(all) = Max(near)
    <3>1. Max(near) \in all /\ Max(near) > next /\ Max(near) \in Nat
      BY <1>1, <1>2, <2>2, <2>3
    <3>2. Max(all) >= Max(near) /\ Max(all) \in Nat
      BY <1>1, <1>2, <2>2, <3>1
    <3>3. Max(all) \in near
      BY <1>1, <1>2, <2>2, <3>1, <3>2
    <3>4. QED
      BY <2>2, <3>1, <3>2, <3>3
  <2>5. Max(near) \in 1 .. Len(records) /\ records[Max(near)].type \in Extended
    BY <1>1, <2>2, <2>3 DEF ExtendedIn
  <2>6. OffsetOf(records[Max(near)]) = BaseOf(records[Max(near)])
    BY <2>5, OffsetUnderstood
  <2>7. BaseFrom(all) = BaseOf(records[Max(all)])
    BY <2>1 DEF BaseFrom
  <2>8. QED
    BY <1>3, <1>4, <2>4, <2>6, <2>7
<1>5. CASE near = {} /\ next = 0
  <2>1. all = {}
    BY <1>1, <1>2, <1>5
  <2>2. QED
    BY <1>3, <1>5, <2>1 DEF BaseFrom
<1>6. CASE near = {} /\ next > 0
  <2>1. IHEX_DATA \notin Extended
    BY DEF Extended, IHEX_DATA, IHEX_ESA, IHEX_ELA
  <2>2. all = ExtendedIn(1, next - 1)
    BY <1>1, <1>2, <1>6, <2>1 DEF ExtendedIn
  <2>3. OffsetAtStop = Base(records, next) /\ Base(records, next) = BaseFrom(ExtendedIn(1, next - 1))
    BY <1>3, <1>6, BaseIs
  <2>4. QED
    BY <1>3, <2>2, <2>3
<1>7. QED
  BY <1>1, <1>4, <1>5, <1>6

-----------------------------------------------------------------------------
(* The types of the image. *)

LEMMA MaxOfTwo ==
  ASSUME NEW x \in Nat, NEW y \in Nat
  PROVE  Max({x, y}) \in {x, y} /\ Max({x, y}) >= x /\ Max({x, y}) >= y
<1>1. {x, y} \in SUBSET (0 .. x + y) /\ {x, y} # {} /\ x + y \in Nat
  OBVIOUS
<1>2. QED
  BY <1>1, MaxOf

\* Places in a record of l bytes that starts at s.
LEMMA Places ==
  ASSUME NEW s \in Nat, NEW l \in Nat
  PROVE  /\ \A a \in Int : a \in s .. s + l - 1 <=> a - s + 1 \in 1 .. l
         /\ l > 0 => s + l - 1 \in s .. s + l - 1
OBVIOUS

LEMMA DataByteType ==
  ASSUME TextTyped, NEW rec, rec.data \in Seq(HexByte), NEW k \in {1, 2}
  PROVE  DataByte(rec, k) \in Nat
<1>1. CASE k <= Len(rec.data)
  <2>1. rec.data[k] \in HexByte
    BY <1>1
  <2>2. QED
    BY <1>1, <2>1, ByteNat DEF DataByte
<1>2. CASE ~(k <= Len(rec.data))
  <2>1. beyond[k] \in Chars
    BY DEF TextTyped
  <2>2. \A c \in Chars : c \in Nat
    BY Codes
  <2>3. QED
    BY <1>2, <2>1, <2>2 DEF DataByte
<1>3. QED
  BY <1>1, <1>2

LEMMA OffsetType ==
  ASSUME TextTyped, records \in Seq(HexRecord), next \in 0 .. Len(records), offset \in Nat
  PROVE  OffsetAtStop \in Nat
<1> DEFINE near == ExtendedIn(next + 1, Stop - 1)
<1>1. Stop \in next + 1 .. Len(records) + 1 /\ Len(records) \in Nat
  BY StopFacts
<1>2. near \in SUBSET (0 .. Len(records)) /\ \A m \in near : m \in 1 .. Len(records)
  BY <1>1 DEF ExtendedIn
<1>3. CASE near # {}
  <2>1. Max(near) \in 1 .. Len(records)
    BY <1>1, <1>2, <1>3, MaxOf
  <2>2. records[Max(near)].data \in Seq(HexByte)
    BY <2>1, RecordType
  <2>3. DataByte(records[Max(near)], 1) \in Nat /\ DataByte(records[Max(near)], 2) \in Nat
    BY <2>2, DataByteType
  <2>4. OffsetOf(records[Max(near)]) \in Nat
    BY <2>3, SMTT(20) DEF OffsetOf
  <2>5. QED
    BY <1>3, <2>4, OffsetAtStopIs
<1>4. CASE near = {}
  BY <1>4, OffsetAtStopIs
<1>5. QED
  BY <1>3, <1>4

\* The types, and what a walk takes from one record to the next.
ImageInv ==
  /\ Walk /\ TypeOK
  /\ pass \in {"parse", "parsed"} => next = 0
  /\ pass \in {"parse", "parsed", "range", "ranged"} => top = 0
  /\ Usable /\ pass \in {"range", "copy"} /\ next > 0 =>
       records[next].type = IHEX_DATA /\ offset = Base(records, next)

LEMMA ImageTyped ==
  ASSUME ImageInv
  PROVE  /\ TextTyped /\ records \in Seq(HexRecord) /\ Len(records) \in Nat
         /\ next \in 0 .. Len(records) /\ next \in Nat /\ offset \in Nat
         /\ min \in Nat /\ max \in Nat /\ top \in Nat
         /\ dst \in [0 .. n - 1 -> HexByte] /\ n \in Nat /\ UINT32_MAX \in Nat
BY ImageAssumption DEF ImageInv, Walk, TypeOK, ParserTypeOK

\* What a walk finds at a data record.
LEMMA AtDataFacts ==
  ASSUME ImageInv, AtData, pass \in {"range", "copy"}
  PROVE  /\ Stop \in 1 .. Len(records) /\ Stop > next
         /\ Rec = records[Stop] /\ Rec.type = IHEX_DATA
         /\ Rec.data \in Seq(HexByte) /\ Len(Rec.data) \in Nat
         /\ OffsetAtStop \in Nat /\ Address \in Nat
         /\ Usable => OffsetAtStop = Base(records, Stop) /\ Address = StartOf(records, Stop)
         /\ \A k \in DataRecords(records) : k <= Stop <=> k <= next \/ k = Stop
<1>1. /\ TextTyped /\ records \in Seq(HexRecord) /\ Len(records) \in Nat
      /\ next \in 0 .. Len(records) /\ next \in Nat /\ offset \in Nat
  BY ImageTyped
<1>2. /\ Stop \in next + 1 .. Len(records) + 1
      /\ \A k \in next + 1 .. Stop - 1 : k \in 1 .. Len(records) /\ records[k].type \in Skipped
  BY <1>1, StopFacts
<1>3. Stop \in 1 .. Len(records) /\ Stop > next /\ Rec = records[Stop] /\ Rec.type = IHEX_DATA
  BY <1>1, <1>2 DEF AtData, Rec
<1>4. Rec.data \in Seq(HexByte) /\ Len(Rec.data) \in Nat /\ Rec.address \in Nat
  BY <1>1, <1>3, RecordType
<1>5. OffsetAtStop \in Nat
  BY <1>1, OffsetType
<1>6. Usable => OffsetAtStop = Base(records, Stop)
  BY <1>1, OffsetIsBase DEF Usable, ImageInv
<1>7. ASSUME NEW k \in DataRecords(records) PROVE k <= Stop <=> k <= next \/ k = Stop
  <2>1. k \in Nat /\ records[k].type = IHEX_DATA
    BY <1>1 DEF DataRecords
  <2>2. IHEX_DATA \notin Skipped
    BY DEF Skipped, IHEX_DATA, IHEX_ESA, IHEX_SSA, IHEX_ELA, IHEX_SLA
  <2>3. k \notin next + 1 .. Stop - 1
    BY <1>2, <2>1, <2>2
  <2>4. QED
    BY <1>1, <1>2, <2>1, <2>3
<1>8. QED
  BY <1>3, <1>4, <1>5, <1>6, <1>7 DEF Address, StartOf

\* At the end a walk has seen every data record.
LEMMA AtEndFacts ==
  ASSUME ImageInv, AtEnd
  PROVE  \A k \in DataRecords(records) : k <= next
<1>1. /\ records \in Seq(HexRecord) /\ Len(records) \in Nat
      /\ next \in 0 .. Len(records) /\ next \in Nat
  BY ImageTyped
<1>2. /\ Stop \in next + 1 .. Len(records) + 1
      /\ \A k \in next + 1 .. Stop - 1 : k \in 1 .. Len(records) /\ records[k].type \in Skipped
  BY <1>1, StopFacts
<1>3. IHEX_DATA \notin Skipped /\ IHEX_DATA # IHEX_EOF
  BY DEF Skipped, IHEX_DATA, IHEX_ESA, IHEX_SSA, IHEX_ELA, IHEX_SLA, IHEX_EOF
<1>4. ASSUME NEW k \in DataRecords(records) PROVE k <= next
  <2>1. k \in 1 .. Len(records) /\ records[k].type = IHEX_DATA
    BY <1>1 DEF DataRecords
  <2>2. k # Stop /\ Stop = Len(records)
    BY <1>3, <2>1 DEF AtEnd
  <2>3. k \notin next + 1 .. Stop - 1
    BY <1>2, <1>3, <2>1
  <2>4. QED
    BY <1>1, <2>1, <2>2, <2>3
<1>5. QED
  BY <1>4

LEMMA WholeWords ==
  ASSUME NEW l \in Nat
  PROVE  2 * ((l + 1) \div 2) + 2 \in Nat /\ 2 * ((l + 1) \div 2) + 2 <= l + 3
OBVIOUS

LEMMA StoredType ==
  ASSUME NEW rec, Len(rec.data) \in Nat
  PROVE  Stored(rec) \in Nat /\ Stored(rec) <= Len(rec.data) + 3
<1>1. CASE rec.data = << >>
  BY <1>1 DEF Stored
<1>2. CASE rec.data # << >>
  <2>1. Stored(rec) = 2 * ((Len(rec.data) + 1) \div 2) + 2
    BY <1>2, Zenon DEF Stored
  <2>2. QED
    BY <2>1, WholeWords
<1>3. QED
  BY <1>1, <1>2

LEMMA EndType ==
  ASSUME Address + Len(Rec.data) \in Nat
  PROVE  End \in Nat
<1> DEFINE x == Address + Len(Rec.data)
<1>1. UINT32_MAX + 1 \in Nat /\ UINT32_MAX + 1 > 0
  BY ImageAssumption
<1> HIDE DEF x
<1>2. x \in Nat => x % (UINT32_MAX + 1) \in Nat
  BY <1>1
<1>3. QED
  BY <1>2 DEF End, x

\* What the properties say of the records does not change with the image.
LEMMA SameRecords ==
  ASSUME UNCHANGED records
  PROVE  /\ Usable' = Usable
         /\ \A k : Base(records', k) = Base(records, k)
         /\ \A k : StartOf(records', k) = StartOf(records, k)
         /\ DataRecords(records') = DataRecords(records)
         /\ InOrder(records') = InOrder(records)
         /\ Covered(records') = Covered(records)
BY DEF Usable

LEMMA ImageInit == EepromInit => ImageInv
<1> SUFFICES ASSUME EepromInit PROVE ImageInv
  OBVIOUS
<1>1. Walk
  BY WalkInit DEF EepromInit, Init
<1>2. Len(records) \in Nat /\ 255 \in HexByte
  BY <1>1 DEF Walk, ParserTypeOK, HexByte
<1>3. /\ pass = "parse" /\ next = 0 /\ offset = 0 /\ min = 0 /\ max = 0
      /\ dst = [a \in 0 .. n - 1 |-> 255] /\ top = 0
  BY DEF EepromInit, Init
<1>4. dst \in [0 .. n - 1 -> HexByte]
  BY <1>2, <1>3
<1>5. TypeOK
  BY <1>1, <1>2, <1>3, <1>4, ImageAssumption DEF TypeOK, Walk
<1>6. QED
  BY <1>1, <1>3, <1>5 DEF ImageInv

\* A record in one of the two walks.
LEMMA WalkedRecord ==
  ASSUME ImageInv, AtData, pass \in {"range", "copy"}, UNCHANGED <<parser, pass>>,
         next' = Stop, offset' = OffsetAtStop,
         min' \in Nat, max' \in Nat, top' \in Nat, dst' \in [0 .. n - 1 -> HexByte],
         pass = "range" => top' = top, Walk'
  PROVE  ImageInv'
<1>1. records' = records
  BY DEF parser
<1>2. /\ Stop \in 1 .. Len(records) /\ records[Stop].type = IHEX_DATA /\ OffsetAtStop \in Nat
      /\ Usable => OffsetAtStop = Base(records, Stop)
  BY AtDataFacts
<1>3. Usable' = Usable /\ Base(records', next') = Base(records, Stop)
  BY <1>1, SameRecords
<1>4. next' \in 0 .. Len(records')
  BY <1>1, <1>2
<1>5. TypeOK'
  BY <1>2, <1>4 DEF TypeOK, Walk
<1>6. pass' = "range" => top' = 0
  BY DEF ImageInv
<1>7. QED
  BY <1>1, <1>2, <1>3, <1>5, <1>6 DEF ImageInv

LEMMA ImageStep == ImageInv /\ [EepromNext]_allVars => ImageInv'
<1> SUFFICES ASSUME ImageInv, [EepromNext]_allVars PROVE ImageInv'
  OBVIOUS
<1>w. Walk'
  BY WalkStep DEF ImageInv
<1>t. /\ TextTyped /\ records \in Seq(HexRecord) /\ Len(records) \in Nat
      /\ next \in 0 .. Len(records) /\ next \in Nat /\ offset \in Nat
      /\ min \in Nat /\ max \in Nat /\ top \in Nat
      /\ dst \in [0 .. n - 1 -> HexByte] /\ n \in Nat /\ UINT32_MAX \in Nat
  BY ImageTyped
<1>1. CASE UNCHANGED vars
  <2>1. UNCHANGED <<pass, next, offset, min, max, dst, top, records>>
    BY <1>1 DEF vars, image, parser
  <2>2. TypeOK'
    BY <1>w, <2>1 DEF ImageInv, TypeOK, Walk
  <2>3. QED
    BY <1>w, <2>1, <2>2, SameRecords DEF ImageInv
<1>2. CASE ihex_rs_from_mem
  <2>1. /\ pass = "parse" /\ pass' \in {"parse", "parsed"}
        /\ UNCHANGED <<next, offset, min, max, dst, top>>
    BY <1>2 DEF ihex_rs_from_mem
  <2>2. next' = 0 /\ top' = 0
    BY <2>1 DEF ImageInv
  <2>3. 0 \in 0 .. Len(records')
    BY <1>w DEF Walk, ParserTypeOK
  <2>4. TypeOK'
    BY <1>w, <1>t, <2>1, <2>2, <2>3 DEF TypeOK, Walk
  <2>5. QED
    BY <1>w, <2>1, <2>2, <2>4 DEF ImageInv
<1>3. CASE RangeRecord
  <2>1. /\ pass = "range" /\ AtData /\ next' = Stop /\ offset' = OffsetAtStop
        /\ min' = IF Address < min THEN Address ELSE min
        /\ max' = IF End > max THEN End ELSE max
        /\ UNCHANGED <<parser, pass, dst, top>>
    BY <1>3 DEF RangeRecord
  <2>2. Address \in Nat /\ Len(Rec.data) \in Nat
    BY <2>1, AtDataFacts
  <2>3. End \in Nat
    BY <2>2, EndType
  <2>4. min' \in Nat /\ max' \in Nat
    BY <1>t, <2>1, <2>2, <2>3
  <2>5. QED
    BY <1>w, <1>t, <2>1, <2>4, WalkedRecord
<1>4. CASE CopyRecord
  <2>1. /\ pass = "copy" /\ AtData /\ next' = Stop /\ offset' = OffsetAtStop
        /\ dst' = [a \in DOMAIN dst |->
                     LET k == a - Address + 1 IN
                     IF k \in DOMAIN Rec.data THEN Rec.data[k]
                     ELSE IF k \in 1 .. Stored(Rec) THEN 0 ELSE dst[a]]
        /\ top' = Max({top, IF Rec.data = << >> THEN 0 ELSE Address + Stored(Rec)})
        /\ UNCHANGED <<parser, pass, min, max>>
    BY <1>4 DEF CopyRecord
  <2>2. Address \in Nat /\ Len(Rec.data) \in Nat /\ Rec.data \in Seq(HexByte)
    BY <2>1, AtDataFacts
  <2>3. (IF Rec.data = << >> THEN 0 ELSE Address + Stored(Rec)) \in Nat
    BY <2>2, StoredType
  <2>4. top' \in Nat
    BY <1>t, <2>1, <2>3, MaxOfTwo
  <2>5. dst' \in [0 .. n - 1 -> HexByte]
    <3>1. \A k \in DOMAIN Rec.data : Rec.data[k] \in HexByte
      BY <2>2
    <3>2. 0 \in HexByte /\ DOMAIN dst = 0 .. n - 1 /\ \A a \in 0 .. n - 1 : dst[a] \in HexByte
      BY <1>t DEF HexByte
    <3>3. QED
      BY <2>1, <3>1, <3>2
  <2>6. QED
    BY <1>w, <1>t, <2>1, <2>4, <2>5, WalkedRecord
<1>5. CASE OutOfRange \/ IterateFails
  <2>1. pass' = "failed" /\ UNCHANGED <<parser, next, offset, min, max, dst, top>>
    BY <1>5 DEF OutOfRange, IterateFails
  <2>2. TypeOK'
    BY <1>w, <1>t, <2>1 DEF TypeOK, Walk, parser
  <2>3. QED
    BY <1>w, <2>1, <2>2 DEF ImageInv
<1>6. CASE IterateEnds
  <2>1. /\ <<pass, pass'>> \in {<<"range", "ranged">>, <<"copy", "copied">>} /\ next' = 0
        /\ UNCHANGED <<parser, offset, min, max, dst, top>>
    BY <1>6 DEF IterateEnds
  <2>2. TypeOK'
    BY <1>w, <1>t, <2>1 DEF TypeOK, Walk, parser
  <2>3. QED
    BY <1>w, <2>1, <2>2 DEF ImageInv
<1>7. CASE ihex_rs_get_address_range
  <2>1. /\ pass = "parsed" /\ pass' = "range" /\ next' = 0 /\ offset' = 0
        /\ min' = UINT32_MAX /\ max' = 0
        /\ UNCHANGED <<parser, dst, top>>
    BY <1>7 DEF ihex_rs_get_address_range
  <2>2. TypeOK'
    BY <1>w, <1>t, <2>1 DEF TypeOK, Walk, parser
  <2>3. QED
    BY <1>w, <2>1, <2>2 DEF ImageInv
<1>8. CASE ihex_mem_copy
  <2>1. /\ pass' = "copy" /\ next' = 0 /\ offset' = 0 /\ dst' = [a \in DOMAIN dst |-> 0]
        /\ UNCHANGED <<parser, min, max, top>>
    BY <1>8 DEF ihex_mem_copy
  <2>2. dst' \in [0 .. n - 1 -> HexByte]
    BY <1>t, <2>1 DEF HexByte
  <2>3. TypeOK'
    BY <1>w, <1>t, <2>1, <2>2 DEF TypeOK, Walk, parser
  <2>4. QED
    BY <1>w, <2>1, <2>3 DEF ImageInv
<1>9. QED
  BY <1>1, <1>2, <1>3, <1>4, <1>5, <1>6, <1>7, <1>8 DEF EepromNext, UseImage, Next, write_eeprom, WriteByte,
     NextRecord, AllWritten, allVars

-----------------------------------------------------------------------------
(* What the walks have made of the records that they have passed. *)

\* The records that the walk for the range, and that for the copy, have seen.
Ranged == {k \in DataRecords(records) : pass = "range" => k <= next}
Copied == {k \in DataRecords(records) : pass = "copy" => k <= next}

Fits == Usable /\ UINT32_MAX \notin Covered(records)

RangeInv ==
  Fits /\ pass \in {"range", "ranged"} =>
    /\ \A k \in Ranged : min <= StartOf(records, k)
                          /\ StartOf(records, k) + Len(records[k].data) <= max
    /\ min = UINT32_MAX \/ \E k \in Ranged : StartOf(records, k) = min
    /\ max = 0 \/ \E k \in Ranged : StartOf(records, k) + Len(records[k].data) = max

CopyInv ==
  Usable /\ InOrder(records) /\ pass \in {"copy", "copied"} =>
    \A a \in 0 .. n - 1 :
      /\ \A k \in Copied : a \in Extent(records, k) =>
                            dst[a] = records[k].data[a - StartOf(records, k) + 1]
      /\ (\A k \in Copied : a \notin Extent(records, k)) => dst[a] = 0

LEMMA DataType ==
  ASSUME records \in Seq(HexRecord), Understood(records), NEW k \in DataRecords(records)
  PROVE  /\ StartOf(records, k) \in Nat /\ StartOf(records, k) <= HighBase + UINT16_MAX
         /\ Len(records[k].data) \in Nat
<1>1. k \in 1 .. Len(records)
  BY DEF DataRecords
<1>2. /\ records[k].address \in Nat /\ records[k].address <= UINT16_MAX
      /\ Base(records, k) \in Nat /\ Base(records, k) <= HighBase
      /\ Len(records[k].data) \in Nat
  BY <1>1, RecordType, BaseType
<1>3. HighBase \in Nat /\ UINT16_MAX \in Nat
  BY BaseBound DEF UINT16_MAX
<1>4. QED
  BY <1>2, <1>3 DEF StartOf

\* Where data ends before the last address, its end is no larger.
LEMMA EndInRange ==
  ASSUME records \in Seq(HexRecord), Fits, UINT32_MAX >= HighBase + UINT16_MAX,
         NEW k \in DataRecords(records)
  PROVE  /\ StartOf(records, k) \in Nat /\ Len(records[k].data) \in Nat
         /\ StartOf(records, k) + Len(records[k].data) <= UINT32_MAX
         /\ Len(records[k].data) > 0 => StartOf(records, k) < UINT32_MAX
<1> DEFINE s == StartOf(records, k)
           l == Len(records[k].data)
<1>1. /\ s \in Nat /\ s <= HighBase + UINT16_MAX /\ l \in Nat
      /\ HighBase \in Nat /\ UINT16_MAX \in Nat /\ UINT32_MAX \in Nat
  BY DataType, BaseBound, ImageAssumption DEF Fits, Usable, UINT16_MAX
<1>2. UINT32_MAX \notin s .. s + l - 1
  BY DEF Fits, Covered, Extent
<1> HIDE DEF s, l
<1>3. s <= UINT32_MAX
  BY <1>1
<1>4. s + l <= UINT32_MAX /\ (l > 0 => s < UINT32_MAX)
  BY <1>1, <1>2, <1>3
<1>5. QED
  BY <1>1, <1>4 DEF s, l

LEMMA RangeStep ==
  ASSUME UINT32_MAX >= HighBase + UINT16_MAX, ImageInv, RangeInv, [EepromNext]_allVars
  PROVE  RangeInv'
<1>t. /\ records \in Seq(HexRecord) /\ Len(records) \in Nat /\ next \in Nat
      /\ min \in Nat /\ max \in Nat /\ UINT32_MAX \in Nat
  BY ImageTyped
<1>1. CASE UNCHANGED vars
  <2>1. UNCHANGED <<pass, next, min, max, records>>
    BY <1>1 DEF vars, image, parser
  <2>2. Ranged' = Ranged /\ Fits' = Fits
    BY <2>1, SameRecords DEF Ranged, Fits
  <2>3. QED
    BY <2>1, <2>2, SameRecords DEF RangeInv
<1>2. CASE ihex_rs_get_address_range
  <2>1. /\ pass' = "range" /\ next' = 0 /\ min' = UINT32_MAX /\ max' = 0
        /\ records' = records
    BY <1>2 DEF ihex_rs_get_address_range, parser
  <2>2. Ranged' = {}
    <3>1. \A k \in DataRecords(records') : ~(k <= 0)
      BY <1>t, <2>1 DEF DataRecords
    <3>2. QED
      BY <2>1, <3>1 DEF Ranged
  <2>3. QED
    BY <2>1, <2>2 DEF RangeInv
<1>3. CASE RangeRecord
  <2>1. /\ pass = "range" /\ AtData /\ next' = Stop
        /\ min' = IF Address < min THEN Address ELSE min
        /\ max' = IF End > max THEN End ELSE max
        /\ pass' = pass /\ records' = records
    BY <1>3 DEF RangeRecord, parser
  <2> SUFFICES ASSUME Fits'
               PROVE  /\ \A k \in Ranged' : min' <= StartOf(records, k)
                                             /\ StartOf(records, k) + Len(records[k].data) <= max'
                      /\ min' = UINT32_MAX \/ \E k \in Ranged' : StartOf(records, k) = min'
                      /\ max' = 0
                           \/ \E k \in Ranged' : StartOf(records, k) + Len(records[k].data) = max'
    BY <2>1 DEF RangeInv
  <2>2. Fits
    BY <2>1, SameRecords DEF Fits
  <2>3. /\ Stop \in DataRecords(records) /\ Rec = records[Stop] /\ Address = StartOf(records, Stop)
        /\ \A k \in DataRecords(records) : k <= Stop <=> k <= next \/ k = Stop
    BY <1>t, <2>1, <2>2, AtDataFacts DEF Fits, DataRecords
  <2>4. Ranged' = Ranged \cup {Stop}
    BY <2>1, <2>3 DEF Ranged
  <2> DEFINE s == StartOf(records, Stop)
             l == Len(records[Stop].data)
  <2>5. s \in Nat /\ l \in Nat /\ s + l <= UINT32_MAX
    BY <1>t, <2>2, <2>3, EndInRange
  <2>6. End = s + l
    <3>1. End = (s + l) % (UINT32_MAX + 1)
      BY <2>3 DEF End
    <3> HIDE DEF s, l
    <3>2. QED
      BY <1>t, <2>5, <3>1
  <2>7. /\ min' = IF s < min THEN s ELSE min
        /\ max' = IF s + l > max THEN s + l ELSE max
    BY <2>1, <2>3, <2>6
  <2>8. /\ \A k \in Ranged : min <= StartOf(records, k)
                              /\ StartOf(records, k) + Len(records[k].data) <= max
        /\ min = UINT32_MAX \/ \E k \in Ranged : StartOf(records, k) = min
        /\ max = 0 \/ \E k \in Ranged : StartOf(records, k) + Len(records[k].data) = max
    BY <2>1, <2>2 DEF RangeInv
  <2>9. \A k \in Ranged : StartOf(records, k) \in Nat /\ Len(records[k].data) \in Nat
    BY <1>t, <2>2, EndInRange DEF Ranged
  <2>10. ASSUME NEW k \in Ranged'
         PROVE  min' <= StartOf(records, k) /\ StartOf(records, k) + Len(records[k].data) <= max'
    <3>1. CASE k = Stop
      <4> HIDE DEF s, l
      <4>1. min' <= s /\ s + l <= max'
        BY <1>t, <2>5, <2>7
      <4>2. QED
        BY <3>1, <4>1 DEF s, l
    <3>2. CASE k \in Ranged
      <4> DEFINE sk == StartOf(records, k)
                 lk == Len(records[k].data)
      <4>1. sk \in Nat /\ lk \in Nat /\ min <= sk /\ sk + lk <= max
        BY <2>8, <2>9, <3>2
      <4> HIDE DEF s, l, sk, lk
      <4>2. min' <= sk /\ sk + lk <= max'
        BY <1>t, <2>5, <2>7, <4>1
      <4>3. QED
        BY <4>2 DEF sk, lk
    <3>3. QED
      BY <2>4, <3>1, <3>2
  <2>11. min' = UINT32_MAX \/ \E k \in Ranged' : StartOf(records, k) = min'
    BY <2>4, <2>7, <2>8
  <2>12. max' = 0 \/ \E k \in Ranged' : StartOf(records, k) + Len(records[k].data) = max'
    BY <2>4, <2>7, <2>8
  <2>13. QED
    BY <2>10, <2>11, <2>12
<1>4. CASE ihex_rs_from_mem \/ ihex_mem_copy \/ CopyRecord \/ OutOfRange \/ IterateFails
  <2>1. pass' \notin {"range", "ranged"}
    BY <1>4 DEF ihex_rs_from_mem, ihex_mem_copy, CopyRecord, OutOfRange, IterateFails
  <2>2. QED
    BY <2>1 DEF RangeInv
<1>5. CASE IterateEnds /\ pass = "copy"
  <2>1. pass' = "copied"
    BY <1>5 DEF IterateEnds
  <2>2. QED
    BY <2>1 DEF RangeInv
<1>6. CASE IterateEnds /\ pass = "range"
  <2>1. /\ pass = "range" /\ pass' = "ranged" /\ AtEnd
        /\ UNCHANGED <<min, max, records>>
    BY <1>6 DEF IterateEnds, parser
  <2>2. Ranged' = DataRecords(records) /\ Ranged = DataRecords(records)
    BY <2>1, AtEndFacts, SameRecords DEF Ranged
  <2>3. Fits' = Fits
    BY <2>1, SameRecords DEF Fits
  <2>4. QED
    BY <2>1, <2>2, <2>3, SameRecords DEF RangeInv
<1>7. QED
  BY <1>1, <1>2, <1>3, <1>4, <1>5, <1>6 DEF EepromNext, UseImage, Next, write_eeprom, WriteByte,
     NextRecord, AllWritten, IterateEnds, allVars

LEMMA RangeAtEnd == ASSUME ImageInv, RangeInv, UINT32_MAX >= HighBase + UINT16_MAX
                    PROVE  RangeHoldsData
<1> SUFFICES ASSUME pass = "ranged", Fits, Covered(records) # {}
             PROVE  /\ \A a \in Covered(records) : a \in min .. max - 1
                    /\ \E k \in DataRecords(records) : StartOf(records, k) = min
                    /\ \E k \in DataRecords(records) :
                         StartOf(records, k) + Len(records[k].data) = max
  BY DEF RangeHoldsData, Fits
<1>t. records \in Seq(HexRecord) /\ min \in Nat /\ max \in Nat /\ UINT32_MAX \in Nat
  BY ImageTyped
<1>1. Ranged = DataRecords(records)
  BY DEF Ranged
<1>2. /\ \A k \in DataRecords(records) :
           min <= StartOf(records, k) /\ StartOf(records, k) + Len(records[k].data) <= max
      /\ min = UINT32_MAX \/ \E k \in DataRecords(records) : StartOf(records, k) = min
      /\ max = 0 \/ \E k \in DataRecords(records) :
                       StartOf(records, k) + Len(records[k].data) = max
  BY <1>1 DEF RangeInv
<1>3. ASSUME NEW a \in Covered(records)
      PROVE  a \in min .. max - 1 /\ min # UINT32_MAX /\ max # 0
  <2>1. PICK k \in DataRecords(records) : a \in Extent(records, k)
    BY DEF Covered
  <2> DEFINE s == StartOf(records, k)
             l == Len(records[k].data)
  <2>2. /\ s \in Nat /\ l \in Nat /\ s + l <= UINT32_MAX /\ (l > 0 => s < UINT32_MAX)
        /\ min <= s /\ s + l <= max /\ a \in s .. s + l - 1
    BY <1>t, <1>2, <2>1, EndInRange DEF Extent
  <2> HIDE DEF s, l
  <2>3. QED
    BY <1>t, <2>2
<1>4. QED
  BY <1>2, <1>3

\* ihex_rs_get_address_range: the range is the smallest that holds all data, for
\* every file in the form that the library understands and addresses of 32 bits.
THEOREM RangeIsSmallest ==
  ASSUME UINT32_MAX >= HighBase + UINT16_MAX
  PROVE  EepromSpec => []RangeHoldsData
<1>1. EepromInit => ImageInv /\ RangeInv
  <2>1. EepromInit => pass = "parse"
    BY DEF EepromInit, Init
  <2>2. QED
    BY <2>1, ImageInit DEF RangeInv
<1>2. ImageInv /\ RangeInv /\ [EepromNext]_allVars => (ImageInv /\ RangeInv)'
  BY ImageStep, RangeStep
<1>3. ImageInv /\ RangeInv => RangeHoldsData
  BY RangeAtEnd
<1>4. QED
  BY <1>1, <1>2, <1>3, PTL DEF EepromSpec

-----------------------------------------------------------------------------
(* The end of the highest store. *)

LEMMA StoreStep ==
  ASSUME ImageInv, StoredInBuffer, [EepromNext]_allVars
  PROVE  StoredInBuffer'
<1>t. top \in Nat /\ n \in Nat
  BY ImageTyped
<1>1. CASE UNCHANGED vars
  <2>1. UNCHANGED <<top, records>>
    BY <1>1 DEF vars, image, parser
  <2>2. QED
    BY <2>1, SameRecords DEF StoredInBuffer
<1>2. CASE ihex_rs_from_mem
  <2>1. top' = 0
    BY <1>2 DEF ihex_rs_from_mem, ImageInv
  <2>2. QED
    BY <1>t, <2>1 DEF StoredInBuffer
<1>3. CASE CopyRecord
  <2>1. /\ pass = "copy" /\ AtData /\ records' = records
        /\ top' = Max({top, IF Rec.data = << >> THEN 0 ELSE Address + Stored(Rec)})
    BY <1>3 DEF CopyRecord, parser
  <2> SUFFICES ASSUME top' > n, Usable PROVE \E a \in Covered(records) : a + 3 >= n
    BY <2>1, SameRecords DEF StoredInBuffer
  <2>2. /\ Stop \in DataRecords(records) /\ Rec = records[Stop]
        /\ Address = StartOf(records, Stop) /\ Address \in Nat
        /\ Rec.data \in Seq(HexByte) /\ Len(Rec.data) \in Nat
    <3>1. DOMAIN records = 1 .. Len(records)
      BY ImageTyped
    <3>2. QED
      BY <2>1, <3>1, AtDataFacts DEF DataRecords
  <2>3. Stored(Rec) \in Nat /\ Stored(Rec) <= Len(Rec.data) + 3
    BY <2>2, StoredType
  <2> DEFINE x == IF Rec.data = << >> THEN 0 ELSE Address + Stored(Rec)
  <2>4. x \in Nat
    BY <2>2, <2>3
  <2>5. top' \in {top, x}
    BY <1>t, <2>1, <2>4, MaxOfTwo
  <2>6. CASE top' = top
    BY <2>6 DEF StoredInBuffer
  <2>7. CASE top' = x
    <3>1. Rec.data # << >> /\ Address + Stored(Rec) > n
      BY <1>t, <2>7
    <3>2. Len(Rec.data) > 0
      BY <2>2, <3>1
    <3> DEFINE a == Address + Len(Rec.data) - 1
    <3>3. a \in Extent(records, Stop)
      <4>1. a \in Address .. Address + Len(Rec.data) - 1
        BY <2>2, <3>2, Places
      <4>2. QED
        BY <2>2, <4>1 DEF Extent
    <3>4. a \in Covered(records)
      BY <2>2, <3>3 DEF Covered
    <3>5. a + 3 >= n
      <4> DEFINE ad == Address
                 l == Len(Rec.data)
                 w == Stored(Rec)
      <4>1. ad \in Nat /\ l \in Nat /\ w \in Nat /\ w <= l + 3 /\ ad + w > n /\ n \in Nat
        BY <1>t, <2>2, <2>3, <3>1
      <4> HIDE DEF ad, l, w
      <4>2. (ad + l - 1) + 3 >= n
        BY <4>1
      <4>3. QED
        BY <4>2 DEF ad, l
    <3>6. QED
      BY <3>4, <3>5
  <2>8. QED
    BY <2>5, <2>6, <2>7
<1>4. CASE \/ ihex_rs_get_address_range \/ ihex_mem_copy
           \/ RangeRecord \/ OutOfRange \/ IterateFails \/ IterateEnds
  <2>1. UNCHANGED <<top, records>>
    BY <1>4 DEF ihex_rs_get_address_range, ihex_mem_copy, RangeRecord, OutOfRange,
       IterateFails, IterateEnds, parser
  <2>2. QED
    BY <2>1, SameRecords DEF StoredInBuffer
<1>5. QED
  BY <1>1, <1>2, <1>3, <1>4 DEF EepromNext, UseImage, Next, write_eeprom, WriteByte,
     NextRecord, AllWritten, allVars

\* ihex_mem_copy: whatever the file, if the library understands it, a store behind
\* the buffer needs data in the last three bytes of the buffer or behind it.
THEOREM StoresEndInBuffer == EepromSpec => []StoredInBuffer
<1>1. EepromInit => ImageInv /\ StoredInBuffer
  <2>1. EepromInit => top = 0 /\ n \in Nat
    BY ImageAssumption DEF EepromInit, Init
  <2>2. QED
    BY <2>1, ImageInit DEF StoredInBuffer
<1>2. ImageInv /\ StoredInBuffer /\ [EepromNext]_allVars => (ImageInv /\ StoredInBuffer)'
  BY ImageStep, StoreStep
<1>3. QED
  BY <1>1, <1>2, PTL DEF EepromSpec

-----------------------------------------------------------------------------
(* The copy. *)

\* What the buffer holds at a, if S are the records that were copied.
Right(a, S) ==
  /\ \A k \in S : a \in Extent(records, k) =>
                    dst[a] = records[k].data[a - StartOf(records, k) + 1]
  /\ (\A k \in S : a \notin Extent(records, k)) => dst[a] = 0

LEMMA CopyInvIs ==
  CopyInv <=> (Usable /\ InOrder(records) /\ pass \in {"copy", "copied"} =>
                 \A a \in 0 .. n - 1 : Right(a, Copied))
BY DEF CopyInv, Right

\* Records in order: what one adds leaves the earlier ones as they are, the zeros
\* stored behind each included.
LEMMA CopyOne ==
  ASSUME ImageInv, CopyRecord, Usable, InOrder(records),
         \A a \in 0 .. n - 1 : Right(a, Copied)
  PROVE  \A a \in 0 .. n - 1 : Right(a, Copied)'
<1>t. /\ records \in Seq(HexRecord) /\ Len(records) \in Nat /\ next \in Nat
      /\ dst \in [0 .. n - 1 -> HexByte] /\ n \in Nat
  BY ImageTyped
<1>1. /\ pass = "copy" /\ AtData /\ next' = Stop
      /\ dst' = [a \in DOMAIN dst |->
                   LET k == a - Address + 1 IN
                   IF k \in DOMAIN Rec.data THEN Rec.data[k]
                   ELSE IF k \in 1 .. Stored(Rec) THEN 0 ELSE dst[a]]
      /\ pass' = pass /\ records' = records
  BY DEF CopyRecord, parser
<1>2. /\ Stop \in DataRecords(records) /\ Stop \in Nat /\ Stop > next /\ Rec = records[Stop]
      /\ Address = StartOf(records, Stop) /\ Address \in Nat
      /\ Rec.data \in Seq(HexByte) /\ Len(Rec.data) \in Nat
      /\ \A k \in DataRecords(records) : k <= Stop <=> k <= next \/ k = Stop
  BY <1>t, <1>1, AtDataFacts DEF DataRecords
<1>3. Stored(Rec) \in Nat
  BY <1>2, StoredType
<1>4. Copied' = Copied \cup {Stop}
  BY <1>1, <1>2 DEF Copied, DataRecords
<1>5. ASSUME NEW k \in Copied
      PROVE  /\ StartOf(records, k) \in Nat /\ Len(records[k].data) \in Nat
             /\ StartOf(records, k) + Len(records[k].data) <= Address
  <2>1. k \in DataRecords(records) /\ k < Stop
    <3>1. k \in DataRecords(records) /\ k <= next /\ k \in Nat
      BY <1>t, <1>1 DEF Copied, DataRecords
    <3>2. QED
      BY <1>t, <1>2, <3>1
  <2>2. StartOf(records, k) + Len(records[k].data) <= StartOf(records, Stop)
    BY <1>2, <2>1 DEF InOrder
  <2>3. QED
    BY <1>t, <1>2, <2>1, <2>2, DataType DEF Usable
<1>6. ASSUME NEW a \in 0 .. n - 1
      PROVE  Right(a, Copied)'
  <2> DEFINE x == a - Address + 1
             s == Address
             l == Len(Rec.data)
  <2>1. dst'[a] = IF x \in DOMAIN Rec.data THEN Rec.data[x]
                  ELSE IF x \in 1 .. Stored(Rec) THEN 0 ELSE dst[a]
    BY <1>t, <1>1
  <2>2. /\ DOMAIN Rec.data = 1 .. l /\ a \in Int /\ x \in Int
        /\ a \in Extent(records, Stop) <=> x \in 1 .. l
    <3>1. DOMAIN Rec.data = 1 .. l /\ a \in Int
      BY <1>t, <1>2
    <3>2. Extent(records, Stop) = s .. s + l - 1 /\ s \in Nat /\ l \in Nat
      BY <1>2 DEF Extent
    <3> HIDE DEF s, l
    <3>3. a \in s .. s + l - 1 <=> a - s + 1 \in 1 .. l
      BY <3>1, <3>2, Places
    <3>4. a - s + 1 \in Int
      BY <3>1, <3>2
    <3>5. QED
      BY <3>1, <3>2, <3>3, <3>4 DEF s
  <2>3. Right(a, Copied)
    OBVIOUS
  <2>4. ASSUME NEW k \in Copied, a \in Extent(records, k) PROVE dst'[a] = dst[a]
    <3> DEFINE sk == StartOf(records, k)
               lk == Len(records[k].data)
    <3>1. a \in sk .. sk + lk - 1 /\ sk \in Nat /\ lk \in Nat /\ sk + lk <= s /\ s \in Nat
      BY <1>2, <1>5, <2>4 DEF Extent
    <3> HIDE DEF sk, lk
    <3>2. a < s
      BY <2>2, <3>1
    <3>3. x <= 0
      BY <1>2, <2>2, <3>2
    <3>4. x \notin 1 .. l /\ x \notin 1 .. Stored(Rec)
      BY <2>2, <3>3
    <3>5. QED
      BY <2>1, <2>2, <3>4
  <2>5. ASSUME a \in Extent(records, Stop)
        PROVE  dst'[a] = records[Stop].data[a - StartOf(records, Stop) + 1]
    <3>1. x \in DOMAIN Rec.data
      BY <2>2, <2>5
    <3>2. QED
      BY <1>2, <2>1, <3>1
  <2>6. ASSUME \A k \in Copied' : a \notin Extent(records, k) PROVE dst'[a] = 0
    <3>1. dst[a] = 0 /\ x \notin DOMAIN Rec.data
      BY <1>4, <2>2, <2>3, <2>6 DEF Right
    <3>2. QED
      BY <2>1, <3>1
  <2>7. \A k : Extent(records', k) = Extent(records, k) /\ StartOf(records', k) = StartOf(records, k)
    BY <1>1
  <2>8. \A k \in Copied' : a \in Extent(records, k) =>
          dst'[a] = records[k].data[a - StartOf(records, k) + 1]
    BY <1>4, <2>3, <2>4, <2>5 DEF Right
  <2>9. QED
    BY <1>1, <2>6, <2>7, <2>8 DEF Right
<1>7. QED
  BY <1>6

LEMMA CopyStep ==
  ASSUME ImageInv, CopyInv, [EepromNext]_allVars
  PROVE  CopyInv'
<1>t. n \in Nat /\ next \in Nat /\ dst \in [0 .. n - 1 -> HexByte]
  BY ImageTyped
<1>1. ASSUME UNCHANGED <<pass, records, dst>>, Copied' = Copied PROVE CopyInv'
  <2>1. Usable' = Usable /\ InOrder(records') = InOrder(records)
    BY <1>1, SameRecords
  <2>2. \A a : Right(a, Copied)' = Right(a, Copied)
    BY <1>1 DEF Right
  <2>3. (Usable /\ InOrder(records) /\ pass \in {"copy", "copied"} =>
           \A a \in 0 .. n - 1 : Right(a, Copied)) => CopyInv'
    BY <1>1, <2>1, <2>2 DEF CopyInv, Right
  <2>4. QED
    BY <2>3, CopyInvIs
<1>2. CASE UNCHANGED vars
  <2>1. UNCHANGED <<pass, next, records, dst>>
    BY <1>2 DEF vars, image, parser
  <2>2. QED
    BY <1>1, <2>1, SameRecords DEF Copied
<1>3. CASE \/ ihex_rs_from_mem \/ ihex_rs_get_address_range \/ RangeRecord \/ OutOfRange
           \/ IterateFails \/ (IterateEnds /\ pass = "range")
  <2>1. pass' \notin {"copy", "copied"}
    BY <1>3 DEF ihex_rs_from_mem, ihex_rs_get_address_range, RangeRecord, OutOfRange,
       IterateFails, IterateEnds
  <2>2. QED
    BY <2>1 DEF CopyInv
<1>4. CASE CopyRecord
  <2>1. pass = "copy" /\ records' = records
    BY <1>4 DEF CopyRecord, parser
  <2>2. Usable' = Usable /\ InOrder(records') = InOrder(records)
    BY <2>1, SameRecords
  <2> SUFFICES ASSUME Usable, InOrder(records) PROVE \A a \in 0 .. n - 1 : Right(a, Copied)'
    BY <2>2, CopyInvIs DEF CopyInv, Right
  <2>3. \A a \in 0 .. n - 1 : Right(a, Copied)
    BY <2>1, CopyInvIs
  <2>4. QED
    BY <1>4, <2>3, CopyOne
<1>5. CASE ihex_mem_copy
  <2>1. next' = 0 /\ pass' = "copy" /\ records' = records /\ dst' = [a \in DOMAIN dst |-> 0]
    BY <1>5 DEF ihex_mem_copy, parser
  <2>2. Copied' = {}
    <3>1. \A k \in DataRecords(records') : ~(k <= 0)
      BY <2>1, ImageTyped DEF DataRecords
    <3>2. QED
      BY <2>1, <3>1 DEF Copied
  <2>3. \A a \in 0 .. n - 1 : dst'[a] = 0
    BY <1>t, <2>1
  <2>4. QED
    BY <2>2, <2>3 DEF CopyInv
<1>6. CASE IterateEnds /\ pass = "copy"
  <2>1. next' = 0 /\ pass' = "copied" /\ AtEnd /\ UNCHANGED <<records, dst>>
    BY <1>6 DEF IterateEnds, parser
  <2>2. Copied' = Copied
    BY <1>6, <2>1, AtEndFacts, SameRecords DEF Copied
  <2>3. Usable' = Usable /\ InOrder(records') = InOrder(records)
    BY <2>1, SameRecords
  <2>4. \A a : Right(a, Copied)' = Right(a, Copied)
    BY <2>1, <2>2 DEF Right
  <2>5. (Usable /\ InOrder(records) => \A a \in 0 .. n - 1 : Right(a, Copied)) => CopyInv'
    BY <2>1, <2>3, <2>4 DEF CopyInv, Right
  <2>6. QED
    BY <1>6, <2>5, CopyInvIs
<1>7. QED
  BY <1>2, <1>3, <1>4, <1>5, <1>6 DEF EepromNext, UseImage, Next, write_eeprom, WriteByte,
     NextRecord, AllWritten, allVars, IterateEnds

LEMMA CopyAtEnd == ASSUME CopyInv PROVE CopyIsImage
<1> SUFFICES ASSUME pass = "copied", Usable, InOrder(records), NEW a \in 0 .. n - 1
             PROVE  dst[a] = IF a \in Covered(records) THEN ByteAt(records, a) ELSE 0
  BY DEF CopyIsImage
<1>1. Copied = DataRecords(records) /\ Right(a, Copied)
  BY CopyInvIs DEF Copied
<1>2. CASE a \in Covered(records)
  <2> DEFINE c == CHOOSE k \in DataRecords(records) : a \in Extent(records, k)
  <2>1. \E k \in DataRecords(records) : a \in Extent(records, k)
    BY <1>2 DEF Covered
  <2>2. c \in DataRecords(records) /\ a \in Extent(records, c)
    BY <2>1
  <2>3. ByteAt(records, a) = records[c].data[a - StartOf(records, c) + 1]
    BY DEF ByteAt
  <2> HIDE DEF c
  <2>4. QED
    BY <1>1, <1>2, <2>2, <2>3 DEF Right
<1>3. CASE a \notin Covered(records)
  BY <1>1, <1>3 DEF Covered, Right
<1>4. QED
  BY <1>2, <1>3

\* ihex_mem_copy: a copy that succeeds holds the image of every file in order that
\* the library understands, with zeros where the file says nothing.
THEOREM CopyIsRight == EepromSpec => []CopyIsImage
<1>1. EepromInit => ImageInv /\ CopyInv
  <2>1. EepromInit => pass = "parse"
    BY DEF EepromInit, Init
  <2>2. QED
    BY <2>1, ImageInit DEF CopyInv
<1>2. ImageInv /\ CopyInv /\ [EepromNext]_allVars => (ImageInv /\ CopyInv)'
  BY ImageStep, CopyStep
<1>3. CopyInv => CopyIsImage
  BY CopyAtEnd
<1>4. QED
  BY <1>1, <1>2, <1>3, PTL DEF EepromSpec

-----------------------------------------------------------------------------
(* The EEPROM. *)

LEMMA CellType == \A a \in Nat : Address16(a) % EepromSize \in Cells
<1> SUFFICES ASSUME NEW a \in Nat PROVE Address16(a) % EepromSize \in Cells
  OBVIOUS
<1>1. Address16(a) \in Nat
  BY SMT DEF Address16
<1>2. EepromSize \in Nat /\ EepromSize > 0
  BY EepromAssumption
<1>3. \A x \in Nat : x % EepromSize \in 0 .. EepromSize - 1
  BY <1>2
<1>4. QED
  BY <1>1, <1>3 DEF Cells

\* Nothing of the EEPROM is touched before it is used.
DeviceInv ==
  /\ ImageInv /\ EepromTypeOK
  /\ use = "none" => record = 1 /\ j = 0

LEMMA DeviceInit == EepromInit => DeviceInv
<1> SUFFICES ASSUME EepromInit PROVE DeviceInv
  OBVIOUS
<1>1. ImageInv
  BY ImageInit
<1>2. /\ use = "none" /\ record = 1 /\ j = 0 /\ lost = 0
      /\ eeprom = [a \in Cells |-> Old]
  BY DEF EepromInit
<1>3. Len(records) \in Nat /\ \A k \in 1 .. Len(records) : Len(records[k].data) \in Nat
  BY <1>1, ImageTyped, RecordType
<1>4. 1 \in 1 .. Len(records) + 1 /\ (1 <= Len(records) => 0 \in 0 .. Len(records[1].data))
  BY <1>3
<1>5. 0 \in 0 .. MaxLost
  BY EepromAssumption
<1>6. eeprom \in [Cells -> HexByte \cup {Old}]
  BY <1>2
<1>7. QED
  BY <1>1, <1>2, <1>4, <1>5, <1>6 DEF DeviceInv, EepromTypeOK, ImageInv

LEMMA DeviceStep == DeviceInv /\ [EepromNext]_allVars => DeviceInv'
<1> SUFFICES ASSUME DeviceInv, [EepromNext]_allVars PROVE DeviceInv'
  OBVIOUS
<1>i. ImageInv'
  BY ImageStep DEF DeviceInv
<1>j. TypeOK' /\ records' \in Seq(HexRecord) /\ Len(records') \in Nat
  BY <1>i DEF ImageInv, Walk, ParserTypeOK
<1>t. /\ use \in {"none", "writing", "written"} /\ record \in 1 .. Len(records) + 1
      /\ record <= Len(records) => j \in 0 .. Len(records[record].data)
      /\ eeprom \in [Cells -> HexByte \cup {Old}] /\ lost \in 0 .. MaxLost
      /\ use = "none" => record = 1 /\ j = 0
      /\ records \in Seq(HexRecord) /\ Len(records) \in Nat /\ MaxLost \in Nat
  BY ImageTyped, EepromAssumption DEF DeviceInv, EepromTypeOK
<1>l. \A k \in 1 .. Len(records) :
        /\ Len(records[k].data) \in Nat /\ records[k].address \in Nat
        /\ records[k].data \in Seq(HexByte)
  BY <1>t, RecordType
<1>1. CASE UNCHANGED allVars
  BY <1>i, <1>j, <1>1 DEF DeviceInv, EepromTypeOK, allVars, vars, device, parser
<1>2. CASE UseImage
  <2>1. use = "none" /\ UNCHANGED device
    BY <1>2 DEF UseImage
  <2>2. use' = "none" /\ record' = 1 /\ j' = 0 /\ eeprom' = eeprom /\ lost' = lost
    BY <1>t, <2>1 DEF device
  <2>3. 1 <= Len(records') => Len(records'[1].data) \in Nat
    <3>1. \A rs \in Seq(HexRecord) : 1 <= Len(rs) => rs[1] \in HexRecord
      OBVIOUS
    <3>2. \A rec \in HexRecord : Len(rec.data) \in Nat
      <4> SUFFICES ASSUME NEW rec \in HexRecord PROVE Len(rec.data) \in Nat
        OBVIOUS
      <4>1. rec.data \in Seq(HexByte)
        BY DEF HexRecord
      <4>2. QED
        BY <4>1
    <3>3. QED
      BY <1>j, <3>1, <3>2
  <2>4. 1 \in 1 .. Len(records') + 1 /\ (1 <= Len(records') => 0 \in 0 .. Len(records'[1].data))
    BY <1>j, <2>3
  <2>5. QED
    BY <1>i, <1>j, <1>t, <2>2, <2>4 DEF DeviceInv, EepromTypeOK
<1>3. CASE write_eeprom \/ AllWritten
  <2>1. use' \in {"writing", "written"} /\ UNCHANGED <<vars, record, j, eeprom, lost>>
    BY <1>3 DEF write_eeprom, AllWritten
  <2>2. QED
    BY <1>i, <1>j, <1>t, <2>1 DEF DeviceInv, EepromTypeOK, vars, parser
<1>4. CASE WriteByte
  <2>1. /\ use = "writing" /\ record <= Len(records) /\ j < Len(records[record].data)
        /\ j' = j + 1 /\ UNCHANGED <<vars, use, record>>
        /\ \/ /\ Program(Address16(records[record].address + j), records[record].data[j'])
              /\ UNCHANGED lost
           \/ /\ lost < MaxLost /\ lost' = lost + 1 /\ UNCHANGED eeprom
    BY <1>4 DEF WriteByte, BytesLeft
  <2>2. /\ record \in 1 .. Len(records) /\ j \in Nat
        /\ records[record].address \in Nat /\ records[record].data \in Seq(HexByte)
        /\ Len(records[record].data) \in Nat
    BY <1>t, <1>l, <2>1
  <2>3. j' \in 0 .. Len(records[record].data) /\ j' \in 1 .. Len(records[record].data)
    BY <2>1, <2>2
  <2>4. lost' \in 0 .. MaxLost
    BY <1>t, <2>1
  <2>5. eeprom' \in [Cells -> HexByte \cup {Old}]
    <3>1. records[record].data[j'] \in HexByte
      BY <2>2, <2>3
    <3>2. Address16(records[record].address + j) % EepromSize \in Cells
      BY <2>2, CellType
    <3>3. QED
      BY <1>t, <2>1, <3>1, <3>2 DEF Program
  <2>6. records' = records /\ record' = record /\ use' = use
    BY <2>1 DEF vars, parser
  <2>7. QED
    BY <1>i, <1>j, <1>t, <2>1, <2>3, <2>4, <2>5, <2>6 DEF DeviceInv, EepromTypeOK
<1>5. CASE NextRecord
  <2>1. /\ use = "writing" /\ record <= Len(records) /\ record' = record + 1 /\ j' = 0
        /\ UNCHANGED <<vars, use, eeprom, lost>>
    BY <1>5 DEF NextRecord
  <2>2. record' \in 1 .. Len(records) + 1
    BY <1>t, <2>1
  <2>3. record' <= Len(records) => 0 \in 0 .. Len(records[record'].data)
    BY <1>t, <1>l, <2>2
  <2>4. records' = records
    BY <2>1 DEF vars, parser
  <2>5. QED
    BY <1>i, <1>j, <1>t, <2>1, <2>2, <2>3, <2>4 DEF DeviceInv, EepromTypeOK
<1>6. QED
  BY <1>1, <1>2, <1>3, <1>4, <1>5 DEF EepromNext

\* Every byte that write_eeprom sends is one of its record, and every address it
\* sends names a cell.
THEOREM EepromTypeCorrect == EepromSpec => []EepromTypeOK
<1>1. DeviceInv => EepromTypeOK
  BY DEF DeviceInv
<1>2. QED
  BY <1>1, DeviceInit, DeviceStep, PTL DEF EepromSpec

-----------------------------------------------------------------------------
(* What the EEPROM holds. *)

\* The records whose bytes have been sent to the cell a, and what it would hold
\* if none had been lost: the byte of the last of them.
Reach(k) == IF k < record THEN Len(records[k].data) ELSE j
Places16(k, l) == records[k].address .. records[k].address + l - 1
Sent(a) ==
  {k \in 1 .. Len(records) :
     k <= record /\ records[k].type # IHEX_SSA /\ a \in Places16(k, Reach(k))}
Expected(a) ==
  IF Sent(a) = {} THEN Old
  ELSE LET k == Max(Sent(a)) IN records[k].data[a - records[k].address + 1]
Wrong == {a \in Cells : eeprom[a] # Expected(a)}

\* A file of which every byte that is sent has a cell.
Suited == Usable /\ Harmless(records) /\ Covered(records) \subseteq Cells

\* No more cells are wrong than instructions got lost.
HoldsInv ==
  /\ use = "none" => eeprom = [a \in Cells |-> Old]
  /\ use = "written" => record > Len(records)
  /\ use # "none" /\ Suited => Cardinality(Wrong) <= lost

LEMMA SizeFits == EepromSize \in Nat \ {0} /\ EepromSize <= 65536
<1>1. \A a \in Nat, e \in Nat : a < e => a % e = a
  BY SMT
<1> QED
  BY <1>1, EepromAssumption, SMT

LEMMA CellOf ==
  ASSUME NEW a \in Cells
  PROVE  a \in Nat /\ Address16(a) % EepromSize = a
<1>1. \A x \in Nat, e \in Nat : x < e => x % e = x
  BY SMT
<1>2. a \in Nat /\ a < EepromSize /\ a < 65536 /\ EepromSize \in Nat
  BY SizeFits, SMT DEF Cells
<1> QED
  BY <1>1, <1>2, SMT DEF Address16

\* In a suited file the data lies in segment 0: the address in a record is the
\* one that the format means.
LEMMA SuitedData ==
  ASSUME records \in Seq(HexRecord), Suited, NEW k \in DataRecords(records),
         Len(records[k].data) > 0
  PROVE  StartOf(records, k) = records[k].address
<1>1. /\ k \in 1 .. Len(records) /\ Understood(records) /\ Covered(records) \subseteq Cells
      /\ Len(records[k].data) \in Nat /\ records[k].address \in Nat
  BY RecordType DEF DataRecords, Suited, Usable
<1>2. Base(records, k) \in Nat
  BY <1>1, BaseType
<1>3. StartOf(records, k) \in Cells
  <2> DEFINE s == StartOf(records, k)
             l == Len(records[k].data)
  <2>1. s \in Nat /\ l \in Nat /\ l > 0 /\ Extent(records, k) = s .. s + l - 1
    BY <1>1, <1>2 DEF StartOf, Extent
  <2> HIDE DEF s, l
  <2>2. s \in Extent(records, k)
    BY <2>1
  <2> QED
    BY <1>1, <2>2 DEF Covered, s
<1>4. Base(records, k) < 65536
  <2>1. StartOf(records, k) < 65536
    BY <1>3, SizeFits DEF Cells
  <2> QED
    BY <1>1, <1>2, <2>1 DEF StartOf
<1>5. Base(records, k) = 0
  <2> DEFINE S == ExtendedIn(1, k - 1)
  <2>1. S \in SUBSET (0 .. Len(records)) /\ Len(records) \in Nat
    BY <1>1 DEF ExtendedIn
  <2>2. Base(records, k) = BaseFrom(S)
    BY BaseIs
  <2>3. CASE S = {}
    BY <2>2, <2>3 DEF BaseFrom
  <2>4. CASE S # {}
    <3>1. Max(S) \in S
      BY <2>1, <2>4, MaxOf
    <3>2. Max(S) \in 1 .. Len(records) /\ records[Max(S)].type \in Extended
      BY <1>1, <3>1 DEF ExtendedIn
    <3> DEFINE rec == records[Max(S)]
    <3>3. Base(records, k) = BaseOf(rec)
      BY <2>2, <2>4 DEF BaseFrom
    <3>4. Len(rec.data) = 2 /\ (rec.type = IHEX_ESA => Word(rec) = 0)
      BY <1>1, <3>2 DEF Understood, Extended
    <3>5. Word(rec) \in Nat
      <4>1. rec.data \in Seq(HexByte)
        BY <3>2, RecordType
      <4>2. rec.data[1] \in HexByte /\ rec.data[2] \in HexByte
        BY <3>4, <4>1
      <4> QED
        BY <4>2, WordType, SMTT(30) DEF Word
    <3> HIDE DEF rec
    <3> DEFINE w == Word(rec)
    <3>6. Base(records, k) = 16 * w \/ Base(records, k) = 65536 * w
      BY <3>3, SMT DEF BaseOf
    <3>7. w \in Nat /\ (Base(records, k) = 16 * w => w = 0)
      <4>1. rec.type = IHEX_ESA => w = 0
        BY <3>4
      <4>2. rec.type # IHEX_ESA => Base(records, k) = 65536 * w
        BY <3>3, SMT DEF BaseOf
      <4> HIDE DEF w
      <4>3. w \in Nat
        BY <3>5 DEF w
      <4> QED
        BY <4>1, <4>2, <4>3, SMT
    <3> HIDE DEF w
    <3> QED
      BY <1>4, <3>6, <3>7, SMT
  <2> QED
    BY <2>3, <2>4
<1> QED
  BY <1>1, <1>5 DEF StartOf

\* Every byte that is sent has its own cell.
LEMMA SuitedCell ==
  ASSUME records \in Seq(HexRecord), Suited, NEW k \in 1 .. Len(records),
         records[k].type # IHEX_SSA, NEW x \in 0 .. Len(records[k].data) - 1
  PROVE  records[k].address + x \in Cells
<1> DEFINE s == records[k].address
           l == Len(records[k].data)
           a == s + x
<1>1. k \in DOMAIN records /\ s \in Nat /\ l \in Nat
  BY RecordType
<1>2. a \in s .. s + l - 1
  <2>1. x \in Nat /\ x <= l - 1
    BY <1>1
  <2> HIDE DEF s, l
  <2> QED
    BY <1>1, <2>1
<1>3. CASE records[k].type = IHEX_DATA
  <2>1. k \in DataRecords(records) /\ l > 0
    BY <1>1, <1>3 DEF DataRecords
  <2>2. StartOf(records, k) = s
    BY <2>1, SuitedData
  <2>3. a \in Extent(records, k)
    BY <1>2, <2>2 DEF Extent
  <2> HIDE DEF a
  <2> QED
    BY <2>1, <2>3 DEF Covered, Suited, a
<1>4. CASE records[k].type # IHEX_DATA
  <2>1. PICK m \in Holders(records, a) : m > k
    BY <1>1, <1>2, <1>4 DEF Suited, Harmless
  <2> HIDE DEF a
  <2>2. a \in Covered(records)
    BY <2>1 DEF Holders, Covered
  <2> QED
    BY <2>2 DEF Suited, a
<1> QED
  BY <1>3, <1>4

\* Where a byte is sent, its cell has one record more; every other cell has the
\* records it had.
LEMMA SentByte ==
  ASSUME DeviceInv, WriteByte, Suited
  PROVE  LET a0 == records[record].address + j IN
         /\ a0 \in Cells
         /\ \A a \in Cells : Sent(a)' = Sent(a) \cup IF a = a0 THEN {record} ELSE {}
<1> DEFINE s == records[record].address
           a0 == s + j
<1>1. /\ record \in 1 .. Len(records) /\ records[record].type # IHEX_SSA
      /\ j < Len(records[record].data) /\ j' = j + 1 /\ record' = record /\ records' = records
      /\ records \in Seq(HexRecord) /\ Len(records) \in Nat
  BY ImageTyped, SMTT(30) DEF DeviceInv, EepromTypeOK, WriteByte, BytesLeft, vars, parser
<1>2. j \in Nat /\ s \in Nat /\ j \in 0 .. Len(records[record].data) - 1
  <2>1. j \in 0 .. Len(records[record].data) /\ Len(records[record].data) \in Nat /\ s \in Nat
    BY <1>1, RecordType DEF DeviceInv, EepromTypeOK
  <2> QED
    BY <1>1, <2>1
<1>3. a0 \in Cells
  BY <1>1, <1>2, SuitedCell
<1>4. ASSUME NEW a \in Cells
      PROVE  /\ a # a0 => Sent(a)' = Sent(a)
             /\ a = a0 => Sent(a)' = Sent(a) \cup {record}
  <2>1. a \in Nat
    BY CellOf
  <2>2. a \in s .. s + (j + 1) - 1 <=> a \in s .. s + j - 1 \/ a = a0
    <3>1. \A x, y, z \in Nat : x \in y .. y + (z + 1) - 1 <=> x \in y .. y + z - 1 \/ x = y + z
      OBVIOUS
    <3> QED
      BY <1>2, <2>1, <3>1
  <2>3. ASSUME NEW k \in 1 .. Len(records)
        PROVE  k \in Sent(a)' <=> k \in Sent(a) \/ (k = record /\ a = a0)
    <3>1. CASE k = record
      <4>1. Reach(k) = j /\ Reach(k)' = j + 1
        BY <1>1, <3>1 DEF Reach
      <4>2. /\ a \in Places16(k, Reach(k)) <=> a \in s .. s + j - 1
            /\ a \in Places16(k, Reach(k))' <=> a \in s .. s + (j + 1) - 1
        BY <1>1, <3>1, <4>1 DEF Places16
      <4>3. /\ k \in Sent(a) <=> a \in Places16(k, Reach(k))
            /\ k \in Sent(a)' <=> a \in Places16(k, Reach(k))'
        BY <1>1, <3>1 DEF Sent
      <4> QED
        BY <2>2, <3>1, <4>2, <4>3
    <3>2. CASE k # record
      <4>1. k <= record => Reach(k) = Len(records[k].data) /\ Reach(k)' = Len(records[k].data)
        BY <1>1, <3>2 DEF Reach
      <4>2. k <= record => (a \in Places16(k, Reach(k)) <=> a \in Places16(k, Reach(k))')
        BY <1>1, <4>1 DEF Places16
      <4> QED
        BY <1>1, <3>2, <4>2 DEF Sent
    <3> QED
      BY <3>1, <3>2
  <2>4. Sent(a) \subseteq 1 .. Len(records) /\ Sent(a)' \subseteq 1 .. Len(records)
    BY <1>1 DEF Sent
  <2>5. CASE a = a0
    <3>1. \A k : k \in Sent(a)' <=> k \in Sent(a) \cup {record}
      BY <1>1, <2>3, <2>4, <2>5
    <3> QED
      BY <2>5, <3>1
  <2>6. CASE a # a0
    <3>1. \A k : k \in Sent(a)' <=> k \in Sent(a)
      BY <2>3, <2>4, <2>6
    <3> QED
      BY <2>6, <3>1
  <2> QED
    BY <2>5, <2>6
<1>5. ASSUME NEW a \in Cells
      PROVE  Sent(a)' = Sent(a) \cup IF a = a0 THEN {record} ELSE {}
  BY <1>4
<1> QED
  BY <1>3, <1>5

\* What the cell should hold is then the byte that was sent.
LEMMA ExpectedByte ==
  ASSUME DeviceInv, WriteByte, Suited
  PROVE  LET a0 == records[record].address + j IN
         \A a \in Cells : Expected(a)' = IF a = a0 THEN records[record].data[j'] ELSE Expected(a)
<1> DEFINE a0 == records[record].address + j
<1>1. /\ record \in 1 .. Len(records) /\ record' = record /\ records' = records /\ j' = j + 1
      /\ records \in Seq(HexRecord) /\ Len(records) \in Nat
  BY ImageTyped DEF DeviceInv, EepromTypeOK, WriteByte, BytesLeft, vars, parser
<1>2. ASSUME NEW a \in Cells
      PROVE  Sent(a)' = Sent(a) \cup IF a = a0 THEN {record} ELSE {}
  BY SentByte
<1>3. ASSUME NEW a \in Cells
      PROVE  Expected(a)' = IF a = a0 THEN records[record].data[j'] ELSE Expected(a)
  <2>1. CASE a = a0
    <3>1. Sent(a)' \in SUBSET (0 .. record) /\ record \in Sent(a)' /\ record \in Nat
      BY <1>1, <1>2, <2>1 DEF Sent
    <3> HIDE DEF a0
    <3>2. Max(Sent(a)') = record
      <4>1. Max(Sent(a)') \in Sent(a)' /\ Max(Sent(a)') >= record
        BY <3>1, MaxOf
      <4> QED
        BY <3>1, <4>1
    <3>3. Expected(a)' = records[record].data[a - records[record].address + 1]
      BY <1>1, <3>1, <3>2 DEF Expected
    <3>4. a - records[record].address + 1 = j'
      <4>1. records[record].address \in Nat /\ j \in Int
        BY <1>1, RecordType DEF DeviceInv, EepromTypeOK, WriteByte
      <4> QED
        BY <1>1, <2>1, <4>1 DEF a0
    <3> QED
      BY <2>1, <3>3, <3>4
  <2>2. CASE a # a0
    <3>1. Sent(a)' = Sent(a)
      BY <1>2, <2>2
    <3> QED
      BY <1>1, <2>2, <3>1 DEF Expected
  <2> QED
    BY <2>1, <2>2
<1> QED
  BY <1>3

LEMMA CellsFinite ==
  ASSUME NEW S \in SUBSET Cells
  PROVE  IsFiniteSet(S) /\ Cardinality(S) \in Nat
<1>1. IsFiniteSet(Cells)
  BY EepromAssumption, FS_Interval DEF Cells
<1> QED
  BY <1>1, FS_Subset, FS_CardinalityType

\* An instruction that arrives makes no cell wrong, one that gets lost no cell but
\* the one it was for.
LEMMA WriteHolds ==
  ASSUME DeviceInv, WriteByte, Suited, Cardinality(Wrong) <= lost
  PROVE  Cardinality(Wrong') <= lost'
<1> DEFINE a0 == records[record].address + j
<1>1. /\ a0 \in Cells
      /\ \A a \in Cells : Expected(a)' = IF a = a0 THEN records[record].data[j'] ELSE Expected(a)
  BY SentByte, ExpectedByte
<1>2. /\ Wrong \in SUBSET Cells /\ Wrong' \in SUBSET Cells
      /\ \A a \in Cells : a \in Wrong <=> eeprom[a] # Expected(a)
      /\ \A a \in Cells : a \in Wrong' <=> eeprom'[a] # Expected(a)'
  BY DEF Wrong, Cells
<1>3. IsFiniteSet(Wrong) /\ Cardinality(Wrong) \in Nat /\ Cardinality(Wrong') \in Nat
  BY <1>2, CellsFinite
<1>4. lost \in Nat
  BY DEF DeviceInv, EepromTypeOK
<1>5. CASE /\ Program(Address16(a0), records[record].data[j'])
           /\ UNCHANGED lost
  <2>1. eeprom' = [eeprom EXCEPT ![a0] = records[record].data[j']]
    BY <1>1, <1>5, CellOf DEF Program
  <2>2. \A a \in Cells : eeprom'[a] = IF a = a0 THEN records[record].data[j'] ELSE eeprom[a]
    BY <2>1 DEF DeviceInv, EepromTypeOK
  <2> HIDE DEF a0
  <2>3. \A a \in Cells : a \in Wrong' => a \in Wrong
    BY <1>1, <1>2, <2>2
  <2>4. Wrong' \in SUBSET Wrong
    BY <1>2, <2>3
  <2>5. Cardinality(Wrong') <= Cardinality(Wrong)
    BY <1>3, <2>4, FS_Subset
  <2> QED
    BY <1>3, <1>4, <1>5, <2>5
<1>6. CASE lost' = lost + 1 /\ UNCHANGED eeprom
  <2> HIDE DEF a0
  <2>1. \A a \in Cells : a \in Wrong' => a \in Wrong \/ a = a0
    BY <1>1, <1>2, <1>6
  <2>2. Wrong' \in SUBSET (Wrong \cup {a0})
    BY <1>2, <2>1
  <2>3. IsFiniteSet(Wrong \cup {a0}) /\ Cardinality(Wrong \cup {a0}) <= Cardinality(Wrong) + 1
        /\ Cardinality(Wrong \cup {a0}) \in Nat
    <3>1. /\ IsFiniteSet(Wrong \cup {a0})
          /\ Cardinality(Wrong \cup {a0}) = IF a0 \in Wrong THEN Cardinality(Wrong)
                                            ELSE Cardinality(Wrong) + 1
      BY <1>3, FS_AddElement
    <3> QED
      BY <1>3, <3>1
  <2>4. Cardinality(Wrong') <= Cardinality(Wrong \cup {a0})
    BY <2>2, <2>3, FS_Subset
  <2> QED
    BY <1>3, <1>4, <1>6, <2>3, <2>4
<1> QED
  BY <1>5, <1>6 DEF WriteByte

\* What was sent does not change when write_eeprom goes on to the next record.
LEMMA NextHolds ==
  ASSUME DeviceInv, NextRecord
  PROVE  Wrong' = Wrong
<1>1. /\ record \in 1 .. Len(records) /\ record' = record + 1 /\ j' = 0
      /\ records' = records /\ eeprom' = eeprom
      /\ records \in Seq(HexRecord) /\ Len(records) \in Nat
      /\ records[record].type # IHEX_SSA => ~(j < Len(records[record].data))
  BY ImageTyped DEF DeviceInv, EepromTypeOK, NextRecord, BytesLeft, vars, parser
<1>2. j \in 0 .. Len(records[record].data) /\ Len(records[record].data) \in Nat
  BY <1>1, RecordType DEF DeviceInv, EepromTypeOK
<1>3. ASSUME NEW a \in Cells
      PROVE  Sent(a)' = Sent(a)
  <2>1. ASSUME NEW k \in 1 .. Len(records), records[k].type # IHEX_SSA
        PROVE  k \in Sent(a)' <=> k \in Sent(a)
    <3>1. CASE k < record
      <4>1. Reach(k)' = Reach(k)
        BY <1>1, <3>1 DEF Reach
      <4> QED
        BY <1>1, <3>1, <4>1 DEF Sent, Places16
    <3>2. CASE k = record
      <4>1. Reach(k)' = Len(records[k].data) /\ Reach(k) = j
        BY <1>1, <3>2 DEF Reach
      <4>2. Len(records[k].data) = j
        BY <1>1, <1>2, <2>1, <3>2
      <4> QED
        BY <1>1, <3>2, <4>1, <4>2 DEF Sent, Places16
    <3>3. CASE k = record + 1
      <4>1. Reach(k)' = 0
        BY <1>1, <3>3 DEF Reach
      <4>2. a \notin Places16(k, Reach(k))'
        <5>1. \A s \in Nat : a \notin s .. s + 0 - 1
          OBVIOUS
        <5>2. records[k].address \in Nat
          BY <1>1, RecordType
        <5> QED
          BY <1>1, <4>1, <5>1, <5>2 DEF Places16
      <4> QED
        BY <1>1, <3>3, <4>2 DEF Sent
    <3>4. CASE k > record + 1
      BY <1>1, <3>4 DEF Sent
    <3> QED
      BY <1>1, <3>1, <3>2, <3>3, <3>4
  <2>2. \A k : k \in Sent(a)' <=> k \in Sent(a)
    BY <1>1, <2>1 DEF Sent
  <2> QED
    BY <2>2
<1>4. ASSUME NEW a \in Cells
      PROVE  Expected(a)' = Expected(a)
  BY <1>1, <1>3 DEF Expected
<1> QED
  BY <1>1, <1>4 DEF Wrong, Cells

LEMMA HoldsInit == EepromInit => HoldsInv
BY DEF EepromInit, HoldsInv

LEMMA HoldsStep ==
  ASSUME DeviceInv, HoldsInv, [EepromNext]_allVars
  PROVE  HoldsInv'
<1>1. CASE UNCHANGED allVars
  <2>1. /\ use' = use /\ record' = record /\ j' = j /\ eeprom' = eeprom /\ lost' = lost
        /\ records' = records
    BY <1>1 DEF allVars, vars, device, parser
  <2>2. Suited' = Suited
    BY <2>1, SameRecords DEF Suited
  <2>3. \A k : Reach(k)' = Reach(k)
    BY <2>1 DEF Reach
  <2>4. \A a : Sent(a)' = Sent(a)
    BY <2>1, <2>3 DEF Sent, Places16
  <2>5. Wrong' = Wrong
    BY <2>1, <2>4 DEF Wrong, Expected, Cells
  <2> QED
    BY <2>1, <2>2, <2>5 DEF HoldsInv
<1>2. CASE UseImage
  BY <1>2 DEF UseImage, device, HoldsInv
<1>3. CASE write_eeprom
  <2>1. /\ use = "none" /\ record = 1 /\ j = 0 /\ record' = 1 /\ j' = 0
        /\ eeprom' = eeprom /\ records' = records /\ lost' = lost /\ lost \in Nat
        /\ use' = "writing" /\ eeprom = [a \in Cells |-> Old]
    BY <1>3 DEF write_eeprom, vars, parser, DeviceInv, EepromTypeOK, HoldsInv
  <2>2. ASSUME NEW a \in Cells
        PROVE  Sent(a)' = {}
    <3>1. ASSUME NEW k \in 1 .. Len(records'), k <= 1
          PROVE  a \notin Places16(k, Reach(k))'
      <4>1. Reach(k)' = 0 /\ records[k].address \in Nat
        BY <2>1, <3>1, ImageTyped, RecordType DEF Reach, DeviceInv
      <4>2. \A s \in Nat : a \notin s .. s + 0 - 1
        OBVIOUS
      <4> QED
        BY <2>1, <4>1, <4>2 DEF Places16
    <3> QED
      BY <2>1, <3>1 DEF Sent
  <2>3. Wrong' = {}
    <3>1. \A a \in Cells : eeprom'[a] = Old /\ Expected(a)' = Old
      BY <2>1, <2>2 DEF Expected
    <3> QED
      BY <3>1 DEF Wrong, Cells
  <2>4. Cardinality(Wrong') = 0
    BY <2>3, FS_EmptySet
  <2> QED
    BY <2>1, <2>4 DEF HoldsInv
<1>4. CASE WriteByte
  <2>1. use = "writing" /\ use' = "writing" /\ records' = records
    BY <1>4 DEF WriteByte, vars, parser
  <2>2. Suited' = Suited
    BY <2>1, SameRecords DEF Suited
  <2>3. Suited => Cardinality(Wrong') <= lost'
    BY <1>4, <2>1, WriteHolds DEF HoldsInv
  <2> QED
    BY <2>1, <2>2, <2>3 DEF HoldsInv
<1>5. CASE NextRecord
  <2>1. use = "writing" /\ use' = "writing" /\ records' = records /\ lost' = lost
    BY <1>5 DEF NextRecord, vars, parser
  <2>2. Suited' = Suited
    BY <2>1, SameRecords DEF Suited
  <2>3. Suited => Cardinality(Wrong') <= lost'
    BY <1>5, <2>1, NextHolds DEF HoldsInv
  <2> QED
    BY <2>1, <2>2, <2>3 DEF HoldsInv
<1>6. CASE AllWritten
  <2>1. /\ use = "writing" /\ use' = "written" /\ record > Len(records)
        /\ record' = record /\ j' = j /\ eeprom' = eeprom /\ lost' = lost /\ records' = records
    BY <1>6 DEF AllWritten, vars, parser
  <2>2. Suited' = Suited
    BY <2>1, SameRecords DEF Suited
  <2>3. \A k : Reach(k)' = Reach(k)
    BY <2>1 DEF Reach
  <2>4. \A a : Sent(a)' = Sent(a)
    BY <2>1, <2>3 DEF Sent, Places16
  <2>5. Wrong' = Wrong
    BY <2>1, <2>4 DEF Wrong, Expected, Cells
  <2> QED
    BY <2>1, <2>2, <2>5 DEF HoldsInv
<1> QED
  BY <1>1, <1>2, <1>3, <1>4, <1>5, <1>6 DEF EepromNext

\* When all is sent, the last record that was sent to a cell is the last that holds
\* data for it: what is no data is covered by later data.
LEMMA AllSent ==
  ASSUME DeviceInv, record > Len(records), Suited, NEW a \in Cells
  PROVE  Expected(a) = IF Holders(records, a) = {} THEN Old
                       ELSE LET k == Max(Holders(records, a))
                            IN records[k].data[a - StartOf(records, k) + 1]
<1> DEFINE S == Sent(a)
           H == Holders(records, a)
<1>1. records \in Seq(HexRecord) /\ Len(records) \in Nat /\ record \in Nat /\ a \in Nat
  BY ImageTyped, CellOf DEF DeviceInv, EepromTypeOK
<1>2. ASSUME NEW k \in 1 .. Len(records)
      PROVE  /\ k \in S <=> /\ records[k].type # IHEX_SSA
                            /\ a \in Places16(k, Len(records[k].data))
             /\ a \in Places16(k, Len(records[k].data)) => Len(records[k].data) > 0
  <2>1. k <= record /\ k < record
    BY <1>1
  <2>2. Reach(k) = Len(records[k].data)
    BY <2>1 DEF Reach
  <2>3. Len(records[k].data) \in Nat /\ records[k].address \in Nat
    BY <1>1, RecordType
  <2>4. \A s \in Nat, l \in Nat : a \in s .. s + l - 1 => l > 0
    BY <1>1
  <2>5. a \in Places16(k, Len(records[k].data)) => Len(records[k].data) > 0
    BY <2>3, <2>4 DEF Places16
  <2> QED
    BY <2>1, <2>2, <2>5 DEF Sent
<1>3. ASSUME NEW k \in H
      PROVE  k \in S /\ k \in 1 .. Len(records) /\ StartOf(records, k) = records[k].address
  <2>1. /\ k \in DataRecords(records) /\ k \in 1 .. Len(records)
        /\ records[k].type = IHEX_DATA /\ a \in Extent(records, k)
    BY DEF Holders, DataRecords
  <2>2. Len(records[k].data) > 0
    <3>1. StartOf(records, k) \in Nat /\ Len(records[k].data) \in Nat
      BY <1>1, <2>1, DataType DEF Suited, Usable
    <3>2. \A s \in Nat, l \in Nat : a \in s .. s + l - 1 => l > 0
      BY <1>1
    <3> QED
      BY <2>1, <3>1, <3>2 DEF Extent
  <2>3. StartOf(records, k) = records[k].address
    BY <1>1, <2>1, <2>2, SuitedData
  <2>4. a \in Places16(k, Len(records[k].data)) /\ records[k].type # IHEX_SSA
    BY <2>1, <2>3 DEF Extent, Places16, IHEX_DATA, IHEX_SSA
  <2> QED
    BY <1>2, <2>1, <2>3, <2>4
<1>4. ASSUME NEW k \in S
      PROVE  k \in H \/ \E m \in H : m > k
  <2>1. /\ k \in 1 .. Len(records) /\ records[k].type # IHEX_SSA
        /\ a \in Places16(k, Len(records[k].data)) /\ Len(records[k].data) > 0
    BY <1>2 DEF Sent
  <2>2. CASE records[k].type = IHEX_DATA
    <3>1. k \in DataRecords(records)
      BY <2>1, <2>2 DEF DataRecords
    <3>2. StartOf(records, k) = records[k].address
      BY <1>1, <2>1, <3>1, SuitedData
    <3> QED
      BY <2>1, <3>1, <3>2 DEF Holders, Extent, Places16
  <2>3. CASE records[k].type # IHEX_DATA
    BY <1>1, <2>1, <2>3 DEF Suited, Harmless, Places16
  <2> QED
    BY <2>2, <2>3
<1>5. S \in SUBSET (0 .. Len(records)) /\ H \in SUBSET (0 .. Len(records))
  <2>1. S \subseteq 1 .. Len(records)
    BY DEF Sent
  <2>2. H \subseteq 1 .. Len(records)
    BY <1>3
  <2> QED
    BY <1>1, <2>1, <2>2
<1> HIDE DEF S, H
<1>6. S \in SUBSET Nat /\ H \in SUBSET Nat
  <2>1. 0 .. Len(records) \in SUBSET Nat
    BY <1>1
  <2> QED
    BY <1>5, <2>1
<1>7. CASE H = {}
  <2>1. S = {}
    BY <1>4, <1>7
  <2> QED
    BY <1>7, <2>1 DEF Expected, S, H
<1>8. CASE H # {}
  <2>1. Max(H) \in H /\ \A b \in H : Max(H) >= b
    BY <1>1, <1>5, <1>8, MaxOf
  <2>2. S # {} /\ Max(H) \in S
    BY <1>3, <2>1
  <2>3. Max(S) \in S /\ \A b \in S : Max(S) >= b
    BY <1>1, <1>5, <2>2, MaxOf
  <2>4. Max(S) \in H
    <3>1. ASSUME NEW m \in H PROVE ~(m > Max(S))
      <4>1. Max(S) >= m /\ m \in Nat /\ Max(S) \in Nat
        BY <1>3, <1>6, <2>3
      <4> QED
        BY <4>1
    <3> QED
      BY <1>4, <2>3, <3>1
  <2>5. Max(S) = Max(H)
    <3>1. Max(S) >= Max(H) /\ Max(H) >= Max(S)
      BY <2>1, <2>2, <2>3, <2>4
    <3>2. Max(S) \in Nat /\ Max(H) \in Nat
      BY <1>6, <2>1, <2>3
    <3> QED
      BY <3>1, <3>2
  <2>6. StartOf(records, Max(H)) = records[Max(H)].address
    BY <1>3, <2>1
  <2> QED
    BY <1>8, <2>2, <2>5, <2>6 DEF Expected, S, H
<1> QED
  BY <1>7, <1>8

LEMMA HoldsAtEnd == ASSUME DeviceInv, HoldsInv PROVE EepromHoldsFile
<1> SUFFICES ASSUME use = "written", Suited
             PROVE  lost >= Cardinality({a \in Cells :
                      eeprom[a] # IF Holders(records, a) = {} THEN Old
                                  ELSE LET k == Max(Holders(records, a))
                                       IN records[k].data[a - StartOf(records, k) + 1]})
  BY DEF EepromHoldsFile, Suited
<1>1. record > Len(records) /\ Cardinality(Wrong) <= lost
  BY DEF HoldsInv
<1>2. \A a \in Cells : Expected(a) = IF Holders(records, a) = {} THEN Old
                                     ELSE LET k == Max(Holders(records, a))
                                          IN records[k].data[a - StartOf(records, k) + 1]
  BY <1>1, AllSent
<1>3. Wrong = {a \in Cells :
                 eeprom[a] # IF Holders(records, a) = {} THEN Old
                             ELSE LET k == Max(Holders(records, a))
                                  IN records[k].data[a - StartOf(records, k) + 1]}
  BY <1>2 DEF Wrong
<1>4. Cardinality(Wrong) \in Nat /\ lost \in Nat
  BY CellsFinite DEF Wrong, DeviceInv, EepromTypeOK
<1> QED
  BY <1>1, <1>3, <1>4

\* write_eeprom programs the file: when it is done, a cell holds the last byte that
\* the file has for it, or what it held before, but for at most one cell for each
\* instruction that got lost.
THEOREM EepromIsProgrammed == EepromSpec => []EepromHoldsFile
<1>1. EepromInit => DeviceInv /\ HoldsInv
  BY DeviceInit, HoldsInit
<1>2. DeviceInv /\ HoldsInv /\ [EepromNext]_allVars => DeviceInv' /\ HoldsInv'
  BY DeviceStep, HoldsStep
<1>3. DeviceInv /\ HoldsInv => EepromHoldsFile
  BY HoldsAtEnd
<1> QED
  BY <1>1, <1>2, <1>3, PTL DEF EepromSpec

-----------------------------------------------------------------------------
(* The text of a record set, and that it is read as it was written. *)

\* A record that the format can write: its length has two digits.
Writable == {rec \in HexRecord : Len(rec.data) \in HexByte}

LEMMA WordIs == \A a \in HexWord : a \in Nat /\ a <= 65535
<1>1. UINT16_MAX \in Nat
  BY DEF UINT16_MAX
<1>2. \A a \in HexWord : a \in Nat /\ a <= UINT16_MAX
  BY <1>1 DEF HexWord
<1>3. UINT16_MAX = 65535
  BY DEF UINT16_MAX
<1> QED
  BY <1>2, <1>3

LEMMA WritableType ==
  ASSUME NEW rec \in Writable
  PROVE  /\ rec \in HexRecord /\ rec.type \in HexByte /\ rec.address \in Nat
         /\ rec.address <= 65535 /\ rec.data \in Seq(HexByte) /\ rec.data \in Seq(Nat)
         /\ Len(rec.data) \in HexByte /\ Len(rec.data) \in Nat
<1>1. rec \in HexRecord /\ Len(rec.data) \in HexByte
  BY DEF Writable
<1>2. rec.type \in HexByte /\ rec.address \in HexWord /\ rec.data \in Seq(HexByte)
  BY <1>1 DEF HexRecord
<1>3. \A a \in HexWord : a \in Nat /\ a <= 65535
  BY WordIs
<1>4. \A s \in Seq(HexByte) : s \in Seq(Nat)
  <2> SUFFICES ASSUME NEW s \in Seq(HexByte) PROVE s \in Seq(Nat)
    OBVIOUS
  <2>1. Len(s) \in Nat /\ \A k \in 1 .. Len(s) : s[k] \in Nat
    BY ByteNat
  <2> QED
    BY <2>1
<1> QED
  BY <1>1, <1>2, <1>3, <1>4, ByteNat

LEMMA HighLow ==
  ASSUME NEW a \in Nat, a <= 65535
  PROVE  /\ a \div 256 \in HexByte /\ a % 256 \in HexByte
         /\ 256 * (a \div 256) + (a % 256) = a
BY SMT DEF HexByte

LEMMA Digits ==
  ASSUME NEW b \in HexByte
  PROVE  /\ b \div 16 \in 0 .. 15 /\ b % 16 \in 0 .. 15 /\ 16 * (b \div 16) + (b % 16) = b
BY SMT DEF HexByte

\* With its checksum the sum of all bytes of a record is 0 in eight bits.
LEMMA ChecksumFits ==
  ASSUME NEW rec \in Writable
  PROVE  Checksum(rec) \in HexByte /\ ihex_check_record(rec, Checksum(rec))
<1> DEFINE l == Len(rec.data)
           h == rec.address \div 256
           m == rec.address % 256
           t == rec.type
           d == SumOf(rec.data)
           s == SumOf(Bytes(rec))
           c == Checksum(rec)
<1>1. l \in Nat /\ h \in Nat /\ m \in Nat /\ t \in Nat /\ rec.data \in Seq(Nat)
  BY WritableType, HighLow, ByteNat
<1>2. d \in Nat
  BY <1>1, SumType DEF SumOf, Total
<1>3. s = l + h + m + t + d
  <2> DEFINE u == rec.data
  <2>1. s = Total(<<l, h, m, t>> \o u) /\ d = Total(u)
    BY DEF Bytes, SumOf, Total
  <2>2. l \in Nat /\ h \in Nat /\ m \in Nat /\ t \in Nat /\ u \in Seq(Nat)
    BY <1>1
  <2> HIDE DEF l, h, m, t, u, s, d
  <2>3. Total(<<l, h, m, t>> \o u) = l + h + m + t + Total(u)
    BY <2>2, SumBehindFour
  <2> QED
    BY <2>1, <2>3
<1>4. c = (256 - (s % 256)) % 256
  BY DEF Checksum
<1>5. ihex_check_record(rec, c) <=> (l + h + m + t + c + d) % 256 = 0
  BY DEF ihex_check_record
<1> HIDE DEF l, h, m, t, d, s, c
<1>6. s \in Nat
  BY <1>1, <1>2, <1>3
<1>7. c \in 0 .. 255 /\ (s + c) % 256 = 0
  BY <1>4, <1>6, SMT
<1>8. l + h + m + t + c + d = s + c
  BY <1>1, <1>2, <1>3, <1>7, SMT
<1>9. ihex_check_record(rec, c)
  BY <1>5, <1>7, <1>8
<1> QED
  BY <1>7, <1>9 DEF c, HexByte

\* The bytes of its line.
LineBytes(rec) == Append(Bytes(rec), Checksum(rec))

LEMMA LineBytesAre ==
  ASSUME NEW rec \in Writable
  PROVE  /\ LineBytes(rec) \in Seq(HexByte) /\ Len(LineBytes(rec)) = Len(rec.data) + 5
         /\ LineBytes(rec)[1] = Len(rec.data) /\ LineBytes(rec)[2] = rec.address \div 256
         /\ LineBytes(rec)[3] = rec.address % 256 /\ LineBytes(rec)[4] = rec.type
         /\ \A k \in 1 .. Len(rec.data) : LineBytes(rec)[k + 4] = rec.data[k]
         /\ LineBytes(rec)[Len(rec.data) + 5] = Checksum(rec)
<1> DEFINE a == Len(rec.data)
           b == rec.address \div 256
           c == rec.address % 256
           d == rec.type
           s == rec.data
           e == Checksum(rec)
<1>1. /\ a \in HexByte /\ b \in HexByte /\ c \in HexByte /\ d \in HexByte /\ e \in HexByte
      /\ s \in Seq(HexByte) /\ Len(s) \in Nat
  BY WritableType, HighLow, ChecksumFits
<1>2. LineBytes(rec) = Append(<<a, b, c, d>> \o s, e) /\ Len(s) = Len(rec.data)
  BY DEF LineBytes, Bytes
<1> HIDE DEF a, b, c, d, s, e
<1>3. /\ <<a, b, c, d>> \o s \in Seq(HexByte) /\ Len(<<a, b, c, d>> \o s) = Len(s) + 4
      /\ \A k \in 1 .. Len(s) : (<<a, b, c, d>> \o s)[k + 4] = s[k]
  <2>1. <<a, b, c, d>> \in Seq(HexByte) /\ Len(<<a, b, c, d>>) = 4
    BY <1>1
  <2> DEFINE q == <<a, b, c, d>>
  <2>2. q \in Seq(HexByte) /\ Len(q) = 4
    BY <2>1
  <2> HIDE DEF q
  <2>3. /\ q \o s \in Seq(HexByte) /\ Len(q \o s) = Len(s) + 4
        /\ \A k \in 1 .. Len(s) : (q \o s)[k + 4] = s[k]
    <3>1. /\ q \o s \in Seq(HexByte) /\ Len(q \o s) = Len(q) + Len(s)
          /\ \A k \in 1 .. Len(s) : (q \o s)[Len(q) + k] = s[k]
      <4>1. q \in Seq(HexByte) /\ s \in Seq(HexByte)
        BY <1>1, <2>2
      <4> QED
        BY <4>1, ConcatIs
    <3>2. \A k \in 1 .. Len(s) : Len(q) + k = k + 4
      BY <2>2
    <3> QED
      BY <1>1, <2>2, <3>1, <3>2
  <2> QED
    BY <2>3 DEF q
<1>4. /\ (<<a, b, c, d>> \o s)[1] = a /\ (<<a, b, c, d>> \o s)[2] = b
      /\ (<<a, b, c, d>> \o s)[3] = c /\ (<<a, b, c, d>> \o s)[4] = d
  BY <1>1
<1> DEFINE q == <<a, b, c, d>> \o s
<1>5. /\ q \in Seq(HexByte) /\ Len(q) = Len(s) + 4 /\ \A k \in 1 .. Len(s) : q[k + 4] = s[k]
      /\ q[1] = a /\ q[2] = b /\ q[3] = c /\ q[4] = d
  BY <1>3, <1>4
<1>6. LineBytes(rec) = Append(q, e)
  BY <1>2
<1> HIDE DEF q
<1>7. /\ Append(q, e) \in Seq(HexByte) /\ Len(Append(q, e)) = Len(q) + 1
      /\ \A k \in 1 .. Len(q) : Append(q, e)[k] = q[k]
      /\ Append(q, e)[Len(q) + 1] = e
  BY <1>1, <1>5
<1>8. /\ \A k \in 1 .. Len(s) : k + 4 \in 1 .. Len(q)
      /\ 1 \in 1 .. Len(q) /\ 2 \in 1 .. Len(q) /\ 3 \in 1 .. Len(q) /\ 4 \in 1 .. Len(q)
  BY <1>1, <1>5
<1>9. Len(q) + 1 = Len(s) + 5
  BY <1>1, <1>5
<1>10. /\ LineBytes(rec)[1] = a /\ LineBytes(rec)[2] = b /\ LineBytes(rec)[3] = c
       /\ LineBytes(rec)[4] = d /\ \A k \in 1 .. Len(s) : LineBytes(rec)[k + 4] = s[k]
  BY <1>5, <1>6, <1>7, <1>8
<1> QED
  BY <1>6, <1>7, <1>9, <1>10 DEF a, b, c, d, s, e

\* A line begins with a mark; each of its bytes is written as two digits.
LEMMA LineIs ==
  ASSUME NEW rec \in Writable
  PROVE  /\ Line(rec) \in Seq(0 .. 17) /\ Len(Line(rec)) = 2 * Len(rec.data) + 11
         /\ Line(rec)[1] = IHEX_CHR_RECORDMARK
         /\ \A k \in 1 .. Len(rec.data) + 5 :
              /\ Line(rec)[2 * k] = LineBytes(rec)[k] \div 16
              /\ Line(rec)[2 * k + 1] = LineBytes(rec)[k] % 16
<1> DEFINE b == LineBytes(rec)
           N == Len(b)
           C == 0 .. 15
           seqs == [k \in DOMAIN b |-> Hex8(b[k])]
           flat == FlattenSeq(seqs)
<1>1. b \in Seq(HexByte) /\ N = Len(rec.data) + 5 /\ N \in Nat /\ Len(rec.data) \in Nat
  BY LineBytesAre, WritableType
<1>2. DOMAIN b = 1 .. N /\ \A k \in 1 .. N : b[k] \in HexByte
  BY <1>1
<1>3. Line(rec) = <<IHEX_CHR_RECORDMARK>> \o flat
  BY DEF Line, LineBytes
<1> HIDE DEF b
<1>4. \A k \in 1 .. N : /\ Hex8(b[k]) \in Seq(C) /\ Len(Hex8(b[k])) = 2
                        /\ Hex8(b[k])[1] = b[k] \div 16 /\ Hex8(b[k])[2] = b[k] % 16
  <2> SUFFICES ASSUME NEW k \in 1 .. N
               PROVE  /\ Hex8(b[k]) \in Seq(C) /\ Len(Hex8(b[k])) = 2
                      /\ Hex8(b[k])[1] = b[k] \div 16 /\ Hex8(b[k])[2] = b[k] % 16
    OBVIOUS
  <2> DEFINE x == b[k] \div 16
             y == b[k] % 16
  <2>1. x \in C /\ y \in C
    BY <1>2, Digits
  <2>2. Hex8(b[k]) = <<x, y>>
    BY DEF Hex8
  <2> HIDE DEF x, y, C
  <2>3. <<x, y>> \in Seq(C) /\ Len(<<x, y>>) = 2 /\ <<x, y>>[1] = x /\ <<x, y>>[2] = y
    BY <2>1
  <2> QED
    BY <2>2, <2>3 DEF x, y
<1> HIDE DEF N
<1>5. seqs \in Seq(Seq(C)) /\ Len(seqs) = N /\ \A k \in 1 .. N : seqs[k] = Hex8(b[k])
  BY <1>1, <1>2, <1>4
<1> HIDE DEF seqs
<1>6. /\ flat \in Seq(C) /\ Len(flat) = 2 * N
      /\ \A k \in 1 .. N : flat[2 * k - 1] = b[k] \div 16 /\ flat[2 * k] = b[k] % 16
  <2>1. \A k \in 1 .. Len(seqs) : Len(seqs[k]) = 2
    BY <1>4, <1>5
  <2>2. /\ flat \in Seq(C) /\ Len(flat) = 2 * Len(seqs)
        /\ \A k \in 1 .. Len(seqs) : flat[2 * k - 1] = seqs[k][1] /\ flat[2 * k] = seqs[k][2]
    BY <1>5, <2>1, PairsLayout
  <2> QED
    BY <1>4, <1>5, <2>2
<1> HIDE DEF flat
<1> DEFINE E == 0 .. 17
           mark == <<IHEX_CHR_RECORDMARK>>
<1>7. mark \in Seq(E) /\ Len(mark) = 1 /\ mark[1] = IHEX_CHR_RECORDMARK
  BY DEF IHEX_CHR_RECORDMARK
<1>8. flat \in Seq(E)
  <2>1. C \subseteq E
    OBVIOUS
  <2> HIDE DEF C, E
  <2> QED
    BY <1>6, <2>1
<1> HIDE DEF E, mark
<1>9. /\ mark \o flat \in Seq(E) /\ Len(mark \o flat) = 1 + 2 * N
      /\ (mark \o flat)[1] = mark[1]
      /\ \A x \in 1 .. Len(flat) : (mark \o flat)[1 + x] = flat[x]
  <2>1. /\ mark \o flat \in Seq(E) /\ Len(mark \o flat) = Len(mark) + Len(flat)
        /\ \A x \in 1 .. Len(mark) : (mark \o flat)[x] = mark[x]
        /\ \A x \in 1 .. Len(flat) : (mark \o flat)[Len(mark) + x] = flat[x]
    <3>1. mark \in Seq(E) /\ flat \in Seq(E)
      BY <1>7, <1>8
    <3> QED
      BY <3>1, ConcatIs
  <2> QED
    BY <1>6, <1>7, <2>1
<1>10. ASSUME NEW k \in 1 .. N
       PROVE  Line(rec)[2 * k] = b[k] \div 16 /\ Line(rec)[2 * k + 1] = b[k] % 16
  <2>1. /\ 2 * k - 1 \in 1 .. Len(flat) /\ 2 * k \in 1 .. Len(flat)
        /\ 1 + (2 * k - 1) = 2 * k /\ 1 + 2 * k = 2 * k + 1
    BY <1>1, <1>6
  <2>2. (mark \o flat)[1 + (2 * k - 1)] = flat[2 * k - 1] /\ (mark \o flat)[1 + 2 * k] = flat[2 * k]
    BY <1>9, <2>1
  <2> QED
    BY <1>3, <1>6, <2>1, <2>2 DEF mark
<1>11. Line(rec) \in Seq(E) /\ Line(rec)[1] = IHEX_CHR_RECORDMARK
  BY <1>3, <1>7, <1>9 DEF mark
<1>12. Len(Line(rec)) = 2 * Len(rec.data) + 11
  BY <1>1, <1>3, <1>9 DEF mark
<1> QED
  BY <1>1, <1>10, <1>11, <1>12 DEF b, E

\* The text t has a line behind its first q characters, for the record rec and with
\* the end e; and it consists of lines for the records of the source, which end at
\* the places p.
LineHolds(t, q, rec, e) ==
  LET l == Len(rec.data) IN
  /\ t[q + 1] = IHEX_CHR_RECORDMARK
  /\ \A m \in 1 .. l + 5 : /\ t[q + 2 * m] = LineBytes(rec)[m] \div 16
                           /\ t[q + 2 * m + 1] = LineBytes(rec)[m] % 16
  /\ t[q + 2 * l + 12] = e[1]
  /\ Len(e) = 2 => t[q + 2 * l + 13] = e[2]

Layout(t, p, e) ==
  /\ e \in {<<LF>>, <<CR, LF>>}
  /\ p \in [0 .. Len(source) -> Nat] /\ p[0] = 0 /\ Len(t) = p[Len(source)]
  /\ \A k \in 1 .. Len(source) :
       /\ p[k] = p[k - 1] + 2 * Len(source[k].data) + 11 + Len(e)
       /\ LineHolds(t, p[k - 1], source[k], e)

LEMMA EolType ==
  ASSUME NEW e \in {<<LF>>, <<CR, LF>>}
  PROVE  /\ e \in Seq(Chars) /\ Len(e) \in 1 .. 2 /\ Len(e) \in Nat
         /\ Len(e) = 1 => e[1] = LF
         /\ Len(e) = 2 => e[1] = CR /\ e[2] = LF
<1>1. CASE e = <<LF>>
  <2>1. LF \in Chars
    BY DEF LF, Chars
  <2>2. <<LF>> \in Seq(Chars) /\ Len(<<LF>>) = 1 /\ <<LF>>[1] = LF
    BY <2>1
  <2> QED
    BY <1>1, <2>2
<1>2. CASE e = <<CR, LF>>
  <2>1. LF \in Chars /\ CR \in Chars
    BY DEF LF, CR, Chars
  <2>2. /\ <<CR, LF>> \in Seq(Chars) /\ Len(<<CR, LF>>) = 2
        /\ <<CR, LF>>[1] = CR /\ <<CR, LF>>[2] = LF
    BY <2>1
  <2> QED
    BY <1>2, <2>2
<1> QED
  BY <1>1, <1>2

\* A line with its end.
LEMMA EndedLine ==
  ASSUME NEW rec \in Writable, NEW e \in {<<LF>>, <<CR, LF>>}
  PROVE  LET s == Line(rec) \o e
             l == Len(rec.data)
         IN  /\ s \in Seq(Chars) /\ Len(s) = 2 * l + 11 + Len(e)
             /\ s[1] = IHEX_CHR_RECORDMARK
             /\ \A m \in 1 .. l + 5 : /\ s[2 * m] = LineBytes(rec)[m] \div 16
                                      /\ s[2 * m + 1] = LineBytes(rec)[m] % 16
             /\ s[2 * l + 12] = e[1]
             /\ Len(e) = 2 => s[2 * l + 13] = e[2]
<1> DEFINE s == Line(rec) \o e
           l == Len(rec.data)
           g == Line(rec)
           b == LineBytes(rec)
<1>1. l \in Nat /\ Len(g) \in Nat /\ Len(g) = 2 * l + 11
  BY LineIs, WritableType
<1>2. g \in Seq(0 .. 17)
  BY LineIs
<1>3. /\ g[1] = IHEX_CHR_RECORDMARK
      /\ \A m \in 1 .. l + 5 : g[2 * m] = b[m] \div 16 /\ g[2 * m + 1] = b[m] % 16
  BY LineIs
<1>4. e \in Seq(Chars) /\ Len(e) \in 1 .. 2
  BY EolType
<1> HIDE DEF l, g, b
<1>5. g \in Seq(Chars)
  <2> DEFINE E == 0 .. 17
  <2>1. E \subseteq Chars
    BY DEF Chars
  <2>2. g \in Seq(E)
    BY <1>2
  <2> HIDE DEF E
  <2> QED
    BY <2>1, <2>2
<1>6. /\ g \o e \in Seq(Chars) /\ Len(g \o e) = Len(g) + Len(e)
      /\ \A x \in 1 .. Len(g) : (g \o e)[x] = g[x]
      /\ \A x \in 1 .. Len(e) : (g \o e)[Len(g) + x] = e[x]
  BY <1>4, <1>5, ConcatIs
<1>7. /\ 1 \in 1 .. Len(g)
      /\ \A m \in 1 .. l + 5 : 2 * m \in 1 .. Len(g) /\ 2 * m + 1 \in 1 .. Len(g)
      /\ Len(g) + 1 = 2 * l + 12 /\ Len(g) + 2 = 2 * l + 13
      /\ 1 \in 1 .. Len(e) /\ (Len(e) = 2 => 2 \in 1 .. Len(e))
  <2>1. 1 \in 1 .. Len(g) /\ Len(g) + 1 = 2 * l + 12 /\ Len(g) + 2 = 2 * l + 13
    BY <1>1
  <2>2. \A m \in 1 .. l + 5 : 2 * m \in 1 .. Len(g) /\ 2 * m + 1 \in 1 .. Len(g)
    BY <1>1
  <2>3. 1 \in 1 .. Len(e) /\ (Len(e) = 2 => 2 \in 1 .. Len(e))
    <3>1. \A x \in 1 .. 2 : 1 \in 1 .. x /\ (x = 2 => 2 \in 1 .. x)
      OBVIOUS
    <3> QED
      BY <1>4, <3>1
  <2> QED
    BY <2>1, <2>2, <2>3
<1>8. s = g \o e
  BY DEF g
<1> HIDE DEF s
<1>9. s \in Seq(Chars) /\ Len(s) = 2 * l + 11 + Len(e)
  BY <1>1, <1>6, <1>8
<1>10. /\ s[1] = IHEX_CHR_RECORDMARK
       /\ \A m \in 1 .. l + 5 : s[2 * m] = b[m] \div 16 /\ s[2 * m + 1] = b[m] % 16
  BY <1>3, <1>6, <1>7, <1>8
<1>11. s[2 * l + 12] = e[1] /\ (Len(e) = 2 => s[2 * l + 13] = e[2])
  BY <1>6, <1>7, <1>8
<1> QED
  BY <1>9, <1>10, <1>11 DEF s, l, b

LEMMA IntactLayout ==
  ASSUME source \in Seq(Writable), NEW e \in {<<LF>>, <<CR, LF>>}
  PROVE  /\ TextOf(source, e) \in Seq(Chars)
         /\ \E p : Layout(TextOf(source, e), p, e)
<1> DEFINE t == TextOf(source, e)
           N == Len(source)
           seqs == [k \in DOMAIN source |-> Line(source[k]) \o e]
<1>1. N \in Nat /\ DOMAIN source = 1 .. N /\ \A k \in 1 .. N : source[k] \in Writable
  OBVIOUS
<1>2. \A k \in 1 .. N : Line(source[k]) \o e \in Seq(Chars)
  BY <1>1, EndedLine
<1>3. seqs \in Seq(Seq(Chars)) /\ Len(seqs) = N
      /\ \A k \in 1 .. N : seqs[k] = Line(source[k]) \o e
  BY <1>1, <1>2
<1>4. t = FlattenSeq(seqs)
  BY DEF TextOf
<1> HIDE DEF seqs, t
<1>5. PICK p : /\ PartsEnd(seqs, p) /\ t \in Seq(Chars) /\ Len(t) = p[Len(seqs)]
               /\ Parts(t, seqs, p)
  BY <1>3, <1>4, FlattenLayout
<1>6. p \in [0 .. N -> Nat] /\ p[0] = 0 /\ Len(t) = p[N]
  BY <1>3, <1>5 DEF PartsEnd
<1>7. ASSUME NEW k \in 1 .. N
      PROVE  /\ p[k] = p[k - 1] + 2 * Len(source[k].data) + 11 + Len(e)
             /\ LineHolds(t, p[k - 1], source[k], e)
  <2> DEFINE rec == source[k]
             l == Len(rec.data)
             s == Line(rec) \o e
             q == p[k - 1]
  <2>1. rec \in Writable /\ l \in Nat /\ Len(e) \in 1 .. 2 /\ q \in Nat
    <3>1. rec \in Writable
      BY <1>1
    <3>2. l \in Nat
      BY <3>1, WritableType
    <3>3. Len(e) \in 1 .. 2
      BY EolType
    <3>4. k - 1 \in 0 .. N
      BY <1>1
    <3> HIDE DEF N
    <3>5. q \in Nat
      BY <1>6, <3>4
    <3> QED
      BY <3>1, <3>2, <3>3, <3>5
  <2>2. p[k] = q + Len(s) /\ \A x \in 1 .. Len(s) : t[q + x] = s[x]
    <3>1. seqs[k] = s /\ k \in 1 .. Len(seqs)
      BY <1>3
    <3>2. /\ p[k] = p[k - 1] + Len(seqs[k])
          /\ \A x \in 1 .. Len(seqs[k]) : t[p[k - 1] + x] = seqs[k][x]
      BY <1>5, <3>1 DEF PartsEnd, Parts
    <3> QED
      BY <3>1, <3>2
  <2>3. /\ Len(s) = 2 * l + 11 + Len(e) /\ s[1] = IHEX_CHR_RECORDMARK
        /\ \A m \in 1 .. l + 5 : /\ s[2 * m] = LineBytes(rec)[m] \div 16
                                 /\ s[2 * m + 1] = LineBytes(rec)[m] % 16
        /\ s[2 * l + 12] = e[1]
        /\ Len(e) = 2 => s[2 * l + 13] = e[2]
    BY <2>1, EndedLine
  <2> HIDE DEF rec, l, s, q
  <2>4. /\ 1 \in 1 .. Len(s)
        /\ \A m \in 1 .. l + 5 : 2 * m \in 1 .. Len(s) /\ 2 * m + 1 \in 1 .. Len(s)
        /\ 2 * l + 12 \in 1 .. Len(s) /\ (Len(e) = 2 => 2 * l + 13 \in 1 .. Len(s))
    <3>1. l \in Nat /\ Len(e) \in 1 .. 2 /\ Len(s) = 2 * l + 11 + Len(e)
      BY <2>1, <2>3
    <3>2. \A y \in Nat, z \in 1 .. 2 :
            /\ 1 \in 1 .. 2 * y + 11 + z /\ 2 * y + 12 \in 1 .. 2 * y + 11 + z
            /\ z = 2 => 2 * y + 13 \in 1 .. 2 * y + 11 + z
      OBVIOUS
    <3>3. \A y \in Nat, z \in 1 .. 2 : \A m \in 1 .. y + 5 :
            2 * m \in 1 .. 2 * y + 11 + z /\ 2 * m + 1 \in 1 .. 2 * y + 11 + z
      OBVIOUS
    <3> QED
      BY <3>1, <3>2, <3>3
  <2>5. /\ \A m \in 1 .. l + 5 : q + (2 * m + 1) = q + 2 * m + 1
        /\ q + (2 * l + 12) = q + 2 * l + 12 /\ q + (2 * l + 13) = q + 2 * l + 13
        /\ q + (2 * l + 11 + Len(e)) = q + 2 * l + 11 + Len(e)
    BY <2>1
  <2>6. t[q + 1] = IHEX_CHR_RECORDMARK
    BY <2>2, <2>3, <2>4
  <2>7. ASSUME NEW m \in 1 .. l + 5
        PROVE  /\ t[q + 2 * m] = LineBytes(rec)[m] \div 16
               /\ t[q + 2 * m + 1] = LineBytes(rec)[m] % 16
    BY <2>2, <2>3, <2>4, <2>5
  <2>8. t[q + 2 * l + 12] = e[1] /\ (Len(e) = 2 => t[q + 2 * l + 13] = e[2])
    <3>1. t[q + (2 * l + 12)] = s[2 * l + 12]
      BY <2>2, <2>4
    <3>2. Len(e) = 2 => t[q + (2 * l + 13)] = s[2 * l + 13]
      BY <2>2, <2>4
    <3> QED
      BY <2>3, <2>5, <3>1, <3>2
  <2>9. p[k] = q + 2 * l + 11 + Len(e)
    BY <2>2, <2>3, <2>5
  <2> QED
    BY <2>6, <2>7, <2>8, <2>9 DEF LineHolds, rec, l, q
<1>8. Layout(t, p, e)
  BY <1>6, <1>7 DEF Layout
<1> QED
  BY <1>5, <1>8 DEF t

\* Lines follow one another to the end of the text.
LEMMA LayoutGrows ==
  ASSUME source \in Seq(Writable), NEW t \in Seq(Chars), NEW p, NEW e, Layout(t, p, e)
  PROVE  /\ Len(source) \in Nat /\ \A k \in 0 .. Len(source) : p[k] \in Nat
         /\ \A a, b \in 0 .. Len(source) : a < b => p[a] < p[b]
         /\ \A k \in 1 .. Len(source) : k - 1 \in 0 .. Len(source) /\ k \in 0 .. Len(source)
         /\ \A k \in 0 .. Len(source) : p[k] <= Len(t)
<1> DEFINE N == Len(source)
<1>1. /\ N \in Nat /\ p \in [0 .. N -> Nat] /\ p[0] = 0 /\ Len(t) = p[N]
      /\ Len(e) \in 1 .. 2
      /\ \A k \in 1 .. N : p[k] = p[k - 1] + 2 * Len(source[k].data) + 11 + Len(e)
  BY EolType DEF Layout
<1>2. \A k \in 1 .. N : Len(source[k].data) \in Nat
  BY WritableType
<1> HIDE DEF N
<1>3. \A k \in 1 .. N : k - 1 \in 0 .. N /\ k \in 0 .. N
  BY <1>1
<1>4. ASSUME NEW k \in 1 .. N PROVE p[k - 1] < p[k]
  <2> DEFINE l == Len(source[k].data)
             c == Len(e)
  <2>1. l \in Nat /\ c \in Nat /\ p[k - 1] \in Nat /\ p[k] = p[k - 1] + 2 * l + 11 + c
    BY <1>1, <1>2, <1>3
  <2> HIDE DEF l, c
  <2> QED
    BY <2>1
<1>5. \A a, b \in 0 .. N : a < b => p[a] < p[b]
  BY <1>1, <1>4, Growing
<1>6. ASSUME NEW k \in 0 .. N PROVE p[k] <= Len(t)
  <2>1. k = N \/ k < N
    BY <1>1
  <2>2. N \in 0 .. N /\ p[k] \in Nat /\ p[N] \in Nat
    BY <1>1
  <2>3. k < N => p[k] < p[N]
    BY <1>5, <2>2
  <2> QED
    BY <1>1, <2>1, <2>2, <2>3
<1> QED
  BY <1>1, <1>3, <1>5, <1>6 DEF N

\* What a line holds behind its mark is neither a mark nor a NUL.
LEMMA LineInside ==
  ASSUME NEW t, NEW rec \in Writable, NEW e \in {<<LF>>, <<CR, LF>>}, NEW q \in Nat,
         LineHolds(t, q, rec, e),
         NEW x \in 2 .. 2 * Len(rec.data) + 11 + Len(e)
  PROVE  t[q + x] \notin {IHEX_CHR_RECORDMARK, NUL}
<1> DEFINE l == Len(rec.data)
           c == Len(e)
           b == LineBytes(rec)
<1>1. /\ l \in Nat /\ c \in 1 .. 2
      /\ \A m \in 1 .. l + 5 : t[q + 2 * m] = b[m] \div 16 /\ t[q + 2 * m + 1] = b[m] % 16
      /\ t[q + 2 * l + 12] = e[1] /\ (c = 2 => t[q + 2 * l + 13] = e[2])
  BY WritableType, EolType DEF LineHolds
<1>2. b \in Seq(HexByte) /\ Len(b) = l + 5
  BY LineBytesAre
<1>3. ASSUME NEW m \in 1 .. l + 5
      PROVE  /\ t[q + 2 * m] \in 0 .. 15 /\ t[q + 2 * m + 1] \in 0 .. 15
  <2>1. b[m] \in HexByte
    BY <1>2
  <2> HIDE DEF b
  <2> QED
    BY <1>1, <2>1, Digits
<1>4. e[1] \in {LF, CR} /\ (c = 2 => e[2] = LF)
  BY EolType
<1> HIDE DEF l, c, b
<1>5. x \in Nat /\ x >= 2 /\ x <= 2 * l + 11 + c
  BY <1>1 DEF l, c
<1>6. CASE x <= 2 * l + 11
  <2>1. \E m \in 1 .. l + 5 : x = 2 * m \/ x = 2 * m + 1
    <3> DEFINE m == x \div 2
    <3>1. m \in Int /\ (x = 2 * m \/ x = 2 * m + 1)
      BY <1>5
    <3> HIDE DEF m
    <3>2. m \in 1 .. l + 5
      BY <1>1, <1>5, <1>6, <3>1
    <3> QED
      BY <3>1, <3>2
  <2>2. PICK m \in 1 .. l + 5 : x = 2 * m \/ x = 2 * m + 1
    BY <2>1
  <2>3. q + (2 * m) = q + 2 * m /\ q + (2 * m + 1) = q + 2 * m + 1
    BY <1>1
  <2>4. t[q + x] \in 0 .. 15
    BY <1>3, <2>2, <2>3
  <2>5. 17 \notin 0 .. 15 /\ 20 \notin 0 .. 15
    OBVIOUS
  <2> QED
    BY <2>4, <2>5 DEF IHEX_CHR_RECORDMARK, NUL
<1>7. CASE ~(x <= 2 * l + 11)
  <2>1. (c = 1 \/ c = 2) /\ (x = 2 * l + 12 \/ (c = 2 /\ x = 2 * l + 13))
    BY <1>1, <1>5, <1>7
  <2>2. q + (2 * l + 12) = q + 2 * l + 12 /\ q + (2 * l + 13) = q + 2 * l + 13
    BY <1>1
  <2>3. t[q + x] \in {LF, CR}
    BY <1>1, <1>4, <2>1, <2>2
  <2> QED
    BY <2>3 DEF IHEX_CHR_RECORDMARK, NUL, LF, CR
<1> QED
  BY <1>6, <1>7

\* The y-th character is in one of the lines.
InsideLines(y, p, e) ==
  \E k \in 1 .. Len(source) :
    \E x : x \in 1 .. 2 * Len(source[k].data) + 11 + Len(e) /\ y = p[k - 1] + x

LEMMA InALine ==
  ASSUME source \in Seq(Writable), NEW t \in Seq(Chars), NEW p, NEW e,
         Layout(t, p, e), NEW y \in 1 .. Len(t)
  PROVE  InsideLines(y, p, e)
<1> DEFINE N == Len(source)
<1>1. /\ N \in Nat /\ p \in [0 .. N -> Nat] /\ p[0] = 0 /\ Len(t) = p[N]
      /\ Len(e) \in Nat
      /\ \A k \in 1 .. N : p[k] = p[k - 1] + 2 * Len(source[k].data) + 11 + Len(e)
  BY EolType DEF Layout
<1>2. PICK k \in 1 .. N : p[k - 1] < y /\ y <= p[k]
  BY <1>1, Located
<1>3. Len(source[k].data) \in Nat
  BY WritableType
<1>4. p[k - 1] \in Nat /\ y \in Nat
  <2>1. p[k - 1] \in Nat
    BY LayoutGrows
  <2> QED
    BY <2>1
<1> DEFINE x == y - p[k - 1]
           l == Len(source[k].data)
           c == Len(e)
           q == p[k - 1]
<1>5. q \in Nat /\ l \in Nat /\ c \in Nat /\ y \in Nat /\ q < y /\ y <= q + 2 * l + 11 + c
  BY <1>1, <1>2, <1>3, <1>4
<1>6. x = y - q
  OBVIOUS
<1> HIDE DEF x, l, c, q
<1>7. x \in 1 .. 2 * l + 11 + c /\ y = q + x
  BY <1>5, <1>6
<1> QED
  BY <1>7 DEF InsideLines, l, c, q

\* Where the lines begin: there are the marks, and nowhere else.
LineMarks(p) == {p[k - 1] + 1 : k \in 1 .. Len(source)}

LEMMA MarksOfLines ==
  ASSUME source \in Seq(Writable), NEW t \in Seq(Chars), NEW p, NEW e, Layout(t, p, e)
  PROVE  /\ IsFiniteSet(LineMarks(p)) /\ Cardinality(LineMarks(p)) = Len(source)
         /\ LineMarks(p) \subseteq 1 .. Len(t)
         /\ \A y \in 1 .. Len(t) : /\ t[y] # NUL
                                   /\ t[y] = IHEX_CHR_RECORDMARK <=> y \in LineMarks(p)
<1> DEFINE N == Len(source)
           f == [k \in 1 .. N |-> p[k - 1] + 1]
<1>1. /\ N \in Nat /\ e \in {<<LF>>, <<CR, LF>>} /\ Len(t) \in Nat /\ DOMAIN t = 1 .. Len(t)
      /\ \A k \in 1 .. N : /\ source[k] \in Writable /\ p[k - 1] \in Nat
                           /\ LineHolds(t, p[k - 1], source[k], e)
  <2>1. N \in Nat /\ \A k \in 1 .. N : source[k] \in Writable
    OBVIOUS
  <2>2. \A k \in 1 .. N : p[k - 1] \in Nat
    BY LayoutGrows
  <2>3. /\ e \in {<<LF>>, <<CR, LF>>}
        /\ \A k \in 1 .. N : LineHolds(t, p[k - 1], source[k], e)
    BY DEF Layout
  <2> QED
    BY <2>1, <2>2, <2>3
<1>2. ASSUME NEW y \in 1 .. Len(t)
      PROVE  /\ t[y] # NUL
             /\ t[y] = IHEX_CHR_RECORDMARK => \E k \in 1 .. N : y = f[k]
  <2>1. PICK k \in 1 .. N :
          \E x : x \in 1 .. 2 * Len(source[k].data) + 11 + Len(e) /\ y = p[k - 1] + x
    <3>1. InsideLines(y, p, e)
      BY InALine
    <3> QED
      BY <3>1 DEF InsideLines
  <2>2. PICK x : x \in 1 .. 2 * Len(source[k].data) + 11 + Len(e) /\ y = p[k - 1] + x
    BY <2>1
  <2>3. CASE x = 1
    <3>1. t[y] = IHEX_CHR_RECORDMARK /\ y = f[k]
      BY <1>1, <2>2, <2>3 DEF LineHolds
    <3> QED
      BY <3>1 DEF IHEX_CHR_RECORDMARK, NUL
  <2>4. CASE x # 1
    <3>1. Len(source[k].data) \in Nat /\ Len(e) \in Nat
      BY <1>1, WritableType, EolType
    <3>2. x \in 2 .. 2 * Len(source[k].data) + 11 + Len(e)
      <4>1. \A z \in Nat : \A w \in 1 .. z : w # 1 => w \in 2 .. z
        OBVIOUS
      <4>2. \A v, z \in Nat : 2 * v + 11 + z \in Nat
        OBVIOUS
      <4>3. 2 * Len(source[k].data) + 11 + Len(e) \in Nat
        BY <3>1, <4>2
      <4> QED
        BY <2>2, <2>4, <4>1, <4>3
    <3> QED
      BY <1>1, <2>2, <3>2, LineInside, ZenonT(30)
  <2> QED
    BY <2>3, <2>4
<1>3. ASSUME NEW k \in 1 .. N
      PROVE  f[k] \in 1 .. Len(t) /\ t[f[k]] = IHEX_CHR_RECORDMARK
  <2>1. k - 1 \in 0 .. N /\ k \in 0 .. N /\ k - 1 < k
    BY <1>1
  <2>2. p[k - 1] < p[k] /\ p[k] <= Len(t) /\ p[k - 1] \in Nat /\ p[k] \in Nat
    BY <2>1, LayoutGrows
  <2>3. p[k - 1] + 1 \in 1 .. Len(t)
    BY <1>1, <2>2
  <2> QED
    BY <1>1, <2>3 DEF LineHolds
<1> DEFINE M == LineMarks(p)
<1>4. f \in [1 .. N -> M] /\ \A m \in M : \E k \in 1 .. N : f[k] = m
  BY DEF LineMarks
<1>5. ASSUME NEW a \in 1 .. N, NEW b \in 1 .. N, f[a] = f[b] PROVE a = b
  <2>1. /\ a - 1 \in 0 .. N /\ b - 1 \in 0 .. N /\ p[a - 1] \in Nat /\ p[b - 1] \in Nat
        /\ p[a - 1] + 1 = p[b - 1] + 1
    BY <1>1, <1>5
  <2>2. ~(a - 1 < b - 1) /\ ~(b - 1 < a - 1)
    <3>1. /\ a - 1 < b - 1 => p[a - 1] < p[b - 1]
          /\ b - 1 < a - 1 => p[b - 1] < p[a - 1]
      BY <2>1, LayoutGrows
    <3> QED
      BY <2>1, <3>1
  <2> QED
    BY <1>1, <2>2
<1>6. /\ \A m \in M : m \in 1 .. Len(t) /\ t[m] = IHEX_CHR_RECORDMARK
      /\ \A y \in 1 .. Len(t) : t[y] # NUL /\ (t[y] = IHEX_CHR_RECORDMARK => y \in M)
  <2>1. ASSUME NEW m \in M PROVE m \in 1 .. Len(t) /\ t[m] = IHEX_CHR_RECORDMARK
    <3>1. PICK k \in 1 .. N : f[k] = m
      BY <1>4
    <3> QED
      BY <1>3, <3>1
  <2>2. ASSUME NEW y \in 1 .. Len(t), t[y] = IHEX_CHR_RECORDMARK PROVE y \in M
    <3>1. PICK k \in 1 .. N : y = f[k]
      BY <1>2, <2>2
    <3>2. f[k] \in M
      BY <1>4
    <3> QED
      BY <3>1, <3>2
  <2> HIDE DEF f, M
  <2> QED
    BY <1>2, <2>1, <2>2
<1> HIDE DEF f, M
<1>7. f \in Bijection(1 .. N, M)
  <2>1. f \in Injection(1 .. N, M)
    BY <1>4, <1>5 DEF Injection, IsInjective
  <2>2. f \in Surjection(1 .. N, M)
    BY <1>4 DEF Surjection
  <2> QED
    BY <2>1, <2>2 DEF Bijection
<1>8. IsFiniteSet(1 .. N) /\ Cardinality(1 .. N) = N
  <2>1. 1 \in Int /\ N \in Int /\ (IF 1 > N THEN 0 ELSE N - 1 + 1) = N
    BY <1>1
  <2> QED
    BY <2>1, FS_Interval
<1>9. ExistsBijection(1 .. N, M)
  BY <1>7 DEF ExistsBijection
<1>10. IsFiniteSet(M) /\ Cardinality(M) = N
  BY <1>8, <1>9, FS_Bijection
<1> QED
  BY <1>6, <1>10 DEF M

\* The first pass counts the lines of an intact text.
LEMMA MarksAreLines ==
  ASSUME text \in Seq(Chars), source \in Seq(Writable), NEW p, NEW e, Layout(text, p, e)
  PROVE  Cardinality(Marks) = Len(source)
<1>1. Marks = LineMarks(p)
  BY MarksOfLines DEF Marks
<1> QED
  BY <1>1, MarksOfLines

\* The text differs from t at most in its d-th character.
OneOff(t, d) ==
  /\ t \in Seq(Chars) /\ Len(t) = Len(text)
  /\ \A y \in 1 .. Len(text) : y # d => text[y] = t[y]

\* Where a line of l bytes that starts behind q characters ends.
LineEnd(q, l, e) == q + 2 * l + 11 + Len(e)

\* What the parser finds in the line for rec behind q characters, but for the d-th
\* character: its mark, its bytes, its end, and no other mark.
Finds(q, rec, e, d) ==
  LET l == Len(rec.data)
      b == LineBytes(rec)
      r == LineEnd(q, l, e)
  IN  /\ l \in Nat /\ Len(e) \in 1 .. 2 /\ r \in Nat
      /\ r = q + 2 * l + 11 + Len(e) /\ r <= Len(text) /\ Len(text) \in Nat
      /\ d # q + 1 => Chr(q) = IHEX_CHR_RECORDMARK
      /\ \A m \in 1 .. l + 5 :
           /\ d # q + 2 * m => Chr(q + 2 * m - 1) = b[m] \div 16
           /\ d # q + 2 * m + 1 => Chr(q + 2 * m) = b[m] % 16
           /\ b[m] \div 16 \in 0 .. 15 /\ b[m] % 16 \in 0 .. 15
           /\ 16 * (b[m] \div 16) + (b[m] % 16) = b[m]
           /\ d # q + 2 * m /\ d # q + 2 * m + 1 => FromHex8(q + 2 * m - 1) = b[m]
      /\ d # q + 2 * l + 12 => Chr(q + 2 * l + 11) = e[1]
      /\ Len(e) = 2 /\ d # q + 2 * l + 13 => Chr(q + 2 * l + 12) = e[2]
      /\ \A x \in q + 1 .. r - 1 :
           d # x + 1 => Chr(x) \notin {IHEX_CHR_RECORDMARK, NUL}

LEMMA LineRead ==
  ASSUME text \in Seq(Chars), NEW t, NEW d, OneOff(t, d),
         NEW rec \in Writable, NEW e \in {<<LF>>, <<CR, LF>>}, NEW q \in Nat,
         LineHolds(t, q, rec, e), LineEnd(q, Len(rec.data), e) <= Len(text)
  PROVE  Finds(q, rec, e, d)
<1> DEFINE l == Len(rec.data)
           b == LineBytes(rec)
           c == Len(e)
           r == LineEnd(q, l, e)
<1>1. /\ q \in Nat /\ l \in Nat /\ c \in 1 .. 2 /\ r \in Nat
      /\ r = q + 2 * l + 11 + c /\ r <= Len(text) /\ Len(text) \in Nat
  <2>1. l \in Nat /\ Len(text) \in Nat
    BY WritableType
  <2>2. c \in 1 .. 2
    BY EolType
  <2>3. r = q + 2 * l + 11 + c
    BY DEF LineEnd
  <2> HIDE DEF l, c
  <2>4. q + 2 * l + 11 + c \in Nat
    BY <2>1, <2>2
  <2> QED
    BY <2>1, <2>2, <2>3, <2>4 DEF l
<1>2. /\ t[q + 1] = IHEX_CHR_RECORDMARK
      /\ \A m \in 1 .. l + 5 : t[q + 2 * m] = b[m] \div 16 /\ t[q + 2 * m + 1] = b[m] % 16
      /\ t[q + 2 * l + 12] = e[1] /\ (c = 2 => t[q + 2 * l + 13] = e[2])
  BY DEF LineHolds
<1>3. b \in Seq(HexByte) /\ Len(b) = l + 5
  BY LineBytesAre
<1>4. \A x \in 2 .. 2 * l + 11 + c : t[q + x] \notin {IHEX_CHR_RECORDMARK, NUL}
  BY <1>1, LineInside DEF OneOff
<1> HIDE DEF l, b, c, r
<1>5. ASSUME NEW x \in Nat, x < r, d # x + 1 PROVE Chr(x) = t[x + 1]
  <2>1. x < Len(text) /\ x + 1 \in 1 .. Len(text)
    BY <1>1, <1>5
  <2>2. text[x + 1] = t[x + 1]
    BY <1>5, <2>1 DEF OneOff
  <2> QED
    BY <2>1, <2>2 DEF Chr
<1>6. d # q + 1 => Chr(q) = IHEX_CHR_RECORDMARK
  <2>1. q < r
    BY <1>1
  <2> QED
    BY <1>1, <1>2, <1>5, <2>1
<1>7. ASSUME NEW m \in 1 .. l + 5
      PROVE  /\ d # q + 2 * m => Chr(q + 2 * m - 1) = b[m] \div 16
             /\ d # q + 2 * m + 1 => Chr(q + 2 * m) = b[m] % 16
             /\ b[m] \div 16 \in 0 .. 15 /\ b[m] % 16 \in 0 .. 15
             /\ 16 * (b[m] \div 16) + (b[m] % 16) = b[m]
             /\ d # q + 2 * m /\ d # q + 2 * m + 1 => FromHex8(q + 2 * m - 1) = b[m]
  <2> DEFINE x == q + 2 * m - 1
             h == b[m] \div 16
             w == b[m] % 16
  <2>1. /\ x \in Nat /\ x + 1 \in Nat /\ x < r /\ x + 1 < r
        /\ x + 1 = q + 2 * m /\ (x + 1) + 1 = q + 2 * m + 1
    BY <1>1
  <2>2. b[m] \in HexByte
    BY <1>1, <1>3
  <2>3. h \in 0 .. 15 /\ w \in 0 .. 15 /\ 16 * h + w = b[m]
    BY <2>2, Digits
  <2>4. d # q + 2 * m => Chr(x) = h
    BY <1>2, <1>5, <2>1
  <2>5. d # q + 2 * m + 1 => Chr(x + 1) = w
    BY <1>2, <1>5, <2>1
  <2> HIDE DEF x, h, w
  <2>6. ASSUME d # q + 2 * m, d # q + 2 * m + 1 PROVE FromHex8(x) = b[m]
    <3>1. FromHex4(x) = h /\ FromHex4(x + 1) = w
      BY <2>3, <2>4, <2>5, <2>6 DEF FromHex4
    <3> QED
      BY <2>3, <3>1 DEF FromHex8
  <2>7. d # q + 2 * m + 1 => Chr(q + 2 * m) = w
    BY <2>1, <2>5
  <2> QED
    BY <2>3, <2>4, <2>6, <2>7 DEF x, h, w
<1>8. /\ d # q + 2 * l + 12 => Chr(q + 2 * l + 11) = e[1]
      /\ c = 2 /\ d # q + 2 * l + 13 => Chr(q + 2 * l + 12) = e[2]
  <2>1. /\ q + 2 * l + 11 \in Nat /\ q + 2 * l + 11 < r /\ (q + 2 * l + 11) + 1 = q + 2 * l + 12
        /\ q + 2 * l + 12 \in Nat /\ (q + 2 * l + 12) + 1 = q + 2 * l + 13
        /\ (c = 2 => q + 2 * l + 12 < r)
    BY <1>1
  <2> QED
    BY <1>2, <1>5, <2>1
<1>9. ASSUME NEW x \in q + 1 .. r - 1, d # x + 1
      PROVE  Chr(x) \notin {IHEX_CHR_RECORDMARK, NUL}
  <2> DEFINE y == x - q + 1
  <2>1. x \in Nat /\ x < r /\ y \in 2 .. 2 * l + 11 + c /\ q + y = x + 1
    BY <1>1
  <2> HIDE DEF y
  <2>2. t[q + y] \notin {IHEX_CHR_RECORDMARK, NUL}
    BY <1>4, <2>1
  <2> QED
    BY <1>5, <1>9, <2>1, <2>2
<1> QED
  BY <1>1, <1>6, <1>7, <1>8, <1>9 DEF Finds, l, b, c, r

\* The search for the next record stops at the first mark or NUL.
LEMMA SkipsTo ==
  ASSUME text \in Seq(Chars), NEW s \in Nat, NEW r \in Nat, s <= r, r <= Len(text),
         \A x \in s .. r - 1 : Chr(x) \notin {IHEX_CHR_RECORDMARK, NUL},
         r = Len(text) \/ Chr(r) \in {IHEX_CHR_RECORDMARK, NUL}
  PROVE  SkipToMark(s) = r
<1> DEFINE z == Len(text)
           stops == {m \in s .. z - 1 : Chr(m) \in {IHEX_CHR_RECORDMARK, NUL}}
<1>1. SkipToMark(s) = IF stops = {} THEN z ELSE Min(stops)
  BY DEF SkipToMark
<1>2. z \in Nat /\ r <= z
  OBVIOUS
<1> HIDE DEF z
<1>3. ASSUME NEW m \in stops PROVE m \in Nat /\ m >= r /\ m < z
  <2>1. m \in s .. z - 1 /\ m \notin s .. r - 1
    OBVIOUS
  <2> QED
    BY <1>2, <2>1
<1>4. CASE r = z
  <2>1. stops = {}
    BY <1>2, <1>3, <1>4
  <2> QED
    BY <1>1, <1>4, <2>1
<1>5. CASE r # z
  <2>1. r \in s .. z - 1
    BY <1>2, <1>5
  <2>2. r \in stops
    BY <1>5, <2>1 DEF z
  <2> HIDE DEF stops
  <2>3. stops \in SUBSET Nat /\ stops # {}
    BY <1>3, <2>2
  <2>4. Min(stops) \in stops /\ Min(stops) <= r
    BY <2>2, <2>3, MinOf
  <2>5. Min(stops) = r
    <3>1. Min(stops) \in Nat /\ Min(stops) >= r
      BY <1>3, <2>4
    <3> QED
      BY <2>4, <3>1
  <2> QED
    BY <1>1, <2>3, <2>5
<1> QED
  BY <1>4, <1>5

\* When every byte is read as it was written, so is the record.
LEMMA BytesRead ==
  ASSUME NEW rec \in Writable, data \in Nat,
         \A m \in 1 .. Len(rec.data) + 5 : FromHex8(data + 2 * m - 1) = LineBytes(rec)[m]
  PROVE  LET l == Len(rec.data) IN
         /\ FromHex8(data + 1) = l /\ Record(l) = rec
         /\ ihex_check_record(Record(l), FromHex8(data + 9 + 2 * l))
<1> DEFINE l == Len(rec.data)
           b == LineBytes(rec)
<1>1. l \in Nat
  BY WritableType
<1>2. /\ b[1] = l /\ b[2] = rec.address \div 256 /\ b[3] = rec.address % 256
      /\ b[4] = rec.type /\ b[l + 5] = Checksum(rec)
      /\ \A m \in 1 .. l : b[m + 4] = rec.data[m]
  BY LineBytesAre
<1>3. /\ rec.data \in Seq(HexByte) /\ rec \in HexRecord
      /\ 256 * (rec.address \div 256) + (rec.address % 256) = rec.address
      /\ ihex_check_record(rec, Checksum(rec))
  <2>1. rec.address \in Nat /\ rec.address <= 65535 /\ rec.data \in Seq(HexByte) /\ rec \in HexRecord
    BY WritableType
  <2>2. 256 * (rec.address \div 256) + (rec.address % 256) = rec.address
    BY <2>1, HighLow
  <2> QED
    BY <2>1, <2>2, ChecksumFits
<1>4. \A m \in 1 .. l + 5 : FromHex8(data + 2 * m - 1) = b[m]
  OBVIOUS
<1> HIDE DEF l, b
<1>5. /\ FromHex8(data + 1) = l /\ FromHex8(data + 7) = rec.type
      /\ FromHex8(data + 3) = rec.address \div 256 /\ FromHex8(data + 5) = rec.address % 256
      /\ FromHex8(data + 9 + 2 * l) = Checksum(rec)
  <2>1. /\ 1 \in 1 .. l + 5 /\ 2 \in 1 .. l + 5 /\ 3 \in 1 .. l + 5 /\ 4 \in 1 .. l + 5
        /\ l + 5 \in 1 .. l + 5
    BY <1>1
  <2>2. /\ data + 2 * 1 - 1 = data + 1 /\ data + 2 * 2 - 1 = data + 3
        /\ data + 2 * 3 - 1 = data + 5 /\ data + 2 * 4 - 1 = data + 7
        /\ data + 2 * (l + 5) - 1 = data + 9 + 2 * l
    BY <1>1
  <2> QED
    BY <1>2, <1>4, <2>1, <2>2
<1>6. ASSUME NEW m \in 1 .. l PROVE FromHex8(data + 7 + 2 * m) = rec.data[m]
  <2>1. m + 4 \in 1 .. l + 5 /\ data + 2 * (m + 4) - 1 = data + 7 + 2 * m
    BY <1>1
  <2> QED
    BY <1>2, <1>4, <2>1
<1>7. Record(l) = rec
  <2>1. FromHex16(data + 3) = rec.address
    <3>1. (data + 3) + 2 = data + 5
      OBVIOUS
    <3> QED
      BY <1>3, <1>5, <3>1 DEF FromHex16
  <2>2. [m \in 1 .. l |-> FromHex8(data + 7 + 2 * m)] = rec.data
    <3>1. DOMAIN rec.data = 1 .. l /\ rec.data = [m \in DOMAIN rec.data |-> rec.data[m]]
      BY <1>3 DEF l
    <3> QED
      BY <1>6, <3>1
  <2>3. rec = [type |-> rec.type, address |-> rec.address, data |-> rec.data]
    BY <1>3 DEF HexRecord
  <2> QED
    BY <1>5, <2>1, <2>2, <2>3 DEF Record
<1> QED
  BY <1>3, <1>5, <1>7 DEF l

\* The parser reads rec at `data' and goes on at r.
ReadAs(rec, r) ==
  LET l == Len(rec.data) IN
  /\ MoreText /\ ~Truncated
  /\ FromHex8(data + 1) = l /\ ~(data + 9 + 2 * l >= Len(text))
  /\ ParseError(l) = "none" /\ Record(l) = rec
  /\ SkipToMark(data + 2 * l + 10) = r

\* A line without a wrong character is taken for the record that it was written for,
\* and the parser goes on with the next line, if that begins with its mark.
LEMMA LineParsed ==
  ASSUME text \in Seq(Chars), NEW t, NEW d, OneOff(t, d),
         NEW rec \in Writable, NEW e \in {<<LF>>, <<CR, LF>>}, data \in Nat,
         LineHolds(t, data, rec, e), LineEnd(data, Len(rec.data), e) <= Len(text),
         d \notin data + 1 .. LineEnd(data, Len(rec.data), e),
         \/ LineEnd(data, Len(rec.data), e) = Len(text)
         \/ Chr(LineEnd(data, Len(rec.data), e)) = IHEX_CHR_RECORDMARK
  PROVE  ReadAs(rec, LineEnd(data, Len(rec.data), e))
<1> DEFINE l == Len(rec.data)
           b == LineBytes(rec)
           c == Len(e)
           r == LineEnd(data, l, e)
<1>1. Finds(data, rec, e, d)
  BY LineRead
<1>2. /\ l \in Nat /\ c \in 1 .. 2 /\ r \in Nat
      /\ r = data + 2 * l + 11 + c /\ r <= Len(text) /\ Len(text) \in Nat
      /\ d # data + 1 => Chr(data) = IHEX_CHR_RECORDMARK
      /\ \A m \in 1 .. l + 5 :
           /\ d # data + 2 * m => Chr(data + 2 * m - 1) = b[m] \div 16
           /\ d # data + 2 * m + 1 => Chr(data + 2 * m) = b[m] % 16
           /\ b[m] \div 16 \in 0 .. 15 /\ b[m] % 16 \in 0 .. 15
           /\ 16 * (b[m] \div 16) + (b[m] % 16) = b[m]
           /\ d # data + 2 * m /\ d # data + 2 * m + 1 => FromHex8(data + 2 * m - 1) = b[m]
      /\ d # data + 2 * l + 12 => Chr(data + 2 * l + 11) = e[1]
      /\ c = 2 /\ d # data + 2 * l + 13 => Chr(data + 2 * l + 12) = e[2]
      /\ \A x \in data + 1 .. r - 1 :
           d # x + 1 => Chr(x) \notin {IHEX_CHR_RECORDMARK, NUL}
  BY <1>1 DEF Finds
<1>3. (c = 1 => e[1] = LF) /\ (c = 2 => e[1] = CR /\ e[2] = LF)
  BY EolType
<1>4. d \notin data + 1 .. r
  OBVIOUS
<1>5. r = Len(text) \/ Chr(r) = IHEX_CHR_RECORDMARK
  OBVIOUS
<1>6. ASSUME \A m \in 1 .. l + 5 : FromHex8(data + 2 * m - 1) = b[m]
      PROVE  /\ FromHex8(data + 1) = l /\ Record(l) = rec
             /\ ihex_check_record(Record(l), FromHex8(data + 9 + 2 * l))
  BY <1>6, BytesRead
<1> HIDE DEF l, b, c, r
<1>7. /\ Chr(data) = IHEX_CHR_RECORDMARK
      /\ Chr(data + 2 * l + 11) = e[1]
      /\ c = 2 => Chr(data + 2 * l + 12) = e[2]
  <2>1. /\ data + 1 \in data + 1 .. r /\ data + 2 * l + 12 \in data + 1 .. r
        /\ c = 2 => data + 2 * l + 13 \in data + 1 .. r
    BY <1>2
  <2> QED
    BY <1>2, <1>4, <2>1
<1>8. ASSUME NEW m \in 1 .. l + 5
      PROVE  FromHex8(data + 2 * m - 1) = b[m] /\ Chr(data + 2 * m - 1) \in 0 .. 15
  <2>1. data + 2 * m \in data + 1 .. r /\ data + 2 * m + 1 \in data + 1 .. r
    BY <1>2
  <2> QED
    BY <1>2, <1>4, <2>1
<1>9. ASSUME NEW x \in data + 1 .. r - 1
      PROVE  Chr(x) \notin {IHEX_CHR_RECORDMARK, NUL}
  <2>1. x + 1 \in data + 1 .. r
    BY <1>2
  <2> QED
    BY <1>2, <1>4, <2>1
<1>10. /\ FromHex8(data + 1) = l /\ Record(l) = rec
       /\ ihex_check_record(Record(l), FromHex8(data + 9 + 2 * l))
  BY <1>6, <1>8
<1>11. MoreText /\ ~Truncated /\ ~(data + 9 + 2 * l >= Len(text))
  <2>1. data < Len(text) /\ data + 3 < Len(text) /\ data + 9 + 2 * l < Len(text)
    <3>1. \A x, y, z, w \in Nat : x + 2 * y + 11 + z <= w =>
            x < w /\ x + 3 < w /\ x + 9 + 2 * y < w
      OBVIOUS
    <3>2. c \in Nat /\ data + 2 * l + 11 + c <= Len(text)
      BY <1>2
    <3> QED
      BY <1>2, <3>1, <3>2
  <2>2. Chr(data) # NUL
    BY <1>7 DEF IHEX_CHR_RECORDMARK, NUL
  <2>3. ~(data + 9 + 2 * l >= Len(text)) /\ ~(data + 3 >= Len(text))
    <3>1. \A x, w \in Nat : x < w => ~(x >= w)
      OBVIOUS
    <3>2. \A x, y \in Nat : x + 9 + 2 * y \in Nat /\ x + 3 \in Nat
      OBVIOUS
    <3> QED
      BY <1>2, <2>1, <3>1, <3>2
  <2> QED
    BY <2>1, <2>2, <2>3 DEF MoreText, Truncated
<1>12. ParseError(l) = "none"
  <2>1. LineEnds(l)
    <3>1. data + 11 + 2 * l = data + 2 * l + 11 /\ data + 12 + 2 * l = data + 2 * l + 12
      BY <1>2
    <3>2. c = 1 \/ c = 2
      BY <1>2
    <3> QED
      BY <1>3, <1>7, <3>1, <3>2 DEF LineEnds
  <2>2. ASSUME NEW m \in 1 .. l PROVE Chr(data + 7 + 2 * m) \notin {LF, CR}
    <3>1. m + 4 \in 1 .. l + 5 /\ data + 2 * (m + 4) - 1 = data + 7 + 2 * m
      BY <1>2
    <3>2. Chr(data + 7 + 2 * m) \in 0 .. 15
      BY <1>8, <3>1
    <3>3. 18 \notin 0 .. 15 /\ 19 \notin 0 .. 15
      OBVIOUS
    <3> QED
      BY <3>2, <3>3 DEF LF, CR
  <2>3. LineGoesOn(l)
    BY <2>2 DEF LineGoesOn
  <2> QED
    BY <1>7, <1>10, <2>1, <2>3 DEF ParseError
<1>13. SkipToMark(data + 2 * l + 10) = r
  <2> DEFINE s == data + 2 * l + 10
  <2>1. s \in Nat /\ s <= r /\ \A x \in s .. r - 1 : x \in data + 1 .. r - 1
    BY <1>2
  <2> HIDE DEF s
  <2>2. SkipToMark(s) = r
    BY <1>2, <1>5, <1>9, <2>1, SkipsTo
  <2> QED
    BY <2>2 DEF s
<1> QED
  BY <1>10, <1>11, <1>12, <1>13 DEF ReadAs, l, r

\* What is known of the k-th line.
LEMMA LayoutLine ==
  ASSUME source \in Seq(Writable), NEW t \in Seq(Chars), NEW p, NEW e, Layout(t, p, e),
         NEW k \in 1 .. Len(source)
  PROVE  /\ p[k - 1] \in Nat /\ source[k] \in Writable /\ e \in {<<LF>>, <<CR, LF>>}
         /\ LineHolds(t, p[k - 1], source[k], e)
         /\ p[k] = LineEnd(p[k - 1], Len(source[k].data), e) /\ p[k] <= Len(t)
         /\ p[k - 1] + 1 <= p[k] /\ p[k] \in Nat
         /\ k = Len(source) => p[k] = Len(t)
         /\ k # Len(source) => /\ k + 1 \in 1 .. Len(source) /\ (k + 1) - 1 = k
                              /\ p[k] < Len(t) /\ t[p[k] + 1] = IHEX_CHR_RECORDMARK
<1> DEFINE N == Len(source)
<1>1. N \in Nat /\ k - 1 \in 0 .. N /\ k \in 0 .. N /\ k - 1 < k /\ N \in 0 .. N
  OBVIOUS
<1>2. /\ \A j0 \in 0 .. N : p[j0] \in Nat /\ p[j0] <= Len(t)
      /\ \A a, b \in 0 .. N : a < b => p[a] < p[b]
      /\ p[N] = Len(t)
  BY LayoutGrows DEF Layout
<1>3. \A m \in 1 .. N : /\ p[m] = LineEnd(p[m - 1], Len(source[m].data), e)
                        /\ LineHolds(t, p[m - 1], source[m], e)
  BY DEF Layout, LineEnd
<1>4. source[k] \in Writable /\ e \in {<<LF>>, <<CR, LF>>}
  BY DEF Layout
<1> HIDE DEF N
<1>5. p[k - 1] \in Nat /\ p[k] \in Nat /\ p[k - 1] < p[k]
  BY <1>1, <1>2
<1>6. p[k - 1] + 1 <= p[k]
  BY <1>5
<1>7. ASSUME k # N
      PROVE  /\ k + 1 \in 1 .. N /\ (k + 1) - 1 = k
             /\ p[k] < Len(t) /\ t[p[k] + 1] = IHEX_CHR_RECORDMARK
  <2>1. k + 1 \in 1 .. N /\ (k + 1) - 1 = k /\ k < N
    BY <1>1, <1>7
  <2>2. LineHolds(t, p[k], source[k + 1], e)
    BY <1>3, <2>1
  <2> QED
    BY <1>1, <1>2, <2>1, <2>2 DEF LineHolds
<1> QED
  BY <1>1, <1>2, <1>3, <1>4, <1>5, <1>6, <1>7 DEF N

\* Where the parser is in an intact text: at the start of a line, with the records
\* of the lines before it read.
AtLine(p) ==
  /\ pc \in {"parse", "finish", "accepted"} => Len(records) = Len(source)
  /\ pc = "parse" => /\ i \in 0 .. Len(source) /\ data = p[i]
                     /\ \A k \in 1 .. i : records[k] = source[k]
  /\ pc \in {"finish", "accepted"} => records = source
  /\ pc # "refused"

ReadInv ==
  /\ source \in Seq(Writable)
  /\ EndsWithEof(source) /\ Intact => \E p, e : Layout(text, p, e) /\ AtLine(p)

LEMMA ParserSteps ==
  ASSUME [EepromNext]_allVars
  PROVE  UNCHANGED parser \/ Parse
BY DEF EepromNext, UseImage, Next, write_eeprom, WriteByte, NextRecord, AllWritten,
   ihex_rs_from_mem, ihex_rs_get_address_range, ihex_mem_copy, RangeRecord, CopyRecord,
   OutOfRange, IterateFails, IterateEnds, allVars, vars

LEMMA SameLayout ==
  ASSUME UNCHANGED <<source, text>>
  PROVE  /\ Intact' = Intact /\ EndsWithEof(source)' = EndsWithEof(source)
         /\ \A t, p, e : Layout(t, p, e)' = Layout(t, p, e)
         /\ \A p, e : Layout(text, p, e)' = Layout(text, p, e)
BY DEF Intact, EndsWithEof, Layout, LineHolds

LEMMA ReadInit == ASSUME ParserInit PROVE ReadInv
<1>1. source \in Seq(Writable)
  <2>1. PICK s \in Sources : source = s[1] /\ text = s[2]
    BY DEF ParserInit
  <2>2. source \in Seq(HexRecord) /\ \A k \in DOMAIN source : Len(source[k].data) \in HexByte
    BY <2>1, ParserAssumption
  <2>3. \A k \in 1 .. Len(source) : source[k] \in Writable
    BY <2>2 DEF Writable
  <2> QED
    BY <2>2, <2>3
<1>2. \A p : AtLine(p)
  BY DEF ParserInit, AtLine
<1>3. ASSUME Intact PROVE \E p, e : Layout(text, p, e)
  <2>1. PICK e \in {<<LF>>, <<CR, LF>>} : text = TextOf(source, e)
    BY <1>3 DEF Intact
  <2> QED
    BY <1>1, <2>1, IntactLayout
<1> QED
  BY <1>1, <1>2, <1>3 DEF ReadInv

LEMMA ReadStep ==
  ASSUME Walk, ReadInv, [EepromNext]_allVars
  PROVE  ReadInv'
<1>1. UNCHANGED parser \/ CountMarks \/ ParseRecord \/ EndOfText \/ CheckLast
  BY ParserSteps DEF Parse
<1>2. source' = source /\ text' = text
  BY <1>1 DEF parser, CountMarks, ParseRecord, EndOfText, CheckLast
<1>3. source \in Seq(Writable) /\ source' \in Seq(Writable) /\ Len(source) \in Nat
  BY <1>2 DEF ReadInv
<1>4. SUFFICES ASSUME EndsWithEof(source), Intact
               PROVE  \E p, e : Layout(text, p, e)' /\ AtLine(p)'
  BY <1>2, <1>3, SameLayout DEF ReadInv
<1>5. PICK p, e : Layout(text, p, e) /\ AtLine(p)
  BY <1>4 DEF ReadInv
<1>6. Layout(text, p, e)'
  BY <1>2, <1>5, SameLayout
<1>7. text \in Seq(Chars) /\ Len(text) \in Nat /\ records \in Seq(HexRecord)
  BY DEF Walk, TextTyped, ParserTypeOK
<1>8. ASSUME pc = "parse", i < Len(source)
      PROVE  /\ i + 1 \in 1 .. Len(source)
             /\ LET l == FromHex8(data + 1) IN
                /\ MoreText /\ ~Truncated /\ ~(data + 9 + 2 * l >= Len(text))
                /\ ParseError(l) = "none" /\ Record(l) = source[i + 1]
                /\ SkipToMark(data + 2 * l + 10) = p[i + 1]
  <2>1. i \in 0 .. Len(source) /\ data = p[i]
    BY <1>5, <1>8 DEF AtLine
  <2>2. i + 1 \in 1 .. Len(source) /\ (i + 1) - 1 = i
    BY <1>3, <1>8, <2>1
  <2> DEFINE k == i + 1
             rec == source[k]
             r == LineEnd(data, Len(rec.data), e)
  <2>3. k \in 1 .. Len(source) /\ data = p[k - 1]
    BY <2>1, <2>2
  <2>4. OneOff(text, 0)
    BY <1>7 DEF OneOff
  <2> HIDE DEF k
  <2>5. /\ data \in Nat /\ rec \in Writable /\ e \in {<<LF>>, <<CR, LF>>}
        /\ LineHolds(text, data, rec, e) /\ p[k] = r /\ r <= Len(text) /\ r \in Nat
        /\ k = Len(source) => r = Len(text)
        /\ k # Len(source) => r < Len(text) /\ text[r + 1] = IHEX_CHR_RECORDMARK
    BY <1>3, <1>5, <1>7, <2>3, LayoutLine, SMTT(30)
  <2> HIDE DEF rec, r
  <2>6. r = Len(text) \/ Chr(r) = IHEX_CHR_RECORDMARK
    BY <2>5 DEF Chr
  <2>7. 0 \notin data + 1 .. r
    BY <2>5
  <2>8. ReadAs(rec, r)
    BY <1>7, <2>4, <2>5, <2>6, <2>7, LineParsed DEF r
  <2> QED
    BY <2>2, <2>5, <2>8 DEF ReadAs, k, rec
<1>9. ASSUME pc = "parse", ~(i < Len(source))
      PROVE  ~MoreText /\ records = source
  <2>1. i = Len(source) /\ data = p[i]
    BY <1>3, <1>5, <1>9 DEF AtLine
  <2>2. data = Len(text)
    BY <1>5, <2>1 DEF Layout
  <2>3. ~(data < Len(text))
    BY <1>7, <2>2
  <2>4. /\ Len(records) = Len(source)
        /\ \A k \in 1 .. Len(source) : records[k] = source[k]
    BY <1>5, <1>9, <2>1 DEF AtLine
  <2>5. records = source
    BY <1>3, <1>7, <2>4
  <2> QED
    BY <2>3, <2>5 DEF MoreText
<1>10. CASE UNCHANGED parser
  BY <1>5, <1>6, <1>10 DEF parser, AtLine
<1>11. CASE CountMarks
  <2>1. /\ pc' = "parse" /\ i' = 0 /\ data' = 0
        /\ records' = [k \in 1 .. Cardinality(Marks) |-> Calloc]
    BY <1>11 DEF CountMarks, Walk
  <2>2. Cardinality(Marks) = Len(source)
    BY <1>3, <1>5, <1>7, MarksAreLines
  <2>3. Len(records') = Len(source)
    BY <1>3, <2>1, <2>2
  <2>4. p[0] = 0 /\ 0 \in 0 .. Len(source)
    BY <1>3, <1>5 DEF Layout
  <2>5. i' \in 0 .. Len(source) /\ data' = p[i'] /\ 1 .. i' = {}
    BY <2>1, <2>4
  <2>6. AtLine(p)'
    BY <1>2, <2>1, <2>3, <2>5 DEF AtLine
  <2> QED
    BY <1>6, <2>6
<1>12. CASE ParseRecord
  <2> DEFINE l == FromHex8(data + 1)
  <2>1. pc = "parse" /\ MoreText /\ ~Truncated /\ i' = i + 1
    BY <1>12 DEF ParseRecord
  <2>2. i < Len(source)
    BY <1>9, <2>1
  <2>3. /\ i + 1 \in 1 .. Len(source) /\ ~(data + 9 + 2 * l >= Len(text))
        /\ ParseError(l) = "none" /\ Record(l) = source[i + 1]
        /\ SkipToMark(data + 2 * l + 10) = p[i + 1]
    BY <1>8, <2>1, <2>2
  <2>a. data + 9 + 2 * l \in Nat
    BY <2>1, InParse, RecordEndType
  <2>4. /\ records' = [k \in DOMAIN records |-> IF k = i' THEN Record(l) ELSE records[k]]
        /\ data' = SkipToMark(data + 2 * l + 10) /\ pc' = pc
    BY <1>7, <1>12, <2>3, <2>a, Taken
  <2> HIDE DEF l
  <2>5. i \in 0 .. Len(source) /\ Len(records) = Len(source)
        /\ \A k \in 1 .. i : records[k] = source[k]
    BY <1>5, <2>1 DEF AtLine
  <2>6. DOMAIN records = 1 .. Len(source)
    BY <1>7, <2>5
  <2>7. Len(records') = Len(source)
    BY <1>3, <2>4, <2>6
  <2>8. ASSUME NEW k \in 1 .. i + 1 PROVE records'[k] = source[k]
    <3>1. k \in 1 .. Len(source) /\ (k = i + 1 \/ k \in 1 .. i)
      BY <1>3, <2>3, <2>5
    <3>2. records'[k] = IF k = i + 1 THEN source[i + 1] ELSE records[k]
      BY <2>1, <2>3, <2>4, <2>6, <3>1
    <3> QED
      BY <2>5, <3>1, <3>2
  <2>9. i' \in 0 .. Len(source)
    BY <1>3, <2>1, <2>3
  <2>10. AtLine(p)'
    BY <1>2, <2>1, <2>3, <2>4, <2>7, <2>8, <2>9 DEF AtLine
  <2> QED
    BY <1>6, <2>10
<1>13. CASE EndOfText
  <2>1. /\ pc = "parse" /\ (~MoreText \/ Truncated) /\ pc' = "finish" /\ records' = records
    BY <1>13 DEF EndOfText
  <2>2. ~(i < Len(source))
    BY <1>8, <2>1
  <2>3. records = source
    BY <1>9, <2>1, <2>2
  <2>4. AtLine(p)'
    BY <1>2, <2>1, <2>3 DEF AtLine
  <2> QED
    BY <1>6, <2>4
<1>14. CASE CheckLast
  <2>1. pc = "finish" /\ records' = records
    BY <1>14 DEF CheckLast
  <2>2. records = source
    BY <1>5, <2>1 DEF AtLine
  <2>3. records # << >> /\ Last(records).type = IHEX_EOF
    BY <1>4, <2>2 DEF EndsWithEof
  <2>4. pc' = "accepted"
    BY <1>14, <2>3 DEF CheckLast
  <2>5. AtLine(p)'
    BY <1>2, <2>1, <2>2, <2>4 DEF AtLine
  <2> QED
    BY <1>6, <2>5
<1> QED
  BY <1>1, <1>10, <1>11, <1>12, <1>13, <1>14

\* ParsesIntact: whatever records a file was written for, with LF or with CR LF, the
\* parser returns exactly these if the last of them is an EOF record.
THEOREM IntactIsParsed == EepromSpec => []ParsesIntact
<1>1. EepromInit => ReadInv
  BY ReadInit DEF EepromInit, Init
<1>2. Walk /\ ReadInv /\ [EepromNext]_allVars => ReadInv'
  BY ReadStep
<1>3. ReadInv => ParsesIntact
  BY DEF ReadInv, AtLine, ParsesIntact
<1> QED
  BY <1>1, <1>2, <1>3, WalkAlways, PTL DEF EepromSpec

-----------------------------------------------------------------------------
(* One wrong character. *)

\* The text is that of the source but for its d-th character.
Spoilt(t, p, e, d) ==
  Layout(t, p, e) /\ OneOff(t, d) /\ d \in 1 .. Len(text) /\ text[d] # t[d]

LEMMA DamagedSpoilt ==
  ASSUME source \in Seq(Writable), text \in Seq(Chars), Damaged
  PROVE  \E t, p, e, d : Spoilt(t, p, e, d)
<1>1. PICK e \in {<<LF>>, <<CR, LF>>} :
        LET t == TextOf(source, e) IN
        /\ Len(t) = Len(text)
        /\ Cardinality({k \in DOMAIN t : t[k] # text[k]}) = 1
  BY DEF Damaged
<1> DEFINE t == TextOf(source, e)
           S == {k \in DOMAIN t : t[k] # text[k]}
<1>2. Len(t) = Len(text) /\ Cardinality(S) = 1
  BY <1>1
<1>3. t \in Seq(Chars)
  BY IntactLayout
<1>4. PICK p : Layout(t, p, e)
  BY IntactLayout
<1> HIDE DEF t
<1>5. DOMAIN t = 1 .. Len(text) /\ Len(text) \in Nat
  BY <1>2, <1>3
<1>6. IsFiniteSet(1 .. Len(text))
  BY <1>5, FS_Interval
<1>7. IsFiniteSet(S)
  BY <1>5, <1>6, FS_Subset
<1>8. PICK d : S = {d}
  BY <1>2, <1>7, FS_Singleton
<1>9. d \in 1 .. Len(text) /\ text[d] # t[d]
  <2>1. d \in S
    BY <1>8
  <2> QED
    BY <1>5, <2>1
<1>10. ASSUME NEW y \in 1 .. Len(text), y # d PROVE text[y] = t[y]
  <2>1. y \notin S
    BY <1>8, <1>10
  <2> QED
    BY <1>5, <2>1
<1>11. OneOff(t, d)
  BY <1>2, <1>3, <1>10 DEF OneOff
<1> QED
  BY <1>4, <1>9, <1>11 DEF Spoilt

\* If no mark is missed, none was hit, and a NUL is in the last line.
LEMMA NoMarkHit ==
  ASSUME source \in Seq(Writable), text \in Seq(Chars), NEW t, NEW p, NEW e, NEW d,
         Spoilt(t, p, e, d), Cardinality(Marks) >= Len(source)
  PROVE  /\ d \notin LineMarks(p)
         /\ text[d] = NUL => \A y \in LineMarks(p) : y < d
<1>1. /\ Layout(t, p, e) /\ t \in Seq(Chars) /\ Len(t) = Len(text) /\ Len(text) \in Nat
      /\ d \in 1 .. Len(text) /\ text[d] # t[d]
      /\ \A y \in 1 .. Len(text) : y # d => text[y] = t[y]
  BY DEF Spoilt, OneOff
<1> DEFINE M == LineMarks(p)
           N == Len(source)
<1>2. /\ IsFiniteSet(M) /\ Cardinality(M) = N /\ N \in Nat
      /\ M \subseteq 1 .. Len(text)
      /\ \A y \in 1 .. Len(text) : t[y] = IHEX_CHR_RECORDMARK <=> y \in M
  BY <1>1, MarksOfLines
<1> HIDE DEF M, N
<1>3. ASSUME NEW y \in M, y \notin Marks, \A m \in Marks : m \in M PROVE FALSE
  <2>1. Marks \in SUBSET (M \ {y})
    BY <1>3
  <2>2. IsFiniteSet(M \ {y}) /\ Cardinality(M \ {y}) = N - 1
    BY <1>2, <1>3, FS_RemoveElement
  <2>3. Cardinality(Marks) <= N - 1 /\ IsFiniteSet(Marks)
    BY <2>1, <2>2, FS_Subset
  <2>4. Cardinality(Marks) \in Nat
    BY <2>3, FS_CardinalityType
  <2> QED
    BY <1>2, <2>3, <2>4 DEF N
<1>4. \A m \in Marks : m \in 1 .. Len(text) /\ text[m] = IHEX_CHR_RECORDMARK
  BY DEF Marks
<1>5. ASSUME text[d] # IHEX_CHR_RECORDMARK PROVE \A m \in Marks : m \in M
  BY <1>1, <1>2, <1>4, <1>5
<1>6. ASSUME d \in M PROVE FALSE
  <2>1. text[d] # IHEX_CHR_RECORDMARK
    BY <1>1, <1>2, <1>6
  <2>2. d \notin Marks
    BY <1>4, <2>1
  <2> QED
    BY <1>3, <1>5, <1>6, <2>1, <2>2
<1>7. ASSUME text[d] = NUL, NEW y \in M, ~(y < d) PROVE FALSE
  <2>1. text[d] # IHEX_CHR_RECORDMARK
    BY <1>7 DEF NUL, IHEX_CHR_RECORDMARK
  <2>2. d \in 1 .. y
    BY <1>1, <1>2, <1>7
  <2>3. y \notin Marks
    BY <1>7, <2>2 DEF Marks
  <2> QED
    BY <1>3, <1>5, <1>7, <2>1, <2>3
<1> QED
  BY <1>6, <1>7 DEF M

LEMMA SumOfRecord ==
  ASSUME NEW f \in Nat, NEW h \in Nat, NEW m \in Nat, NEW y \in Nat, NEW s \in Seq(Nat),
         NEW c \in Nat
  PROVE  Total(Append(<<f, h, m, y>> \o s, c)) = f + h + m + y + Total(s) + c
<1>1. <<f, h, m, y>> \o s \in Seq(Nat)
  <2>1. <<f, h, m, y>> \in Seq(Nat)
    OBVIOUS
  <2> QED
    BY <2>1
<1>2. Total(Append(<<f, h, m, y>> \o s, c)) = Total(<<f, h, m, y>> \o s) + c
  BY <1>1, SumAppend
<1>3. Total(<<f, h, m, y>> \o s) = f + h + m + y + Total(s)
  BY SumBehindFour
<1> QED
  BY <1>2, <1>3

\* Behind its length, the line at `data' has the bytes b.
HasBytes(l, b) == \A m \in 2 .. l + 5 : FromHex8(data + 2 * m - 1) = b[m]

\* The checksum of a line, of the bytes as they are read.
LEMMA RecordSum ==
  ASSUME data \in Nat, NEW l \in Nat, NEW b \in Seq(HexByte), Len(b) = l + 5, b[1] = l,
         HasBytes(l, b)
  PROVE  ihex_check_record(Record(l), FromHex8(data + 9 + 2 * l)) <=> Total(b) % 256 = 0
<1> DEFINE s == [k \in 1 .. l |-> b[k + 4]]
           c == b[l + 5]
<1>1. /\ \A m \in 1 .. l + 5 : b[m] \in HexByte /\ b[m] \in Nat
      /\ 1 \in 1 .. l + 5 /\ 2 \in 1 .. l + 5 /\ 3 \in 1 .. l + 5 /\ 4 \in 1 .. l + 5
      /\ 2 \in 2 .. l + 5 /\ 3 \in 2 .. l + 5 /\ 4 \in 2 .. l + 5
      /\ l + 5 \in 1 .. l + 5 /\ l + 5 \in 2 .. l + 5
      /\ \A k \in 1 .. l : k + 4 \in 2 .. l + 5 /\ k + 4 \in 1 .. l + 5
  BY ByteNat
<1>2. s \in Seq(Nat) /\ Len(s) = l
  BY <1>1
<1>3. /\ b[2] \in HexByte /\ b[3] \in HexByte /\ b[4] \in HexByte /\ c \in Nat
      /\ b[2] \in Nat /\ b[3] \in Nat /\ b[4] \in Nat
  BY <1>1
<1>4. FromHex8(data + 3) = b[2] /\ FromHex8(data + 5) = b[3] /\ FromHex8(data + 7) = b[4]
      /\ FromHex8(data + 9 + 2 * l) = c
  <2>1. /\ data + 2 * 2 - 1 = data + 3 /\ data + 2 * 3 - 1 = data + 5
        /\ data + 2 * 4 - 1 = data + 7 /\ data + 2 * (l + 5) - 1 = data + 9 + 2 * l
    OBVIOUS
  <2> QED
    BY <1>1, <2>1 DEF HasBytes
<1>5. ASSUME NEW k \in 1 .. l PROVE FromHex8(data + 7 + 2 * k) = b[k + 4]
  <2>1. data + 2 * (k + 4) - 1 = data + 7 + 2 * k
    OBVIOUS
  <2> QED
    BY <1>1, <2>1 DEF HasBytes
<1>6. Record(l) = [type |-> b[4], address |-> 256 * b[2] + b[3], data |-> s]
  <2>1. FromHex16(data + 3) = 256 * b[2] + b[3]
    <3>1. (data + 3) + 2 = data + 5
      OBVIOUS
    <3> QED
      BY <1>4, <3>1 DEF FromHex16
  <2>2. [k \in 1 .. l |-> FromHex8(data + 7 + 2 * k)] = s
    BY <1>5
  <2> HIDE DEF s
  <2> QED
    BY <1>4, <2>1, <2>2 DEF Record
<1>7. b = Append(<<l, b[2], b[3], b[4]>> \o s, c)
  <2> DEFINE u == <<l, b[2], b[3], b[4]>>
             w == u \o s
  <2>1. u \in Seq(Nat) /\ Len(u) = 4 /\ u[1] = b[1] /\ u[2] = b[2] /\ u[3] = b[3] /\ u[4] = b[4]
    BY <1>3
  <2> HIDE DEF u, s, c
  <2>2. /\ w \in Seq(Nat) /\ Len(w) = l + 4
        /\ \A x \in 1 .. 4 : w[x] = u[x]
        /\ \A k \in 1 .. l : w[4 + k] = s[k]
    <3>1. /\ u \o s \in Seq(Nat) /\ Len(u \o s) = Len(u) + Len(s)
          /\ \A x \in 1 .. Len(u) : (u \o s)[x] = u[x]
          /\ \A x \in 1 .. Len(s) : (u \o s)[Len(u) + x] = s[x]
      <4>1. u \in Seq(Nat) /\ s \in Seq(Nat)
        BY <1>2, <2>1
      <4> QED
        BY <4>1, ConcatIs
    <3>2. Len(u) + Len(s) = l + 4
      BY <1>2, <2>1
    <3> QED
      BY <1>2, <2>1, <3>1, <3>2
  <2> HIDE DEF w
  <2>3. /\ Append(w, c) \in Seq(Nat) /\ Len(Append(w, c)) = l + 5
        /\ Append(w, c)[l + 5] = c /\ \A x \in 1 .. l + 4 : Append(w, c)[x] = w[x]
    <3>1. c \in Nat /\ w \in Seq(Nat) /\ Len(w) + 1 = l + 5 /\ Len(w) = l + 4
      BY <1>3, <2>2
    <3> QED
      BY <3>1
  <2>4. ASSUME NEW x \in 1 .. l + 5 PROVE Append(w, c)[x] = b[x]
    <3>1. x \in 1 .. 4 \/ x \in 5 .. l + 4 \/ x = l + 5
      OBVIOUS
    <3>2. CASE x \in 1 .. 4
      <4>1. x \in 1 .. l + 4 /\ (x = 1 \/ x = 2 \/ x = 3 \/ x = 4)
        BY <3>2
      <4> QED
        BY <2>1, <2>2, <2>3, <3>2, <4>1
    <3>3. CASE x \in 5 .. l + 4
      <4> DEFINE k == x - 4
      <4>1. k \in 1 .. l /\ 4 + k = x /\ k + 4 = x /\ x \in 1 .. l + 4
        BY <3>3
      <4> HIDE DEF k
      <4>2. s[k] = b[k + 4]
        BY <4>1 DEF s
      <4> QED
        BY <2>2, <2>3, <4>1, <4>2
    <3>4. CASE x = l + 5
      BY <2>3, <3>4 DEF c
    <3> QED
      BY <3>1, <3>2, <3>3, <3>4
  <2>5. DOMAIN b = 1 .. l + 5 /\ DOMAIN Append(w, c) = 1 .. l + 5
    BY <2>3
  <2>6. b = Append(w, c)
    BY <2>3, <2>4, <2>5
  <2> QED
    BY <2>6 DEF w, u
<1>8. Total(b) = l + b[2] + b[3] + b[4] + Total(s) + c
  <2> DEFINE u == b[2]
             v == b[3]
             w == b[4]
  <2>1. u \in Nat /\ v \in Nat /\ w \in Nat /\ c \in Nat /\ s \in Seq(Nat)
    BY <1>2, <1>3
  <2>2. b = Append(<<l, u, v, w>> \o s, c)
    BY <1>7
  <2> HIDE DEF u, v, w, s, c
  <2>3. Total(Append(<<l, u, v, w>> \o s, c)) = l + u + v + w + Total(s) + c
    BY <2>1, SumOfRecord, SMTT(30)
  <2> QED
    BY <2>2, <2>3 DEF u, v, w
<1>9. /\ (256 * b[2] + b[3]) \div 256 = b[2] /\ (256 * b[2] + b[3]) % 256 = b[3]
  <2> DEFINE a == 256 * b[2] + b[3]
  <2>1. a \in Nat /\ a <= 65535
    <3>1. 256 * b[2] + b[3] \in HexWord
      BY <1>3, TwoBytes
    <3> QED
      BY <3>1, WordIs DEF a
  <2> HIDE DEF a
  <2>2. /\ a \div 256 \in HexByte /\ a % 256 \in HexByte
        /\ 256 * (a \div 256) + (a % 256) = a
    BY <2>1, HighLow
  <2>3. 256 * (a \div 256) + (a % 256) = 256 * b[2] + b[3]
    BY <2>2 DEF a
  <2>4. \A x, y, z, w \in HexByte : 256 * x + y = 256 * z + w => x = z /\ y = w
    BY DEF HexByte
  <2>5. a \div 256 = b[2] /\ a % 256 = b[3]
    BY <1>3, <2>2, <2>3, <2>4
  <2> QED
    BY <2>5 DEF a
<1>10. ihex_check_record(Record(l), c)
         <=> (l + b[2] + b[3] + b[4] + c + Total(s)) % 256 = 0
  <2> DEFINE rec == Record(l)
  <2> HIDE DEF s
  <2>1. /\ rec.type = b[4] /\ rec.address = 256 * b[2] + b[3] /\ rec.data = s
        /\ Len(rec.data) = l
    BY <1>2, <1>6
  <2> HIDE DEF rec
  <2>2. ihex_check_record(rec, c)
          <=> (l + b[2] + b[3] + b[4] + c + SumOf(s)) % 256 = 0
    BY <1>9, <2>1 DEF ihex_check_record
  <2> QED
    BY <2>2 DEF rec, SumOf, Total
<1>11. l + b[2] + b[3] + b[4] + c + Total(s) = l + b[2] + b[3] + b[4] + Total(s) + c
  <2>1. Total(s) \in Nat
    BY <1>2, SumType
  <2> HIDE DEF s, c
  <2> QED
    BY <1>3, <2>1
<1> QED
  BY <1>4, <1>8, <1>10, <1>11

\* The bytes of a line add up to 0.
LEMMA LineSum ==
  ASSUME NEW rec \in Writable
  PROVE  /\ LineBytes(rec) \in Seq(Nat) /\ Total(LineBytes(rec)) \in Nat
         /\ Total(LineBytes(rec)) % 256 = 0
<1> DEFINE l == Len(rec.data)
           h == rec.address \div 256
           m == rec.address % 256
           y == rec.type
           s == rec.data
           c == Checksum(rec)
<1>1. l \in Nat /\ h \in Nat /\ m \in Nat /\ y \in Nat /\ s \in Seq(Nat) /\ c \in Nat
  BY WritableType, HighLow, ByteNat, ChecksumFits
<1>2. LineBytes(rec) = Append(<<l, h, m, y>> \o s, c)
  BY DEF LineBytes, Bytes
<1>3. (l + h + m + y + c + Total(s)) % 256 = 0
  BY ChecksumFits, ZenonT(60) DEF ihex_check_record, SumOf, Total
<1> HIDE DEF l, h, m, y, s, c
<1>4. Total(LineBytes(rec)) = l + h + m + y + Total(s) + c
  BY <1>1, <1>2, SumOfRecord, SMTT(30)
<1>5. Total(s) \in Nat
  BY <1>1, SumType
<1>6. l + h + m + y + Total(s) + c = l + h + m + y + c + Total(s)
  BY <1>1, <1>5
<1>7. LineBytes(rec) \in Seq(Nat)
  <2>1. <<l, h, m, y>> \in Seq(Nat)
    BY <1>1
  <2>2. <<l, h, m, y>> \o s \in Seq(Nat)
    BY <1>1, <2>1
  <2> QED
    BY <1>1, <1>2, <2>2
<1> QED
  BY <1>3, <1>4, <1>6, <1>7, SumType

LEMMA Remainder ==
  ASSUME NEW y \in Nat, NEW z \in Nat, NEW u \in 0 .. 255, NEW v \in 0 .. 255,
         z % 256 = 0, u # v, y + v = z + u
  PROVE  y % 256 # 0
<1> SUFFICES ASSUME y % 256 = 0 PROVE FALSE
  OBVIOUS
<1> DEFINE p == y \div 256
           q == z \div 256
<1>1. p \in Int /\ q \in Int /\ y = 256 * p /\ z = 256 * q
  BY SMT
<1> HIDE DEF p, q
<1>2. 256 * p + v = 256 * q + u
  BY <1>1
<1>3. p < q \/ p = q \/ p > q
  BY <1>1
<1> QED
  BY <1>1, <1>2, <1>3, SMT

\* A line with one wrong byte behind its length has a wrong checksum.
LEMMA ByteWrong ==
  ASSUME TextTyped, NEW d, NEW rec \in Writable, NEW e, data \in Nat,
         Finds(data, rec, e, d), NEW w \in 2 .. Len(rec.data) + 5,
         d \in {data + 2 * w, data + 2 * w + 1},
         FromHex8(data + 2 * w - 1) # LineBytes(rec)[w]
  PROVE  LET l == Len(rec.data)
         IN  ~ihex_check_record(Record(l), FromHex8(data + 9 + 2 * l))
<1> DEFINE l == Len(rec.data)
           b == LineBytes(rec)
           x == FromHex8(data + 2 * w - 1)
           s == [b EXCEPT ![w] = x]
<1>1. /\ l \in Nat /\ data + 2 * l + 11 <= Len(text) /\ Len(text) \in Nat
      /\ \A m \in 1 .. l + 5 :
           d # data + 2 * m /\ d # data + 2 * m + 1 => FromHex8(data + 2 * m - 1) = b[m]
  <2> DEFINE c == Len(e)
             r == LineEnd(data, l, e)
  <2>1. /\ l \in Nat /\ c \in 1 .. 2 /\ r \in Nat /\ r = data + 2 * l + 11 + c
        /\ r <= Len(text) /\ Len(text) \in Nat
    BY DEF Finds
  <2>2. \A m \in 1 .. l + 5 :
          d # data + 2 * m /\ d # data + 2 * m + 1 => FromHex8(data + 2 * m - 1) = b[m]
    BY DEF Finds
  <2> HIDE DEF l, b, c, r
  <2>3. data + 2 * l + 11 <= Len(text)
    BY <2>1
  <2> QED
    BY <2>1, <2>2, <2>3
<1>2. /\ b \in Seq(HexByte) /\ Len(b) = l + 5 /\ b[1] = l /\ b \in Seq(Nat)
      /\ Total(b) \in Nat /\ Total(b) % 256 = 0
  BY LineBytesAre, LineSum
<1>3. w \in 2 .. l + 5 /\ d \in {data + 2 * w, data + 2 * w + 1} /\ x # b[w]
  OBVIOUS
<1> HIDE DEF l, b
<1>4. x \in HexByte
  <2>1. data + 2 * w - 1 \in Nat /\ data + 2 * w - 1 + 1 < Len(text) + 3
    BY <1>1, <1>3, SMTT(30)
  <2> QED
    BY <2>1, Hex8Typed
<1>5. ASSUME NEW m \in 2 .. l + 5, m # w PROVE FromHex8(data + 2 * m - 1) = b[m]
  <2>1. d # data + 2 * m /\ d # data + 2 * m + 1 /\ m \in 1 .. l + 5
    BY <1>1, <1>3, <1>5
  <2> QED
    BY <1>1, <2>1
<1>6. x \in Nat /\ b[w] \in HexByte /\ b[w] \in Nat /\ w \in 1 .. l + 5 /\ 1 \in 1 .. l + 5 /\ w # 1
  <2>1. w \in 1 .. l + 5 /\ 1 \in 1 .. l + 5 /\ w # 1
    BY <1>1, <1>3
  <2>2. b[w] \in HexByte
    BY <1>2, <2>1
  <2> QED
    BY <1>4, <2>1, <2>2, ByteNat
<1> HIDE DEF x
<1>7. /\ s \in Seq(HexByte) /\ s \in Seq(Nat) /\ Len(s) = l + 5 /\ s[w] = x
      /\ \A m \in 1 .. l + 5 : m # w => s[m] = b[m]
  BY <1>2, <1>4, <1>6
<1> HIDE DEF s
<1>8. HasBytes(l, s)
  <2>1. ASSUME NEW m \in 2 .. l + 5 PROVE FromHex8(data + 2 * m - 1) = s[m]
    <3>1. m \in 1 .. l + 5
      BY <1>1
    <3> QED
      BY <1>5, <1>7, <3>1 DEF x
  <2> QED
    BY <2>1 DEF HasBytes
<1>9. s[1] = l
  BY <1>2, <1>6, <1>7
<1>10. ihex_check_record(Record(l), FromHex8(data + 9 + 2 * l)) <=> Total(s) % 256 = 0
  BY <1>1, <1>7, <1>8, <1>9, RecordSum
<1>11. Total(s) + b[w] = Total(b) + x
  <2>1. \A k \in 1 .. Len(b) : k # w => b[k] = s[k]
    BY <1>2, <1>7
  <2>2. b \in Seq(Nat) /\ s \in Seq(Nat) /\ Len(b) = Len(s) /\ w \in 1 .. Len(b)
    BY <1>2, <1>6, <1>7
  <2>3. Total(s) + b[w] = Total(b) + s[w]
    BY <2>1, <2>2, SumChanged
  <2> QED
    BY <1>7, <2>3
<1>12. Total(s) % 256 # 0
  <2>1. Total(s) \in Nat
    BY <1>7, SumType
  <2>2. x \in 0 .. 255 /\ b[w] \in 0 .. 255
    BY <1>4, <1>6 DEF HexByte
  <2> QED
    BY <1>2, <1>3, <1>11, <2>1, <2>2, Remainder, ZenonT(60)
<1> QED
  BY <1>10, <1>12 DEF l

\* What a record may be refused for.
LEMMA Refusal ==
  ASSUME NEW l, \/ ~LineEnds(l)
                \/ ~LineGoesOn(l)
                \/ ~ihex_check_record(Record(l), FromHex8(data + 9 + 2 * l))
  PROVE  ParseError(l) # "none"
BY DEF ParseError

\* Behind the character r the text ends, or another line begins.
Followed(r) ==
  \/ r = Len(text)
  \/ /\ r + 10 < Len(text) /\ Chr(r) = IHEX_CHR_RECORDMARK
     /\ \A x \in 1 .. 10 : Chr(r + x) \in 0 .. 15

LEMMA NoEnd == /\ \A x \in 0 .. 15 : x \notin {LF, CR}
               /\ IHEX_CHR_RECORDMARK \notin {LF, CR, NUL}
               /\ LF \notin {IHEX_CHR_RECORDMARK, NUL} /\ CR \notin {IHEX_CHR_RECORDMARK, NUL}
               /\ LF # CR /\ ~(LF < 16) /\ ~(CR < 16) /\ ~(IHEX_CHR_RECORDMARK < 16)
BY DEF LF, CR, IHEX_CHR_RECORDMARK, NUL

LEMMA LongerSum ==
  ASSUME NEW p \in Nat, NEW q \in Nat, NEW u \in Nat, NEW w \in 0 .. 15,
         q % 256 = 0, p + u = q + (u + 1)
  PROVE  (p + w) % 256 # 0
<1> DEFINE a == p + w
           b == w + 1
           c == 0
<1>1. p = q + 1
  OBVIOUS
<1>2. a \in Nat /\ b \in 0 .. 255 /\ c \in 0 .. 255 /\ b # c /\ a + c = q + b
  BY <1>1
<1> HIDE DEF a, b, c
<1>3. a % 256 # 0
  BY <1>2, Remainder, ZenonT(60)
<1> QED
  BY <1>3 DEF a

\* A line with a wrong length is refused: its end, its checksum or another line is
\* where something else should be.
LEMMA LengthWrong ==
  ASSUME TextTyped, NEW d, NEW rec \in Writable, NEW e \in {<<LF>>, <<CR, LF>>},
         data \in Nat, Finds(data, rec, e, d), d \in {data + 2, data + 3},
         Followed(LineEnd(data, Len(rec.data), e)), NEW v \in HexByte,
         v = FromHex8(data + 1), v # Len(rec.data), data + 9 + 2 * v < Len(text)
  PROVE  ParseError(v) # "none"
<1> DEFINE l == Len(rec.data)
           b == LineBytes(rec)
           c == Len(e)
           r == LineEnd(data, l, e)
<1>1. /\ l \in Nat /\ c \in 1 .. 2 /\ r \in Nat
      /\ r = data + 2 * l + 11 + c /\ r <= Len(text) /\ Len(text) \in Nat
  BY DEF Finds
<1>2. \A m \in 1 .. l + 5 :
        /\ d # data + 2 * m => Chr(data + 2 * m - 1) = b[m] \div 16
        /\ b[m] \div 16 \in 0 .. 15
        /\ d # data + 2 * m /\ d # data + 2 * m + 1 => FromHex8(data + 2 * m - 1) = b[m]
  BY DEF Finds
<1>3. /\ d # data + 2 * l + 12 => Chr(data + 2 * l + 11) = e[1]
      /\ c = 2 /\ d # data + 2 * l + 13 => Chr(data + 2 * l + 12) = e[2]
  BY DEF Finds
<1>4. /\ d \in {data + 2, data + 3} /\ v \in Nat /\ v # l /\ v = FromHex8(data + 1)
      /\ data + 9 + 2 * v < Len(text) /\ Followed(r)
  BY ByteNat
<1>5. /\ b \in Seq(HexByte) /\ Len(b) = l + 5 /\ b[1] = l /\ b \in Seq(Nat)
      /\ Total(b) \in Nat /\ Total(b) % 256 = 0
  BY LineBytesAre, LineSum
<1>6. /\ e[1] \in {LF, CR} /\ (c = 2 => e[2] = LF)
  BY EolType
<1>7. l \in HexByte
  BY WritableType
<1> HIDE DEF l, b, c, r
<1>8. /\ Chr(data + 2 * l + 11) = e[1]
      /\ c = 2 => Chr(data + 2 * l + 12) = LF
      /\ \A m \in 2 .. l + 5 :
           /\ Chr(data + 2 * m - 1) \in 0 .. 15
           /\ FromHex8(data + 2 * m - 1) = b[m]
  <2>1. d # data + 2 * l + 12 /\ d # data + 2 * l + 13
    BY <1>1, <1>4
  <2>2. ASSUME NEW m \in 2 .. l + 5
        PROVE  /\ Chr(data + 2 * m - 1) \in 0 .. 15
               /\ FromHex8(data + 2 * m - 1) = b[m]
    <3>1. m \in 1 .. l + 5 /\ d # data + 2 * m /\ d # data + 2 * m + 1
      BY <1>1, <1>4, SMTT(30)
    <3> QED
      BY <1>2, <3>1
  <2> QED
    BY <1>3, <1>6, <2>1, <2>2
<1>9. CASE v < l
  <2> DEFINE m == v + 6
  <2>1. m \in 2 .. l + 5 /\ data + 2 * m - 1 = data + 11 + 2 * v
    <3>1. \A x, y, z \in Nat :
            y < z => y + 6 \in 2 .. z + 5 /\ x + 2 * (y + 6) - 1 = x + 11 + 2 * y
      OBVIOUS
    <3> QED
      BY <1>1, <1>4, <1>9, <3>1
  <2> HIDE DEF m
  <2>2. Chr(data + 11 + 2 * v) \in 0 .. 15
    BY <1>8, <2>1
  <2>3. ~LineEnds(v)
    BY <2>2, NoEnd DEF LineEnds
  <2> QED
    BY <2>3, Refusal
<1>10. CASE v > l + 1
  <2>1. l + 2 \in 1 .. v /\ data + 7 + 2 * (l + 2) = data + 2 * l + 11
    BY <1>1, <1>4, <1>10
  <2>2. ~LineGoesOn(v)
    BY <1>6, <1>8, <2>1 DEF LineGoesOn
  <2> QED
    BY <2>2, Refusal
<1>11. CASE v = l + 1 /\ r # Len(text)
  <2>1. /\ Chr(r) = IHEX_CHR_RECORDMARK /\ \A x \in 1 .. 10 : Chr(r + x) \in 0 .. 15
    BY <1>4, <1>11 DEF Followed
  <2>2. Chr(r + 1) \in 0 .. 15
    BY <2>1
  <2>3. data + 11 + 2 * v = r \/ data + 11 + 2 * v = r + 1
    BY <1>1, <1>11, SMTT(30)
  <2>4. Chr(data + 11 + 2 * v) \notin {LF, CR}
    BY <2>1, <2>2, <2>3, NoEnd
  <2>5. ~LineEnds(v)
    BY <2>4 DEF LineEnds
  <2> QED
    BY <2>5, Refusal
<1>12. CASE v = l + 1 /\ r = Len(text)
  <2> DEFINE y == FromHex8(data + 2 * l + 11)
             f == [b EXCEPT ![1] = v]
             s == Append(f, y)
  <2>1. y \in 0 .. 15
    <3>1. FromHex4(data + 2 * l + 11) = 0
      BY <1>6, <1>8, NoEnd DEF FromHex4
    <3>2. data + 2 * l + 12 \in Nat /\ data + 2 * l + 12 < Len(text) + 3
      BY <1>1
    <3>3. Chr(data + 2 * l + 12) \in 0 .. 20
      BY <3>2, ChrTyped, Codes
    <3>4. FromHex4(data + 2 * l + 12) \in 0 .. 15
      <4> DEFINE z == Chr(data + 2 * l + 12)
      <4>1. FromHex4(data + 2 * l + 12) = IF z < 16 THEN z ELSE 0
        BY DEF FromHex4
      <4> HIDE DEF z
      <4>2. z \in 0 .. 20
        BY <3>3 DEF z
      <4>3. \A x \in 0 .. 20 : (IF x < 16 THEN x ELSE 0) \in 0 .. 15
        OBVIOUS
      <4> QED
        BY <4>1, <4>2, <4>3
    <3>5. (data + 2 * l + 11) + 1 = data + 2 * l + 12
      BY <1>1
    <3>6. y = 16 * 0 + FromHex4(data + 2 * l + 12)
      BY <3>1, <3>5 DEF FromHex8
    <3>7. \A x \in 0 .. 15 : 16 * 0 + x = x
      OBVIOUS
    <3> QED
      BY <3>4, <3>6, <3>7
  <2>2. y \in HexByte /\ y \in Nat
    <3>1. \A x \in 0 .. 15 : x \in HexByte /\ x \in Nat
      BY DEF HexByte
    <3> HIDE DEF y
    <3> QED
      BY <2>1, <3>1
  <2> HIDE DEF y
  <2>3. 1 \in 1 .. l + 5
    BY <1>1
  <2>4. /\ f \in Seq(HexByte) /\ f \in Seq(Nat) /\ Len(f) = l + 5 /\ f[1] = v
        /\ \A m \in 1 .. l + 5 : m # 1 => f[m] = b[m]
    BY <1>4, <1>5, <2>3
  <2> HIDE DEF f
  <2>5. /\ s \in Seq(HexByte) /\ Len(s) = v + 5 /\ s[l + 6] = y
        /\ \A m \in 1 .. l + 5 : s[m] = f[m]
    <3>1. (l + 5) + 1 = v + 5 /\ (l + 5) + 1 = l + 6
      BY <1>1, <1>12
    <3>2. /\ Append(f, y) \in Seq(HexByte) /\ Len(Append(f, y)) = Len(f) + 1
          /\ Append(f, y)[Len(f) + 1] = y
          /\ \A m \in 1 .. Len(f) : Append(f, y)[m] = f[m]
      BY <2>2, <2>4, SMTT(30)
    <3> QED
      BY <2>4, <3>1, <3>2
  <2>6. Total(s) = Total(f) + y
    BY <2>2, <2>4, SumAppend
  <2> HIDE DEF s
  <2>7. HasBytes(v, s)
    <3>1. ASSUME NEW m \in 2 .. v + 5 PROVE FromHex8(data + 2 * m - 1) = s[m]
      <4>1. CASE m = l + 6
        <5>1. data + 2 * m - 1 = data + 2 * l + 11
          BY <1>1, <4>1
        <5> QED
          BY <2>5, <4>1, <5>1 DEF y
      <4>2. CASE m # l + 6
        <5>1. m \in 2 .. l + 5 /\ m \in 1 .. l + 5 /\ m # 1
          BY <1>1, <1>12, <4>2
        <5> QED
          BY <1>8, <2>4, <2>5, <5>1
      <4> QED
        BY <4>1, <4>2
    <3> QED
      BY <3>1 DEF HasBytes
  <2>8. s[1] = v
    BY <2>3, <2>4, <2>5
  <2>9. ihex_check_record(Record(v), FromHex8(data + 9 + 2 * v)) <=> Total(s) % 256 = 0
    BY <1>4, <2>5, <2>7, <2>8, RecordSum
  <2>10. Total(f) + l = Total(b) + (l + 1)
    <3>1. \A k \in 1 .. Len(b) : k # 1 => b[k] = f[k]
      BY <1>5, <2>4
    <3>2. b \in Seq(Nat) /\ f \in Seq(Nat) /\ Len(b) = Len(f) /\ 1 \in 1 .. Len(b)
      BY <1>5, <2>3, <2>4
    <3>3. Total(f) + b[1] = Total(b) + f[1]
      BY <3>1, <3>2, SumChanged
    <3> QED
      BY <1>5, <1>12, <2>4, <3>3
  <2>11. Total(s) % 256 # 0
    <3> DEFINE a == Total(f)
               z == Total(b)
    <3>1. a \in Nat /\ z \in Nat /\ l \in Nat /\ y \in 0 .. 15 /\ z % 256 = 0
          /\ a + l = z + (l + 1) /\ Total(s) = a + y
      BY <1>1, <1>5, <2>1, <2>4, <2>6, <2>10, SumType
    <3> HIDE DEF a, z
    <3>2. (a + y) % 256 # 0
      BY <3>1, LongerSum
    <3> QED
      BY <3>1, <3>2
  <2> QED
    BY <2>9, <2>11, Refusal
<1>13. v < l \/ v > l + 1 \/ v = l + 1
  BY <1>1, <1>4, SMTT(30)
<1> QED
  BY <1>9, <1>10, <1>11, <1>12, <1>13

\* A line that has no wrong character follows what is before it.
LEMMA NextLine ==
  ASSUME NEW q \in Nat, NEW d \in Nat, d <= q, NEW rec, NEW e, Finds(q, rec, e, d)
  PROVE  Followed(q)
<1> DEFINE l == Len(rec.data)
           b == LineBytes(rec)
           c == Len(e)
           r == LineEnd(q, l, e)
<1>1. /\ l \in Nat /\ c \in 1 .. 2 /\ r \in Nat
      /\ r = q + 2 * l + 11 + c /\ r <= Len(text) /\ Len(text) \in Nat
  BY DEF Finds
<1>2. \A m \in 1 .. l + 5 :
        /\ d # q + 2 * m => Chr(q + 2 * m - 1) = b[m] \div 16
        /\ d # q + 2 * m + 1 => Chr(q + 2 * m) = b[m] % 16
        /\ b[m] \div 16 \in 0 .. 15 /\ b[m] % 16 \in 0 .. 15
  BY DEF Finds
<1>3. Chr(q) = IHEX_CHR_RECORDMARK
  <2>1. d # q + 1
    OBVIOUS
  <2> QED
    BY <2>1 DEF Finds
<1> HIDE DEF l, b, c, r
<1>4. q + 10 < Len(text)
  BY <1>1
<1>5. ASSUME NEW x \in 1 .. 10 PROVE Chr(q + x) \in 0 .. 15
  <2>1. \E m \in 1 .. 5 : x = 2 * m - 1 \/ x = 2 * m
    OBVIOUS
  <2>2. PICK m \in 1 .. 5 : x = 2 * m - 1 \/ x = 2 * m
    BY <2>1
  <2>3. /\ m \in 1 .. l + 5 /\ d # q + 2 * m /\ d # q + 2 * m + 1
        /\ q + (2 * m - 1) = q + 2 * m - 1 /\ q + (2 * m) = q + 2 * m
    BY <1>1
  <2> QED
    BY <1>2, <2>2, <2>3
<1> QED
  BY <1>3, <1>4, <1>5 DEF Followed

\* What a line with a wrong character, behind its mark, is taken for: it is refused,
\* or it is the record that it was written for, and the search for the next one stops
\* at the next line or at its own last digit.
TakenFor(rec, r, d) ==
  LET l == FromHex8(data + 1)
      s == SkipToMark(data + 2 * l + 10)
  IN  /\ MoreText /\ ~Truncated
      /\ \/ data + 9 + 2 * l >= Len(text)
         \/ ParseError(l) # "none"
         \/ /\ Record(l) = rec
            /\ \/ s = r
               \/ /\ s = d - 1 /\ d = data + 2 * Len(rec.data) + 11
                  /\ Chr(s) \in {IHEX_CHR_RECORDMARK, NUL}

\* One case for each place of the line that the wrong character can stand at.
LEMMA LineDamaged ==
  ASSUME TextTyped, NEW t, NEW d, OneOff(t, d),
         NEW rec \in Writable, NEW e \in {<<LF>>, <<CR, LF>>}, data \in Nat,
         LineHolds(t, data, rec, e), LineEnd(data, Len(rec.data), e) <= Len(text),
         d \in data + 2 .. LineEnd(data, Len(rec.data), e),
         Followed(LineEnd(data, Len(rec.data), e))
  PROVE  TakenFor(rec, LineEnd(data, Len(rec.data), e), d)
<1> DEFINE l == Len(rec.data)
           b == LineBytes(rec)
           c == Len(e)
           r == LineEnd(data, l, e)
           y == FromHex8(data + 1)
           s == data + 2 * l + 10
<1>1. text \in Seq(Chars)
  BY DEF TextTyped
<1>2. Finds(data, rec, e, d)
  BY <1>1, LineRead
<1>3. /\ l \in Nat /\ c \in 1 .. 2 /\ r \in Nat
      /\ r = data + 2 * l + 11 + c /\ r <= Len(text) /\ Len(text) \in Nat
  BY <1>2 DEF Finds
<1>4. d # data + 1 => Chr(data) = IHEX_CHR_RECORDMARK
  BY <1>2 DEF Finds
<1>5. \A m \in 1 .. l + 5 :
        d # data + 2 * m /\ d # data + 2 * m + 1 => FromHex8(data + 2 * m - 1) = b[m]
  BY <1>2 DEF Finds
<1>6. \A x \in data + 1 .. r - 1 : d # x + 1 => Chr(x) \notin {IHEX_CHR_RECORDMARK, NUL}
  BY <1>2 DEF Finds
<1>7. /\ d # data + 2 * l + 12 => Chr(data + 2 * l + 11) = e[1]
      /\ c = 1 => e[1] = LF
      /\ c = 2 => e[1] = CR
  BY <1>2, EolType DEF Finds
<1>8. d \in data + 2 .. r /\ Followed(r)
  OBVIOUS
<1>9. b[1] = l
  BY LineBytesAre
<1>10. ASSUME \A m \in 1 .. l + 5 : FromHex8(data + 2 * m - 1) = b[m]
       PROVE  y = l /\ Record(l) = rec
  BY <1>10, BytesRead
<1>11. ASSUME NEW m \in 2 .. l + 5, d \in {data + 2 * m, data + 2 * m + 1},
              FromHex8(data + 2 * m - 1) # b[m]
       PROVE  ~ihex_check_record(Record(l), FromHex8(data + 9 + 2 * l))
  BY <1>2, <1>11, ByteWrong
<1>12. ASSUME d \in {data + 2, data + 3}, y # l, data + 9 + 2 * y < Len(text)
       PROVE  ParseError(y) # "none"
  <2>1. y \in HexByte
    <3>1. data + 1 \in Nat /\ (data + 1) + 1 < Len(text) + 3
      <4> HIDE DEF l, c, r
      <4> QED
        BY <1>3
    <3> QED
      BY <3>1, Hex8Typed
  <2> HIDE DEF y
  <2>2. y = FromHex8(data + 1)
    BY DEF y
  <2> QED
    BY <1>2, <1>8, <1>12, <2>1, <2>2, LengthWrong
<1> HIDE DEF l, b, c, r, y
<1>13. /\ Chr(data) = IHEX_CHR_RECORDMARK /\ data < Len(text)
       /\ ~(data + 3 >= Len(text))
  BY <1>3, <1>4, <1>8
<1>14. MoreText /\ ~Truncated
  BY <1>13, NoEnd DEF MoreText, Truncated
<1>15. CASE \A m \in 1 .. l + 5 : FromHex8(data + 2 * m - 1) = b[m]
  <2>1. y = l /\ Record(l) = rec
    BY <1>10, <1>15
  <2>2. /\ s \in Nat /\ s <= r /\ s + 1 = data + 2 * l + 11 /\ s <= Len(text)
        /\ data + 11 + 2 * l = s + 1 /\ data + 12 + 2 * l = s + 2
        /\ data + 2 * l + 11 = s + 1 /\ data + 2 * l + 12 = s + 2
        /\ r = s + 1 + c
        /\ \A x \in s .. r - 1 : x \in data + 1 .. r - 1 /\ x \in Nat
    BY <1>3
  <2> HIDE DEF s
  <2>3. CASE ParseError(l) # "none"
    BY <1>14, <2>1, <2>3 DEF TakenFor, y
  <2>4. CASE d = s + 1 /\ Chr(s) \in {IHEX_CHR_RECORDMARK, NUL}
    <3>1. \A x \in s .. s - 1 : Chr(x) \notin {IHEX_CHR_RECORDMARK, NUL}
      BY <2>2
    <3>2. SkipToMark(s) = s
      BY <1>1, <2>2, <2>4, <3>1, SkipsTo
    <3>3. s = d - 1 /\ d = data + 2 * l + 11
      BY <2>2, <2>4
    <3> QED
      BY <1>14, <2>1, <2>4, <3>2, <3>3 DEF TakenFor, y, l, s
  <2>5. CASE ParseError(l) = "none" /\ ~(d = s + 1 /\ Chr(s) \in {IHEX_CHR_RECORDMARK, NUL})
    <3>1. LineEnds(l)
      BY <2>5, Refusal
    <3>2. Chr(s + 1) = LF \/ (Chr(s + 1) = CR /\ Chr(s + 2) = LF)
      BY <2>2, <3>1 DEF LineEnds
    <3>3. ASSUME NEW x \in s .. r - 1 PROVE Chr(x) \notin {IHEX_CHR_RECORDMARK, NUL}
      <4>1. CASE d # x + 1
        BY <1>6, <2>2, <4>1
      <4>2. CASE x = s
        BY <2>5, <4>1, <4>2
      <4>3. CASE x = s + 1
        BY <3>2, <4>3, NoEnd
      <4>4. CASE x = s + 2 /\ d = x + 1
        <5>1. c = 2 /\ d # data + 2 * l + 12
          BY <1>3, <2>2, <4>4
        <5>2. Chr(s + 1) = CR
          BY <1>7, <2>2, <5>1
        <5> QED
          BY <3>2, <4>4, <5>2, NoEnd
      <4>5. x = s \/ x = s + 1 \/ x = s + 2
        BY <1>3, <2>2
      <4> QED
        BY <4>1, <4>2, <4>3, <4>4, <4>5
    <3>4. r = Len(text) \/ Chr(r) \in {IHEX_CHR_RECORDMARK, NUL}
      BY <1>8 DEF Followed
    <3>5. SkipToMark(s) = r
      BY <1>1, <1>3, <2>2, <3>3, <3>4, SkipsTo
    <3> QED
      BY <1>14, <2>1, <3>5 DEF TakenFor, y, l, r, s
  <2> QED
    BY <2>3, <2>4, <2>5
<1>16. ASSUME NEW m \in 1 .. l + 5, FromHex8(data + 2 * m - 1) # b[m]
       PROVE  TakenFor(rec, r, d)
  <2>1. d \in {data + 2 * m, data + 2 * m + 1}
    BY <1>5, <1>16
  <2>2. CASE m = 1
    <3>1. d \in {data + 2, data + 3} /\ y # l
      <4>1. data + 2 * 1 = data + 2 /\ data + 2 * 1 + 1 = data + 3 /\ data + 2 * 1 - 1 = data + 1
        OBVIOUS
      <4> QED
        BY <1>9, <1>16, <2>1, <2>2, <4>1 DEF y
    <3>2. data + 9 + 2 * y >= Len(text) \/ ParseError(y) # "none"
      <4>1. y \in HexByte
        <5>1. data + 1 \in Nat /\ (data + 1) + 1 < Len(text) + 3
          BY <1>3
        <5> QED
          BY <5>1, Hex8Typed DEF y
      <4>2. data + 9 + 2 * y \in Nat
        BY <4>1, ByteNat
      <4>3. data + 9 + 2 * y >= Len(text) \/ data + 9 + 2 * y < Len(text)
        BY <1>3, <4>2
      <4> QED
        BY <1>12, <3>1, <4>3
    <3> QED
      BY <1>14, <3>2 DEF TakenFor, y
  <2>3. CASE m # 1
    <3>1. m \in 2 .. l + 5
      BY <1>3, <2>3
    <3>2. ~ihex_check_record(Record(l), FromHex8(data + 9 + 2 * l))
      BY <1>11, <1>16, <2>1, <3>1
    <3>3. 1 \in 1 .. l + 5 /\ d # data + 2 * 1 /\ d # data + 2 * 1 + 1 /\ data + 2 * 1 - 1 = data + 1
      BY <1>3, <2>1, <3>1
    <3>4. y = l
      BY <1>5, <1>9, <3>3 DEF y
    <3>5. ParseError(l) # "none"
      BY <3>2, Refusal
    <3> QED
      BY <1>14, <3>4, <3>5 DEF TakenFor, y
  <2> QED
    BY <2>2, <2>3
<1> QED
  BY <1>15, <1>16 DEF l, r

\* A line that ends in a stray mark is not followed by a record there.
LEMMA StrayMark ==
  ASSUME text \in Seq(Chars), data \in Nat, NEW e \in {<<LF>>, <<CR, LF>>}, NEW r \in Nat,
         r = data + 1 + Len(e), Followed(r),
         Chr(data) = IHEX_CHR_RECORDMARK, Chr(data + 1) = e[1],
         Len(e) = 2 => Chr(data + 2) = e[2]
  PROVE  /\ r = Len(text) => Truncated
         /\ r # Len(text) => FromHex8(data + 1) = 0 /\ ParseError(0) # "none"
<1> DEFINE c == Len(e)
<1>1. /\ c \in 1 .. 2 /\ r = data + 1 + c /\ Len(text) \in Nat
      /\ c = 1 => Chr(data + 1) = LF
      /\ c = 2 => Chr(data + 1) = CR /\ Chr(data + 2) = LF
  BY EolType
<1> HIDE DEF c
<1>2. ASSUME r = Len(text) PROVE Truncated
  <2>1. data + 3 >= Len(text)
    BY <1>1, <1>2
  <2> QED
    BY <2>1 DEF Truncated
<1>3. ASSUME r # Len(text) PROVE FromHex8(data + 1) = 0 /\ ParseError(0) # "none"
  <2>1. Chr(r) = IHEX_CHR_RECORDMARK /\ \A x \in 1 .. 10 : Chr(r + x) \in 0 .. 15
    BY <1>3 DEF Followed
  <2>2. /\ c = 1 => r = data + 2 /\ data + 11 + 2 * 0 = r + 9
        /\ c = 2 => data + 11 + 2 * 0 = r + 8
        /\ (data + 1) + 1 = data + 2
    BY <1>1
  <2>3. c = 1 \/ c = 2
    BY <1>1
  <2>4. FromHex4(data + 1) = 0
    BY <1>1, <2>3, NoEnd DEF FromHex4
  <2>5. FromHex4(data + 2) = 0
    BY <1>1, <2>1, <2>2, <2>3, NoEnd DEF FromHex4
  <2>6. FromHex8(data + 1) = 0
    BY <2>2, <2>4, <2>5 DEF FromHex8
  <2>7. Chr(data + 11 + 2 * 0) \in 0 .. 15
    <3>1. Chr(r + 8) \in 0 .. 15 /\ Chr(r + 9) \in 0 .. 15
      BY <2>1
    <3> QED
      BY <2>2, <2>3, <3>1
  <2>8. ~LineEnds(0)
    <3>1. Chr(data + 11 + 2 * 0) \notin {LF, CR}
      BY <2>7, NoEnd
    <3> QED
      BY <3>1 DEF LineEnds
  <2> QED
    BY <2>6, <2>8, Refusal
<1> QED
  BY <1>2, <1>3

\* Behind the line with the wrong character, or behind one before it, the text ends or
\* goes on with a line as it was written.
LEMMA FollowedBy ==
  ASSUME text \in Seq(Chars), source \in Seq(Writable),
         NEW t, NEW p, NEW e, NEW d, Spoilt(t, p, e, d),
         NEW k \in 1 .. Len(source), d <= p[k]
  PROVE  Followed(p[k])
<1>1. /\ Layout(t, p, e) /\ OneOff(t, d) /\ t \in Seq(Chars) /\ Len(t) = Len(text)
      /\ d \in Nat
  BY DEF Spoilt, OneOff
<1>2. p[k] \in Nat /\ (k = Len(source) => p[k] = Len(t))
  BY <1>1, LayoutLine
<1>3. CASE k = Len(source)
  BY <1>1, <1>2, <1>3 DEF Followed
<1>4. CASE k # Len(source)
  <2>1. k + 1 \in 1 .. Len(source) /\ (k + 1) - 1 = k
    BY <1>1, <1>4, LayoutLine
  <2> DEFINE a == k + 1
             rec == source[a]
  <2>2. a \in 1 .. Len(source) /\ a - 1 = k
    BY <2>1
  <2> HIDE DEF a
  <2>3. /\ rec \in Writable /\ e \in {<<LF>>, <<CR, LF>>} /\ LineHolds(t, p[k], rec, e)
        /\ p[a] = LineEnd(p[k], Len(rec.data), e) /\ p[a] <= Len(t)
    BY <1>1, <2>2, LayoutLine
  <2> HIDE DEF rec
  <2>4. Finds(p[k], rec, e, d)
    BY <1>1, <1>2, <2>3, LineRead
  <2> QED
    BY <1>1, <1>2, <2>4, NextLine
<1> QED
  BY <1>3, <1>4

\* Where the parser is in a text with one wrong character, if no mark is missed: at
\* the start of a line, or at the last digit of the line before it, with the records
\* of the lines so far read.  Elements behind these stay as calloc left them.
Stray(p, d) ==
  /\ i # 0 /\ data = d - 1 /\ d = p[i - 1] + 2 * Len(source[i].data) + 11
  /\ Chr(data) \in {IHEX_CHR_RECORDMARK, NUL}

AtSpot(p, d) ==
  /\ pc \in {"parse", "finish", "accepted"} =>
       \A k \in Len(source) + 1 .. Len(records) : records[k].type = IHEX_DATA
  /\ pc = "parse" => /\ i \in 0 .. Len(source)
                     /\ \A k \in 1 .. i : records[k] = source[k]
                     /\ data = p[i] \/ Stray(p, d)
  /\ pc \in {"finish", "accepted"} => \A k \in 1 .. Len(source) : records[k] = source[k]

SpoiltInv ==
  /\ source \in Seq(Writable)
  /\ Damaged /\ Cardinality(Marks) >= Len(source) =>
       \E t, p, e, d : Spoilt(t, p, e, d) /\ AtSpot(p, d)

\* At the start of a line, whether the wrong character is in it or in another one.
LEMMA SpotLine ==
  ASSUME TextTyped, source \in Seq(Writable), NEW t, NEW p, NEW e, NEW d,
         Spoilt(t, p, e, d), Cardinality(Marks) >= Len(source),
         i \in 0 .. Len(source), i # Len(source), data = p[i]
  PROVE  i + 1 \in 1 .. Len(source) /\ TakenFor(source[i + 1], p[i + 1], d)
<1>1. text \in Seq(Chars)
  BY DEF TextTyped
<1>2. /\ Layout(t, p, e) /\ OneOff(t, d) /\ t \in Seq(Chars) /\ Len(t) = Len(text)
      /\ d \in 1 .. Len(text) /\ Len(text) \in Nat
  BY <1>1 DEF Spoilt, OneOff
<1>3. i + 1 \in 1 .. Len(source) /\ (i + 1) - 1 = i
  <2>1. Len(source) \in Nat
    OBVIOUS
  <2> QED
    BY <2>1
<1> DEFINE k == i + 1
           rec == source[k]
           l == Len(rec.data)
           r == LineEnd(data, l, e)
<1>4. k \in 1 .. Len(source) /\ k - 1 = i
  BY <1>3
<1> HIDE DEF k
<1>5. /\ data \in Nat /\ rec \in Writable /\ e \in {<<LF>>, <<CR, LF>>}
      /\ LineHolds(t, data, rec, e) /\ p[k] = r /\ r <= Len(text)
      /\ data + 1 <= r /\ r \in Nat
  BY <1>2, <1>4, LayoutLine
<1>6. /\ k = Len(source) => r = Len(text)
      /\ k # Len(source) => /\ k + 1 \in 1 .. Len(source) /\ (k + 1) - 1 = k
                            /\ r < Len(text) /\ t[r + 1] = IHEX_CHR_RECORDMARK
  BY <1>2, <1>4, <1>5, LayoutLine, SMTT(30)
<1>7. /\ data + 1 \in LineMarks(p)
      /\ k # Len(source) => r + 1 \in LineMarks(p)
  BY <1>4, <1>5, <1>6 DEF LineMarks
<1>8. d \notin LineMarks(p)
  BY <1>1, NoMarkHit
<1> HIDE DEF rec, l, r
<1>9. CASE d \in data + 1 .. r
  <2>1. d \in data + 2 .. r /\ d <= r
    BY <1>2, <1>5, <1>7, <1>8, <1>9
  <2>2. Followed(p[k])
    BY <1>1, <1>4, <1>5, <2>1, FollowedBy
  <2>3. TakenFor(rec, LineEnd(data, Len(rec.data), e), d)
    <3>1. /\ LineEnd(data, Len(rec.data), e) <= Len(text)
          /\ d \in data + 2 .. LineEnd(data, Len(rec.data), e)
          /\ Followed(LineEnd(data, Len(rec.data), e))
      BY <1>5, <2>1, <2>2 DEF r, l
    <3> QED
      BY <1>2, <1>5, <3>1, LineDamaged
  <2> QED
    BY <1>3, <1>5, <2>3 DEF k, rec, r, l
<1>10. CASE d \notin data + 1 .. r
  <2>1. r = Len(text) \/ Chr(r) = IHEX_CHR_RECORDMARK
    <3>1. CASE k = Len(source)
      BY <1>6, <3>1
    <3>2. CASE k # Len(source)
      <4>1. d # r + 1 /\ r + 1 \in 1 .. Len(text) /\ r < Len(text)
        BY <1>2, <1>5, <1>6, <1>7, <1>8, <3>2
      <4>2. text[r + 1] = t[r + 1]
        BY <1>2, <4>1 DEF OneOff
      <4> QED
        BY <1>6, <3>2, <4>1, <4>2 DEF Chr
    <3> QED
      BY <3>1, <3>2
  <2>2. /\ LineEnd(data, Len(rec.data), e) <= Len(text)
        /\ d \notin data + 1 .. LineEnd(data, Len(rec.data), e)
        /\ \/ LineEnd(data, Len(rec.data), e) = Len(text)
           \/ Chr(LineEnd(data, Len(rec.data), e)) = IHEX_CHR_RECORDMARK
    BY <1>5, <1>10, <2>1 DEF r, l
  <2>3. /\ MoreText /\ ~Truncated
        /\ FromHex8(data + 1) = l
        /\ Record(l) = rec
        /\ SkipToMark(data + 2 * l + 10) = r
    <3>1. rec \in Writable /\ e \in {<<LF>>, <<CR, LF>>} /\ LineHolds(t, data, rec, e)
      BY <1>5
    <3>2. text \in Seq(Chars) /\ OneOff(t, d) /\ data \in Nat
      BY <1>1, <1>2, <1>5
    <3>3. ReadAs(rec, LineEnd(data, Len(rec.data), e))
      BY <2>2, <3>1, <3>2, LineParsed
    <3> QED
      BY <3>3 DEF ReadAs, l, r
  <2>4. TakenFor(rec, r, d)
    BY <2>3 DEF TakenFor
  <2> QED
    BY <1>3, <1>5, <2>4 DEF k, rec
<1> QED
  BY <1>9, <1>10

\* At a stray mark the text is refused, or ends where it should.
LEMMA SpotStray ==
  ASSUME TextTyped, source \in Seq(Writable), NEW t, NEW p, NEW e, NEW d,
         Spoilt(t, p, e, d), Cardinality(Marks) >= Len(source),
         i \in 0 .. Len(source), Stray(p, d)
  PROVE  /\ MoreText /\ ~Truncated => ParseError(FromHex8(data + 1)) # "none"
         /\ ~MoreText \/ Truncated => i = Len(source)
<1>1. text \in Seq(Chars)
  BY DEF TextTyped
<1>2. /\ Layout(t, p, e) /\ OneOff(t, d) /\ t \in Seq(Chars) /\ Len(t) = Len(text)
      /\ d \in 1 .. Len(text) /\ Len(text) \in Nat
  BY <1>1 DEF Spoilt, OneOff
<1>3. i \in 1 .. Len(source) /\ i # 0
  <2>1. Len(source) \in Nat
    OBVIOUS
  <2> QED
    BY <2>1 DEF Stray
<1> DEFINE rec == source[i]
           l == Len(rec.data)
           q == p[i - 1]
           r == LineEnd(q, l, e)
           c == Len(e)
<1>4. /\ q \in Nat /\ rec \in Writable /\ e \in {<<LF>>, <<CR, LF>>}
      /\ LineHolds(t, q, rec, e) /\ p[i] = r /\ r <= Len(text) /\ r \in Nat
      /\ i # Len(source) => /\ i + 1 \in 1 .. Len(source) /\ (i + 1) - 1 = i
                            /\ r < Len(text)
  BY <1>2, <1>3, LayoutLine
<1>5. /\ data = d - 1 /\ d = q + 2 * l + 11 /\ Chr(data) \in {IHEX_CHR_RECORDMARK, NUL}
  BY DEF Stray
<1>6. Finds(q, rec, e, d)
  <2>1. LineEnd(q, Len(rec.data), e) <= Len(text)
    BY <1>4
  <2> HIDE DEF rec, q
  <2> QED
    BY <1>1, <1>2, <1>4, <2>1, LineRead
<1>7. /\ l \in Nat /\ c \in 1 .. 2 /\ r = q + 2 * l + 11 + c
      /\ d # q + 2 * l + 12 => Chr(q + 2 * l + 11) = e[1]
      /\ c = 2 /\ d # q + 2 * l + 13 => Chr(q + 2 * l + 12) = e[2]
  BY <1>6 DEF Finds
<1> HIDE DEF rec, l, q, r, c
<1>8. /\ data \in Nat /\ d <= r /\ r = data + 1 + c /\ data < Len(text) /\ data + 1 = d
      /\ d # q + 2 * l + 12 /\ d # q + 2 * l + 13
      /\ q + 2 * l + 11 = data + 1 /\ q + 2 * l + 12 = data + 2
  BY <1>2, <1>4, <1>5, <1>7
<1>9. Chr(data + 1) = e[1] /\ (c = 2 => Chr(data + 2) = e[2])
  BY <1>7, <1>8
<1>10. Followed(r)
  BY <1>1, <1>3, <1>4, <1>8, FollowedBy
<1>11. CASE Chr(data) = IHEX_CHR_RECORDMARK
  <2>1. /\ r = Len(text) => Truncated
        /\ r # Len(text) => FromHex8(data + 1) = 0 /\ ParseError(0) # "none"
    <3>1. r = data + 1 + Len(e) /\ (Len(e) = 2 => Chr(data + 2) = e[2])
      BY <1>8, <1>9 DEF c
    <3> QED
      BY <1>1, <1>4, <1>8, <1>9, <1>10, <1>11, <3>1, StrayMark
  <2>2. MoreText
    BY <1>8, <1>11, NoEnd DEF MoreText
  <2>3. r # Len(text) => ~Truncated
    <3> SUFFICES ASSUME r # Len(text) PROVE ~Truncated
      OBVIOUS
    <3>1. r + 10 < Len(text)
      BY <1>10 DEF Followed
    <3>2. ~(data + 3 >= Len(text))
      BY <1>2, <1>4, <1>8, <3>1, SMTT(30)
    <3> QED
      BY <3>2 DEF Truncated
  <2>4. r = Len(text) => i = Len(source)
    BY <1>2, <1>4
  <2> QED
    BY <2>1, <2>2, <2>3, <2>4
<1>12. CASE Chr(data) = NUL
  <2>1. ~MoreText
    BY <1>12 DEF MoreText
  <2>2. text[d] = NUL
    BY <1>8, <1>12 DEF Chr
  <2>3. \A y \in LineMarks(p) : y < d
    BY <1>1, <2>2, NoMarkHit
  <2>4. i = Len(source)
    <3> SUFFICES ASSUME i # Len(source) PROVE FALSE
      OBVIOUS
    <3>1. i + 1 \in 1 .. Len(source) /\ (i + 1) - 1 = i
      BY <1>4
    <3>2. p[i] + 1 \in LineMarks(p)
      BY <3>1 DEF LineMarks
    <3>3. r + 1 < d
      BY <1>4, <2>3, <3>2
    <3> QED
      BY <1>2, <1>4, <1>8, <3>3
  <2> QED
    BY <2>1, <2>4
<1> QED
  BY <1>5, <1>11, <1>12

LEMMA SameSpot ==
  ASSUME UNCHANGED <<source, text>>
  PROVE  /\ Damaged' = Damaged /\ Marks' = Marks
         /\ \A t, p, e, d : Spoilt(t, p, e, d)' = Spoilt(t, p, e, d)
<1>1. Damaged' = Damaged /\ Marks' = Marks
  BY DEF Damaged, Marks
<1> QED
  BY <1>1, SameLayout DEF Spoilt, OneOff

LEMMA SpotInit == ASSUME ParserInit, Walk PROVE SpoiltInv
<1>1. source \in Seq(Writable)
  BY ReadInit DEF ReadInv
<1>2. text \in Seq(Chars)
  BY DEF Walk, TextTyped
<1>3. \A p, d : AtSpot(p, d)
  BY DEF ParserInit, AtSpot
<1>4. ASSUME Damaged PROVE \E t, p, e, d : Spoilt(t, p, e, d)
  BY <1>1, <1>2, <1>4, DamagedSpoilt
<1> QED
  BY <1>1, <1>3, <1>4 DEF SpoiltInv

LEMMA SpotStep ==
  ASSUME Walk, SpoiltInv, [EepromNext]_allVars
  PROVE  SpoiltInv'
<1>1. UNCHANGED parser \/ CountMarks \/ ParseRecord \/ EndOfText \/ CheckLast
  BY ParserSteps DEF Parse
<1>2. source' = source /\ text' = text
  BY <1>1 DEF parser, CountMarks, ParseRecord, EndOfText, CheckLast
<1>3. source \in Seq(Writable) /\ source' \in Seq(Writable) /\ Len(source) \in Nat
  BY <1>2 DEF SpoiltInv
<1>4. SUFFICES ASSUME Damaged, Cardinality(Marks) >= Len(source)
               PROVE  \E t, p, e, d : Spoilt(t, p, e, d)' /\ AtSpot(p, d)'
  <2>1. Damaged' = Damaged /\ Marks' = Marks
    BY <1>2, SameSpot
  <2>2. Cardinality(Marks') = Cardinality(Marks)
    BY <2>1
  <2> QED
    BY <1>2, <1>3, <2>1, <2>2 DEF SpoiltInv
<1>5. PICK t, p, e, d : Spoilt(t, p, e, d) /\ AtSpot(p, d)
  BY <1>4 DEF SpoiltInv
<1>6. Spoilt(t, p, e, d)'
  BY <1>2, <1>5, SameSpot
<1>7. TextTyped /\ records \in Seq(HexRecord) /\ Len(text) \in Nat
  BY DEF Walk, TextTyped, ParserTypeOK
<1>8. pc # "count" => DOMAIN records = 1 .. Len(records) /\ Len(records) \in Nat
                      /\ Len(records) >= Len(source)
  BY <1>4, <1>7 DEF Walk
<1>9. CASE UNCHANGED parser
  BY <1>5, <1>6, <1>9 DEF parser, AtSpot, Stray, Chr
<1>10. CASE CountMarks
  <2>1. /\ pc' = "parse" /\ i' = 0 /\ data' = 0
        /\ records' = [k \in 1 .. Cardinality(Marks) |-> Calloc]
    BY <1>10 DEF CountMarks, Walk
  <2>2. Cardinality(Marks) \in Nat
    BY <1>7, MarksFinite
  <2>3. \A k \in Len(source) + 1 .. Len(records') : records'[k].type = IHEX_DATA
    <3>1. Len(records') = Cardinality(Marks)
      BY <2>1, <2>2
    <3>2. \A k \in Len(source) + 1 .. Cardinality(Marks) : k \in 1 .. Cardinality(Marks)
      BY <1>3, <2>2
    <3> QED
      BY <2>1, <3>1, <3>2 DEF Calloc
  <2>4. p[0] = 0 /\ 0 \in 0 .. Len(source) /\ 1 .. 0 = {}
    BY <1>3, <1>5 DEF Spoilt, Layout
  <2>5. AtSpot(p, d)'
    BY <1>2, <2>1, <2>3, <2>4 DEF AtSpot
  <2> QED
    BY <1>6, <2>5
<1>11. CASE ParseRecord
  <2> DEFINE l == FromHex8(data + 1)
  <2>1. /\ pc = "parse" /\ MoreText /\ ~Truncated /\ i' = i + 1
    BY <1>11 DEF ParseRecord
  <2>2. /\ i \in 0 .. Len(source) /\ \A k \in 1 .. i : records[k] = source[k]
        /\ data = p[i] \/ Stray(p, d)
        /\ \A k \in Len(source) + 1 .. Len(records) : records[k].type = IHEX_DATA
    BY <1>5, <2>1 DEF AtSpot
  <2>3. CASE data + 9 + 2 * l >= Len(text) \/ ParseError(l) # "none"
    <3>1. pc' = "refused"
      BY <1>7, <1>11, <2>1, <2>3, InParse, RecordEndType DEF ParseRecord
    <3>2. AtSpot(p, d)'
      BY <3>1 DEF AtSpot
    <3> QED
      BY <1>6, <3>2
  <2>4. CASE ~(data + 9 + 2 * l >= Len(text)) /\ ParseError(l) = "none"
    <3>1. ~Stray(p, d)
      BY <1>3, <1>4, <1>5, <1>7, <2>1, <2>2, <2>4, SpotStray
    <3>2. data = p[i]
      BY <2>2, <3>1
    <3>3. i # Len(source)
      <4> SUFFICES ASSUME i = Len(source) PROVE FALSE
        OBVIOUS
      <4>1. data = Len(text)
        BY <1>5, <3>2 DEF Spoilt, Layout, OneOff
      <4> QED
        BY <1>7, <2>1, <4>1 DEF MoreText
    <3>4. i + 1 \in 1 .. Len(source) /\ TakenFor(source[i + 1], p[i + 1], d)
      BY <1>3, <1>4, <1>5, <1>7, <2>2, <3>2, <3>3, SpotLine
    <3> DEFINE s == SkipToMark(data + 2 * l + 10)
    <3>5. /\ Record(l) = source[i + 1]
          /\ \/ s = p[i + 1]
             \/ /\ s = d - 1 /\ d = data + 2 * Len(source[i + 1].data) + 11
                /\ Chr(s) \in {IHEX_CHR_RECORDMARK, NUL}
      BY <2>4, <3>4 DEF TakenFor
    <3>6. /\ records' = [k \in DOMAIN records |-> IF k = i' THEN Record(l) ELSE records[k]]
          /\ data' = s /\ pc' = "parse"
      BY <1>7, <1>11, <2>1, <2>4, InParse, RecordEndType, Taken
    <3> HIDE DEF l, s
    <3>7. /\ DOMAIN records = 1 .. Len(records) /\ Len(records) \in Nat
          /\ Len(records) >= Len(source)
      BY <1>8, <2>1
    <3>8. Len(records') = Len(records) /\ DOMAIN records' = DOMAIN records
      BY <3>6, <3>7
    <3>9. ASSUME NEW k \in 1 .. i' PROVE records'[k] = source[k]
      <4>1. k \in 1 .. i + 1 /\ k \in DOMAIN records /\ (k = i + 1 \/ k \in 1 .. i)
        BY <1>3, <2>1, <2>2, <3>4, <3>7
      <4>2. records'[k] = IF k = i + 1 THEN source[i + 1] ELSE records[k]
        BY <2>1, <3>5, <3>6, <4>1
      <4> QED
        BY <2>2, <4>1, <4>2
    <3>10. ASSUME NEW k \in Len(source) + 1 .. Len(records') PROVE records'[k].type = IHEX_DATA
      <4>1. k \in Len(source) + 1 .. Len(records) /\ k \in DOMAIN records /\ k # i + 1
        BY <1>3, <3>4, <3>7, <3>8
      <4>2. records'[k] = records[k]
        BY <2>1, <3>6, <4>1
      <4> QED
        BY <2>2, <4>1, <4>2
    <3>11. data' = p[i'] \/ Stray(p, d)'
      <4>1. CASE s = p[i + 1]
        BY <2>1, <3>6, <4>1
      <4>2. CASE /\ s = d - 1 /\ d = data + 2 * Len(source[i + 1].data) + 11
                 /\ Chr(s) \in {IHEX_CHR_RECORDMARK, NUL}
        <5>1. i' # 0 /\ i' - 1 = i
          BY <2>1, <2>2
        <5>2. Chr(data') = Chr(s)
          BY <3>6
        <5>3. d = p[i' - 1] + 2 * Len(source[i'].data) + 11
          BY <2>1, <3>2, <4>2, <5>1
        <5>4. \A x : Chr(x)' = Chr(x)
          BY <1>2, <1>11 DEF Chr, ParseRecord
        <5> QED
          BY <1>2, <3>6, <4>2, <5>1, <5>2, <5>3, <5>4 DEF Stray
      <4> QED
        BY <3>5, <4>1, <4>2
    <3>12. i' \in 0 .. Len(source)
      BY <1>3, <2>1, <3>4
    <3>13. AtSpot(p, d)'
      BY <1>2, <3>6, <3>9, <3>10, <3>11, <3>12 DEF AtSpot
    <3> QED
      BY <1>6, <3>13
  <2> QED
    BY <2>3, <2>4
<1>12. CASE EndOfText
  <2>1. pc = "parse" /\ (~MoreText \/ Truncated) /\ pc' = "finish" /\ records' = records
    BY <1>12 DEF EndOfText
  <2>2. /\ i \in 0 .. Len(source) /\ \A k \in 1 .. i : records[k] = source[k]
        /\ data = p[i] \/ Stray(p, d)
        /\ \A k \in Len(source) + 1 .. Len(records) : records[k].type = IHEX_DATA
    BY <1>5, <2>1 DEF AtSpot
  <2>3. i = Len(source)
    <3>1. CASE Stray(p, d)
      BY <1>3, <1>4, <1>5, <1>7, <2>1, <2>2, <3>1, SpotStray
    <3>2. CASE data = p[i]
      <4> SUFFICES ASSUME i # Len(source) PROVE FALSE
        OBVIOUS
      <4>1. TakenFor(source[i + 1], p[i + 1], d)
        BY <1>3, <1>4, <1>5, <1>7, <2>2, <3>2, SpotLine
      <4> QED
        BY <2>1, <4>1 DEF TakenFor
    <3> QED
      BY <2>2, <3>1, <3>2
  <2>4. AtSpot(p, d)'
    BY <1>2, <2>1, <2>2, <2>3 DEF AtSpot
  <2> QED
    BY <1>6, <2>4
<1>13. CASE CheckLast
  <2>1. pc = "finish" /\ records' = records /\ pc' \in {"accepted", "refused", "crashed"}
    BY <1>13 DEF CheckLast
  <2>2. AtSpot(p, d)'
    BY <1>2, <1>5, <2>1 DEF AtSpot
  <2> QED
    BY <1>6, <2>2
<1> QED
  BY <1>1, <1>9, <1>10, <1>11, <1>12, <1>13

\* DamageDetected: a file that differs from what was written in one character is
\* refused, or gives the same records, unless a record mark was missed: whatever the
\* records were, whatever the character is and wherever it stands.
THEOREM OneWrongIsDetected == EepromSpec => []DamageDetected
<1>1. EepromInit => SpoiltInv
  BY SpotInit, WalkInit DEF EepromInit, Init
<1>2. Walk /\ SpoiltInv /\ [EepromNext]_allVars => SpoiltInv'
  BY SpotStep
<1>3. Walk /\ SpoiltInv => DamageDetected
  <2> SUFFICES ASSUME Walk, SpoiltInv, pc = "accepted", Damaged,
                      ~(Len(records) < Len(source))
               PROVE  records = source
    BY DEF DamageDetected
  <2>1. /\ records \in Seq(HexRecord) /\ Len(records) \in Nat
        /\ Len(records) = Cardinality(Marks)
        /\ records # << >> => Last(records).type = IHEX_EOF
    BY DEF Walk, ParserTypeOK
  <2>2. source \in Seq(Writable) /\ Len(source) \in Nat
    BY DEF SpoiltInv
  <2>3. PICK t, p, e, d : AtSpot(p, d)
    BY <2>1, <2>2 DEF SpoiltInv
  <2>4. /\ \A k \in Len(source) + 1 .. Len(records) : records[k].type = IHEX_DATA
        /\ \A k \in 1 .. Len(source) : records[k] = source[k]
    BY <2>3 DEF AtSpot
  <2>5. Len(records) = Len(source)
    <3> SUFFICES ASSUME Len(records) > Len(source) PROVE FALSE
      BY <2>1, <2>2
    <3>1. Len(records) \in Len(source) + 1 .. Len(records) /\ records # << >>
      BY <2>1, <2>2
    <3>2. records[Len(records)].type = IHEX_DATA /\ records[Len(records)].type = IHEX_EOF
      BY <2>1, <2>4, <3>1 DEF Last
    <3> QED
      BY <3>2 DEF IHEX_DATA, IHEX_EOF
  <2> QED
    BY <2>1, <2>2, <2>4, <2>5
<1> QED
  BY <1>1, <1>2, <1>3, WalkAlways, PTL DEF EepromSpec
=============================================================================
