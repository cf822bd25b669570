------------------------------ MODULE HexParser ------------------------------
(***************************************************************************)
(* ihex_rs_from_mem: a text in memory becomes a set of Intel HEX records,  *)
(* or NULL.  The array is sized by counting record marks, then filled by   *)
(* walking from record to record: the two passes need not agree on what a  *)
(* record is, and what the second leaves out stays as calloc made it.      *)
(*                                                                         *)
(* Of the characters, hexadecimal digits are their values; the others are  *)
(* the four that the parser knows and one for all the rest.                *)
(***************************************************************************)
EXTENDS Integers, Sequences, FiniteSetsExt, Functions, SequencesExt

CONSTANTS
  Sources,   \* pairs of a record set and a text that is read for it
  Heap       \* what three characters behind an allocated block may be

OTHER_CHR == 16
IHEX_CHR_RECORDMARK == 17
LF == 18
CR == 19
NUL == 20
Chars == 0 .. 20

HexByte == 0 .. 255
UINT16_MAX == 65535
HexWord == 0 .. UINT16_MAX
IHEX_DATA == 0
IHEX_EOF == 1
IHEX_ESA == 2
IHEX_SSA == 3
IHEX_ELA == 4
IHEX_SLA == 5

\* A record; its length is that of its data, its checksum is not kept.
HexRecord == [type : HexByte, address : HexWord, data : Seq(HexByte)]

\* What calloc leaves in the array: a data record without data.
Calloc == [type |-> IHEX_DATA, address |-> 0, data |-> << >>]

\* The length of a record is written in two digits.
ASSUME ParserAssumption ==
  /\ \A s \in Sources : s[1] \in Seq(HexRecord) /\ s[2] \in Seq(Chars)
  /\ \A s \in Sources : \A k \in DOMAIN s[1] : Len(s[1][k].data) \in HexByte
  /\ Heap \subseteq [1 .. 3 -> Chars]

VARIABLES
  source,   \* history: the records that the text was made from
  text,     \* the characters from `data' at the start to `end'
  beyond,   \* the three characters behind them
  pc,       \* "count", "parse", "finish", then "accepted", "refused" or "crashed"
  data,     \* the pointer, as an offset
  i,        \* the records begun
  records,  \* ihrs_records, of ihrs_count elements
  spilled,  \* has a record been stored behind the array
  errno     \* ihex_last_errno

parser == <<source, text, beyond, pc, data, i, records, spilled, errno>>

Errors == {"none", "INCORRECT_CHECKSUM", "NO_EOF", "PARSE_ERROR", "WRONG_RECORD_LENGTH"}

ParserTypeOK ==
  /\ pc \in {"count", "parse", "finish", "accepted", "refused", "crashed"}
  /\ data \in 0 .. Len(text)
  /\ i \in 0 .. Len(text)
  /\ records \in Seq(HexRecord)
  /\ spilled \in BOOLEAN
  /\ errno \in Errors

-----------------------------------------------------------------------------

Chr(k) == IF k < Len(text) THEN text[k + 1] ELSE beyond[k - Len(text) + 1]

\* A character that is no digit counts as 0.
FromHex4(k) == IF Chr(k) < 16 THEN Chr(k) ELSE 0
FromHex8(k) == 16 * FromHex4(k) + FromHex4(k + 1)
FromHex16(k) == 256 * FromHex8(k) + FromHex8(k + 2)

\* A faulty Marks: the lines are counted.
MarksLines ==
  {k \in DOMAIN text : text[k] = LF /\ \A m \in 1 .. k : text[m] # NUL}

\* The marks before the first NUL.
Marks ==
  {k \in DOMAIN text : /\ text[k] = IHEX_CHR_RECORDMARK
                       /\ \A m \in 1 .. k : text[m] # NUL}

\* The record of l bytes of data that starts at `data'.
Record(l) ==
  [type |-> FromHex8(data + 7),
   address |-> FromHex16(data + 3),
   data |-> [k \in 1 .. l |-> FromHex8(data + 7 + 2 * k)]]

\* A faulty LineEnds: the CR is not known.
LineEndsUnix(l) == Chr(data + 11 + 2 * l) = LF

\* Its last character is followed by LF or by CR LF.
LineEnds(l) ==
  \/ Chr(data + 11 + 2 * l) = LF
  \/ Chr(data + 11 + 2 * l) = CR /\ Chr(data + 12 + 2 * l) = LF

\* Of each pair of characters only the first is compared with the line end.
LineGoesOn(l) == \A k \in 1 .. l : Chr(data + 7 + 2 * k) \notin {LF, CR}

SumOf(s) == FoldLeft(+, 0, s)

\* A faulty ihex_check_record: only the lower four bits are compared.
ihex_check_record_low(rec, checksum) ==
  (Len(rec.data) + (rec.address \div 256) + (rec.address % 256) + rec.type
     + checksum + SumOf(rec.data)) % 16 = 0

\* The sum of all bytes of a record, in eight bits, is 0.
ihex_check_record(rec, checksum) ==
  (Len(rec.data) + (rec.address \div 256) + (rec.address % 256) + rec.type
     + checksum + SumOf(rec.data)) % 256 = 0

\* ihex_parse_single_record: why the record is refused.
ParseError(l) ==
  IF Chr(data) # IHEX_CHR_RECORDMARK THEN "PARSE_ERROR"
  ELSE IF ~LineEnds(l) \/ ~LineGoesOn(l) THEN "WRONG_RECORD_LENGTH"
  ELSE IF ~ihex_check_record(Record(l), FromHex8(data + 9 + 2 * l))
       THEN "INCORRECT_CHECKSUM"
  ELSE "none"

\* Where the next record starts, looked for from offset k on.
SkipToMark(k) ==
  LET stops == {m \in k .. Len(text) - 1 : Chr(m) \in {IHEX_CHR_RECORDMARK, NUL}}
  IN IF stops = {} THEN Len(text) ELSE Min(stops)

-----------------------------------------------------------------------------

ParserInit ==
  /\ \E s \in Sources : source = s[1] /\ text = s[2]
  /\ beyond \in Heap
  /\ pc = "count"
  /\ data = 0
  /\ i = 0
  /\ records = << >>
  /\ spilled = FALSE
  /\ errno = "none"

\* The first pass, and the allocation of the array.
CountMarks ==
  /\ pc = "count"
  /\ records' = [k \in 1 .. Cardinality(Marks) |-> Calloc]
  /\ pc' = "parse"
  /\ UNCHANGED <<source, text, beyond, data, i, spilled, errno>>

MoreText == data < Len(text) /\ Chr(data) # NUL

\* A record mark with less than a length behind it ends the loop.
Truncated == data + 3 >= Len(text)

\* One round of the second pass.  The record goes into the array before it is
\* checked, unless it runs out of the text (it is refused with the value that `r'
\* has, which is no error) or has no mark.
ParseRecord ==
  /\ pc = "parse"
  /\ MoreText
  /\ ~Truncated
  /\ i' = i + 1
  /\ LET l == FromHex8(data + 1)
         whole == data + 9 + 2 * l < Len(text)
         stored == whole /\ Chr(data) = IHEX_CHR_RECORDMARK
     IN /\ records' = [k \in DOMAIN records |->
                         IF stored /\ k = i' THEN Record(l) ELSE records[k]]
        /\ spilled' = (spilled \/ (stored /\ i' > Len(records)))
        /\ IF whole /\ ParseError(l) = "none"
           THEN data' = SkipToMark(data + 2 * l + 10) /\ UNCHANGED <<pc, errno>>
           ELSE /\ pc' = "refused"
                /\ errno' = IF whole THEN ParseError(l) ELSE errno
                /\ UNCHANGED data
  /\ UNCHANGED <<source, text, beyond>>

EndOfText ==
  /\ pc = "parse"
  /\ ~MoreText \/ Truncated
  /\ i' = IF MoreText THEN i + 1 ELSE i
  /\ pc' = "finish"
  /\ UNCHANGED <<source, text, beyond, data, records, spilled, errno>>

\* A faulty CheckLast: that the array was filled to its end is not asked.
CheckLastParsed ==
  /\ pc = "finish"
  /\ \E last \in IF i = 0 THEN {IHEX_DATA, IHEX_EOF} ELSE {records[Min({i, Len(records)})].type} :
       IF last = IHEX_EOF THEN pc' = "accepted" /\ UNCHANGED errno
                          ELSE pc' = "refused" /\ errno' = "NO_EOF"
  /\ UNCHANGED <<source, text, beyond, data, i, records, spilled>>

\* The last element of the array must be the EOF record.  Without any record the
\* index wraps to the largest uint_t: memory far away (the process crashes) or,
\* where a pointer has 32 bits too, just before the array, whatever it holds.
CheckLast ==
  /\ pc = "finish"
  /\ \/ records = << >> /\ pc' = "crashed" /\ UNCHANGED errno
     \/ \E last \in IF records = << >> THEN {IHEX_DATA, IHEX_EOF} ELSE {Last(records).type} :
          IF last = IHEX_EOF THEN pc' = "accepted" /\ UNCHANGED errno
                             ELSE pc' = "refused" /\ errno' = "NO_EOF"
  /\ UNCHANGED <<source, text, beyond, data, i, records, spilled>>

Parse == CountMarks \/ ParseRecord \/ EndOfText \/ CheckLast

-----------------------------------------------------------------------------
(* The texts of record sets. *)

Hex8(b) == <<b \div 16, b % 16>>
Bytes(rec) ==
  <<Len(rec.data), rec.address \div 256, rec.address % 256, rec.type>> \o rec.data
Checksum(rec) == (256 - (SumOf(Bytes(rec)) % 256)) % 256
Line(rec) ==
  LET bytes == Append(Bytes(rec), Checksum(rec)) IN
  <<IHEX_CHR_RECORDMARK>> \o FlattenSeq([k \in DOMAIN bytes |-> Hex8(bytes[k])])

\* The text of a record set, its lines ended by eol.
TextOf(rs, eol) == FlattenSeq([k \in DOMAIN rs |-> Line(rs[k]) \o eol])

EndsWithEof(rs) == rs # << >> /\ Last(rs).type = IHEX_EOF

-----------------------------------------------------------------------------
(* Properties *)

\* A text is a record set as it is written: one line each, LF or CR LF.
Intact == \E eol \in {<<LF>>, <<CR, LF>>} : text = TextOf(source, eol)

\* The parser takes every record set that ends with an EOF record, and returns
\* exactly its records.
ParsesIntact ==
  pc \in {"accepted", "refused"} /\ EndsWithEof(source) /\ Intact =>
    pc = "accepted" /\ records = source

\* What is accepted was parsed completely: no element of the array is as calloc
\* left it, the last one is of type EOF, and there are no more records than marks
\* were counted unless a NUL stopped the counting.
AcceptedComplete ==
  pc = "accepted" /\ records # << >> =>
    /\ Last(records).type = IHEX_EOF
    /\ i >= Len(records)
    /\ NUL \notin Range(text) => i = Len(records)

\* No record is stored behind the array, if the text has no NUL.
StoredInArray == spilled => NUL \in Range(text)

\* One wrong character in a text that is as long as it should be.
Damaged ==
  \E eol \in {<<LF>>, <<CR, LF>>} :
    LET t == TextOf(source, eol) IN
    /\ Len(t) = Len(text)
    /\ Cardinality({k \in DOMAIN t : t[k] # text[k]}) = 1

\* One wrong character is detected, or harmless because the records are the same,
\* unless fewer marks are counted than there are lines: a record mark was hit, and
\* its line is passed over without a word, or a 0 became a NUL.
DamageDetected ==
  pc = "accepted" /\ Damaged => records = source \/ Len(records) < Len(source)
=============================================================================
