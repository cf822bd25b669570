---------------------------- MODULE MCFlashWriter ----------------------------
(* Small instances of FlashWriter: pages of two words (four bytes), three   *)
(* pages, and LENGTH = 2, so that records may be shorter, as long, longer   *)
(* than LENGTH and longer than a page.                                      *)
EXTENDS FlashWriter

MCBits == {0, 1}

\* The bytes at addresses 0, 1, ...: each differs from its neighbours and from
\* an erased one.
Content == <<{}, {0}, {1}, {}, {0}, {1}, {}, {0}, {1}, {}, {0}, {1},
             {}, {0}, {1}, {}, {0}, {1}, {}, {0}, {1}, {}, {0}, {1}>>

DataRecord(a, n) ==
  [type |-> "DATA", address |-> a, data |-> SubSeq(Content, a + 1, a + n)]
Eof == [type |-> "EOF", address |-> 0, data |-> << >>]
\* A start segment address record; its bytes are no flash content.
Ssa == [type |-> "SSA", address |-> 0, data |-> <<{}, {}>>]
DataRecordSet == {DataRecord(a, n) : a \in Addresses, n \in {0, 1, 2, 5}}

Ascending(r, s) == r.address + Len(r.data) <= s.address

Pairs == {<<r, s, Eof>> : r, s \in DataRecordSet}
WithSsa == {<<r, Ssa, s, Eof>> : r, s \in DataRecordSet}
             \cup {<<Ssa, r, s, Ssa, Eof>> : r, s \in DataRecordSet}
\* Three records one after the other, the last possibly after a gap.
Triples == {<<DataRecord(a, l), DataRecord(a + l, m), DataRecord(a + l + m + g, n), Eof>> :
              a \in {0, 3}, l, m, n \in 1 .. 3, g \in 0 .. 4}

WritableFiles ==
  {f \in Pairs \cup WithSsa \cup {<<Eof>>} : Writable(f)}
    \cup {f \in Triples : Writable(f)}

\* Files in ascending order whose records are not all of LENGTH bytes.
AscendingFiles ==
  {f \in Pairs : Plain(f) /\ InRange(f) /\ Ascending(f[1], f[2])}

BlankFlash == [p \in Pages |-> Blank]
\* A chip that was not erased.
UsedFlash == [p \in Pages |-> [c \in Cells |-> IF c[2] = 0 THEN {0} ELSE {0, 1}]]
MCInitialFlash == {BlankFlash, UsedFlash}
=============================================================================
