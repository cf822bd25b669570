---------------------------- MODULE MCAutoProgram ----------------------------
(* Small instances of AutoProgram: two pages of two words (four bytes).     *)
EXTENDS AutoProgram

MCBits == {0, 1}

Content == <<{}, {0}, {1}, {}, {0}, {1}, {}, {0}, {1}, {}, {0}, {1}, {}>>
DataRecord(a, n) ==
  [type |-> "DATA", address |-> a, data |-> SubSeq(Content, a + 1, a + n)]
Eof == [type |-> "EOF", address |-> 0, data |-> << >>]
Ssa == [type |-> "SSA", address |-> 0, data |-> <<{}, {}>>]

\* For an unreliable bus and short delays: a homogeneous file over both pages, one with a gap
\* that is seen, one with a gap that is not, one with a start segment record.
LossyFiles ==
  { <<DataRecord(0, 2), DataRecord(2, 3), Eof>>,
    <<DataRecord(1, 2), DataRecord(5, 1), Eof>>,
    <<DataRecord(2, 1), DataRecord(4, 2), Eof>>,
    <<DataRecord(0, 2), Ssa, DataRecord(6, 1), Eof>> }

DataRecordSet ==
  {r \in {DataRecord(a, n) : a \in 0 .. FlashSize, n \in 0 .. 5} :
     r.address + Len(r.data) <= FlashSize}

\* Where nothing fails: every file of two data records, and some with a start
\* segment record.
ReliableFiles ==
  {f \in {<<r, s, Eof>> : r, s \in DataRecordSet}
           \cup {<<r, Ssa, Eof>> : r \in DataRecordSet}
           \cup {<<r, Eof>> : r \in DataRecordSet} :
     Disjoint(f) /\ InRange(f) /\ RsSize(f) <= FlashSize}

BlankFlash == [p \in Pages |-> Blank]
UsedFlash == [p \in Pages |-> [c \in Cells |-> IF c[2] = 0 THEN {0} ELSE {0, 1}]]
MCInitialFlash == {BlankFlash, UsedFlash}
MCGarbage == {{}, {0, 1}}

AllFiles == LossyFiles \cup ReliableFiles

\* Only the first files meet failures and short delays.
Smooth == file \in LossyFiles \/ ~(lost' \/ readLost' \/ early')

MCSpec ==
  /\ ProgramInit
  /\ [][ProgramNext /\ Smooth]_allVars
  /\ WF_allVars(option_a /\ Smooth)
  /\ WF_allVars(ChipReady /\ UNCHANGED check)
=============================================================================
