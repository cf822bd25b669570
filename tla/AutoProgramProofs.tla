-------------------------- MODULE AutoProgramProofs --------------------------
(* What a passed verification proves, strict or fast, and that it raises no *)
(* false alarm, for every page size, number of pages, byte width, file and  *)
(* initial flash, on every bus and with every delay.                        *)
EXTENDS AutoProgram, FlashWriterProofs, Recursion, TLAPS

\* ProgramTypeOK with what it rests on.
PTInv == ProgramTypeOK /\ TInv

LEMMA AddressType ==
  FlashSize \in Nat \ {0} /\ Addresses = 0 .. FlashSize - 1
<1>1. PageSize \in Nat \ {0} /\ NumPages \in Nat \ {0}
  BY ChipAssumption
<1>2. 2 * PageSize * NumPages \in Nat \ {0}
  BY <1>1
<1> QED
  BY <1>2 DEF FlashSize, Addresses

LEMMA FlatType ==
  ASSUME ChipTypeOK, NEW a \in Addresses
  PROVE  Flat(flash)[a] \in Byte
<1>1. a \in Nat
  BY AddressType
<1>2. PageAt(a) \in Pages /\ CellAt(a) \in Cells
  BY <1>1, PlaceType
<1>3. Flat(flash)[a] = flash[PageAt(a)][CellAt(a)]
  BY DEF Flat
<1> QED
  BY <1>2, <1>3 DEF ChipTypeOK, PageContent

\* The stages around the writer's steps.
LEMMA StageType == PTInv /\ [ProgramNext]_allVars => PTInv'
<1> SUFFICES ASSUME PTInv, [ProgramNext]_allVars PROVE PTInv'
  OBVIOUS
<1>1. CASE chip_erace
  <2>1. /\ stage' = "write"
        /\ UNCHANGED <<file, initial, pc, i, j, addr, loaded, strict, data_buffer, readLost, early>>
        /\ Send(EraseChip)
    BY <1>1 DEF chip_erace
  <2>2. Blank \in PageContent
    BY DEF Blank, Erased, PageContent, Byte
  <2>3. ChipTypeOK' /\ lost' \in BOOLEAN
    <3>1. ChipTypeOK /\ lost \in BOOLEAN
      BY DEF PTInv, TInv, TypeOK
    <3>2. CASE EraseChip /\ lost' = lost
      BY <2>2, <3>1, <3>2 DEF EraseChip, ChipTypeOK, chip
    <3>3. CASE UNCHANGED chip /\ lost' = TRUE
      BY <3>1, <3>3 DEF ChipTypeOK, chip
    <3> QED
      BY <2>1, <3>2, <3>3 DEF Send
  <2>4. TypeOK' /\ file' \in Files
    BY <2>1, <2>3 DEF PTInv, TInv, TypeOK
  <2> QED
    BY <2>1, <2>4 DEF PTInv, TInv, ProgramTypeOK
<1>2. CASE main_write_stream
  <2>1. /\ Program /\ stage' \in {"write", "read"} /\ early' = (early \/ busy)
        /\ UNCHANGED <<strict, data_buffer, readLost>>
    BY <1>2 DEF main_write_stream
  <2>2. TInv'
    BY <2>1, TypeStep DEF PTInv, Next
  <2>3. early' \in BOOLEAN
    BY <2>1
  <2> QED
    BY <2>1, <2>2, <2>3 DEF PTInv, TInv, ProgramTypeOK
<1>3. CASE read_flash
  <2>1. PICK n : /\ data_buffer' = [a \in Addresses |->
                                     IF a < n THEN Flat(flash)[a] ELSE data_buffer[a]]
                 /\ readLost' \in BOOLEAN
    BY <1>3 DEF read_flash
  <2>2. stage' = "check" /\ early' \in BOOLEAN /\ UNCHANGED <<vars, strict>>
    BY <1>3 DEF read_flash
  <2>3. data_buffer' \in Buffers
    <3>1. data_buffer \in Buffers /\ ChipTypeOK
      BY DEF PTInv, TInv, TypeOK, ProgramTypeOK
    <3>2. \A a \in Addresses : Flat(flash)[a] \in Byte /\ data_buffer[a] \in Byte
      BY <3>1, FlatType DEF Buffers
    <3> QED
      BY <2>1, <3>2 DEF Buffers
  <2>4. TInv'
    BY <2>2, TypeStep DEF PTInv
  <2> QED
    BY <2>1, <2>2, <2>3, <2>4 DEF PTInv, TInv, ProgramTypeOK
<1>4. CASE compare
  <2>1. stage' \in {"passed", "failed"} /\ UNCHANGED <<vars, strict, data_buffer, readLost, early>>
    BY <1>4 DEF compare
  <2>2. TInv'
    BY <2>1, TypeStep DEF PTInv
  <2> QED
    BY <2>1, <2>2 DEF PTInv, TInv, ProgramTypeOK
<1>5. CASE (ChipReady /\ UNCHANGED check) \/ UNCHANGED allVars
  <2>1. (ChipReady \/ UNCHANGED vars) /\ UNCHANGED check
    BY <1>5 DEF allVars
  <2>2. TInv'
    BY <2>1, TypeStep DEF PTInv, Next
  <2> QED
    BY <2>1, <2>2 DEF PTInv, TInv, ProgramTypeOK, check
<1> QED
  BY <1>1, <1>2, <1>3, <1>4, <1>5 DEF ProgramNext, option_a

LEMMA ProgramTypeInit == ProgramInit => PTInv
<1> SUFFICES ASSUME ProgramInit PROVE PTInv
  OBVIOUS
<1>1. TInv
  BY TypeInit DEF ProgramInit
<1>2. /\ strict \in BOOLEAN /\ stage = "erase" /\ readLost = FALSE /\ early = FALSE
      /\ data_buffer \in Buffers
  BY ProgramAssumption DEF ProgramInit, Buffers
<1> QED
  BY <1>1, <1>2 DEF PTInv, TInv, ProgramTypeOK

\* ProgramTypeOK, for every chip, file and bus: in particular what is compared
\* with the file is a buffer of bytes, read back or left from malloc.
THEOREM ProgramTypeCorrect == ProgramSpec => []ProgramTypeOK
<1>1. PTInv => ProgramTypeOK
  BY DEF PTInv
<1> QED
  BY ProgramTypeInit, <1>1, StageType, PTL DEF ProgramSpec

-----------------------------------------------------------------------------
(* The size of a file and the memory it is copied to *)

\* g counts the bytes of the first records of f.
IsSizes(f, g) ==
  /\ g \in [0 .. Len(f) -> Nat]
  /\ g[0] = 0
  /\ \A k \in 1 .. Len(f) : g[k] = g[k - 1] + Len(f[k].data)

LEMMA RecordType ==
  ASSUME NEW f \in Seq(Record)
  PROVE  /\ Len(f) \in Nat /\ DOMAIN f = 1 .. Len(f)
         /\ \A r \in 1 .. Len(f) : /\ f[r] \in Record
                                   /\ f[r].address \in Nat
                                   /\ f[r].data \in Seq(Byte)
                                   /\ Len(f[r].data) \in Nat
<1>1. Len(f) \in Nat /\ DOMAIN f = 1 .. Len(f) /\ \A r \in 1 .. Len(f) : f[r] \in Record
  OBVIOUS
<1>2. \A x \in Record : x.address \in Nat /\ x.data \in Seq(Byte)
  BY DEF Record
<1> QED
  BY <1>1, <1>2

\* Two such counts agree as far as the files do.
LEMMA SizesAgree ==
  ASSUME NEW f, NEW e, NEW g, NEW h, IsSizes(f, g), IsSizes(e, h),
         NEW m \in Nat, m <= Len(f), m <= Len(e), Len(f) \in Nat, Len(e) \in Nat,
         \A k \in 1 .. m : Len(f[k].data) = Len(e[k].data)
  PROVE  \A k \in 0 .. m : g[k] = h[k]
<1> DEFINE S == {k \in 0 .. m : g[k] = h[k]}
<1>1. 0 \in S
  BY DEF IsSizes
<1>2. ASSUME NEW k \in 0 .. m - 1, k \in S PROVE k + 1 \in S
  <2>1. k + 1 \in 1 .. m /\ k + 1 \in 1 .. Len(f) /\ k + 1 \in 1 .. Len(e) /\ (k + 1) - 1 = k
    OBVIOUS
  <2>2. g[k + 1] = g[k] + Len(f[k + 1].data) /\ h[k + 1] = h[k] + Len(e[k + 1].data)
    BY <2>1 DEF IsSizes
  <2>3. g[k] = h[k]
    BY <1>2
  <2>4. g[k + 1] = h[k + 1]
    BY <2>1, <2>2, <2>3
  <2> QED
    BY <2>1, <2>4
<1> HIDE DEF S
<1>3. \A k \in 0 .. m : k \in S
  BY <1>1, <1>2, Induction
<1> QED
  BY <1>3 DEF S

\* RsSize is the last of these counts.
LEMMA SizesExist ==
  ASSUME NEW f \in Seq(Record)
  PROVE  \E g : IsSizes(f, g) /\ RsSize(f) = g[Len(f)]
<1> DEFINE N == Len(f)
           add == [p \in (1 .. N) \X Nat |-> p[2] + Len(f[p[1]].data)]
           size == CHOOSE g : g = [n \in 0 .. N |-> IF n = 0 THEN 0
                                                   ELSE g[n - 1] + Len(f[n].data)]
<1>1. N \in Nat /\ \A r \in 1 .. N : Len(f[r].data) \in Nat
  BY RecordType
<1>2. Steps(add, N, Nat)
  BY <1>1 DEF Steps
<1>3. \A k \in 1 .. N, x \in Nat : add[<<k, x>>] = x + Len(f[k].data)
  OBVIOUS
<1> HIDE DEF N, add
<1>4. PICK h : Recurs(h, N, Nat, 0, add)
  <2>1. 0 \in Nat
    OBVIOUS
  <2> QED
    BY <1>1, <1>2, <2>1, RecursionExists
<1>5. \A k \in 1 .. N : h[k] = h[k - 1] + Len(f[k].data)
  <2> SUFFICES ASSUME NEW k \in 1 .. N PROVE h[k] = h[k - 1] + Len(f[k].data)
    OBVIOUS
  <2>1. h[k - 1] \in Nat /\ h[k] = add[<<k, h[k - 1]>>]
    BY <1>1, <1>4 DEF Recurs
  <2> QED
    BY <2>1, <1>3
<1>a. h \in [0 .. N -> Nat] /\ h[0] = 0
  BY <1>4 DEF Recurs
<1>6. h = [n \in 0 .. N |-> IF n = 0 THEN 0 ELSE h[n - 1] + Len(f[n].data)]
  <2>1. \A n \in 0 .. N : h[n] = IF n = 0 THEN 0 ELSE h[n - 1] + Len(f[n].data)
    BY <1>1, <1>a, <1>5
  <2> QED
    BY <2>1, <1>a
<1>7. size = [n \in 0 .. N |-> IF n = 0 THEN 0 ELSE size[n - 1] + Len(f[n].data)]
  BY <1>6
<1>8. RsSize(f) = size[N]
  BY DEF RsSize, N
<1> HIDE DEF size
<1>9. \A k \in 0 .. N : size[k] = h[k]
  <2> DEFINE S == {k \in 0 .. N : size[k] = h[k]}
  <2>1. 0 \in S
    BY <1>1, <1>a, <1>7
  <2>2. ASSUME NEW k \in 0 .. N - 1, k \in S PROVE k + 1 \in S
    <3>1. k + 1 \in 1 .. N /\ k + 1 \in 0 .. N /\ k + 1 # 0 /\ (k + 1) - 1 = k
      BY <1>1
    <3>2. size[k + 1] = size[k] + Len(f[k + 1].data)
      BY <1>7, <3>1
    <3>3. h[k + 1] = h[k] + Len(f[k + 1].data)
      BY <1>5, <3>1
    <3>4. size[k] = h[k]
      BY <2>2
    <3> QED
      BY <3>1, <3>2, <3>3, <3>4
  <2> HIDE DEF S
  <2>3. \A k \in 0 .. N : k \in S
    BY <1>1, <2>1, <2>2, Induction
  <2> QED
    BY <2>3 DEF S
<1>10. IsSizes(f, h)
  BY <1>a, <1>5 DEF IsSizes, N
<1>11. RsSize(f) = h[N]
  BY <1>1, <1>8, <1>9
<1> QED
  BY <1>10, <1>11 DEF N

\* The counts grow.
LEMMA SizesGrow ==
  ASSUME NEW f \in Seq(Record), NEW g, IsSizes(f, g),
         NEW a \in 0 .. Len(f), NEW b \in 0 .. Len(f), a <= b
  PROVE  g[a] <= g[b]
<1> DEFINE N == Len(f) - a
           S == {k \in 0 .. N : g[a] <= g[a + k]}
<1>1. Len(f) \in Nat /\ N \in Nat /\ \A r \in 1 .. Len(f) : Len(f[r].data) \in Nat
  BY RecordType
<1>2. \A k \in 0 .. Len(f) : g[k] \in Nat
  BY DEF IsSizes
<1>3. 0 \in S
  BY <1>1, <1>2
<1>4. ASSUME NEW k \in 0 .. N - 1, k \in S PROVE k + 1 \in S
  <2>1. a + (k + 1) \in 1 .. Len(f) /\ (a + (k + 1)) - 1 = a + k /\ a + k \in 0 .. Len(f)
    BY <1>1
  <2>2. g[a + (k + 1)] = g[a + k] + Len(f[a + (k + 1)].data)
    BY <2>1 DEF IsSizes
  <2>3. g[a] <= g[a + k]
    BY <1>4
  <2>4. g[a] <= g[a + (k + 1)]
    BY <1>1, <1>2, <2>1, <2>2, <2>3
  <2>5. k + 1 \in 0 .. N
    BY <1>1
  <2> QED
    BY <2>4, <2>5
<1>5. \A k \in 0 .. N : k \in S
  <2> HIDE DEF S, N
  <2> QED
    BY <1>1, <1>3, <1>4, Induction
<1>6. b - a \in 0 .. N /\ a + (b - a) = b
  BY <1>1
<1>7. g[a] <= g[a + (b - a)]
  BY <1>5, <1>6
<1> QED
  BY <1>6, <1>7

\* Below the size of the file every number falls to one record.
LEMMA SizesCover ==
  ASSUME NEW f \in Seq(Record), NEW g, IsSizes(f, g), NEW a \in Nat, a < g[Len(f)]
  PROVE  \E r \in 1 .. Len(f) : g[r - 1] <= a /\ a < g[r]
<1> DEFINE S == {r \in 0 .. Len(f) : a < g[r]}
<1>1. Len(f) \in Nat /\ Len(f) \in S /\ S \in SUBSET Nat
  BY RecordType
<1>2. \E r \in S : \A b \in S : r <= b
  <2> HIDE DEF S
  <2> QED
    BY <1>1, Least
<1>3. PICK r \in S : \A b \in S : r <= b
  BY <1>2
<1>4. r # 0
  BY DEF IsSizes
<1>5. r - 1 \in 0 .. Len(f) /\ r - 1 \notin S
  BY <1>1, <1>3, <1>4
<1>6. g[r - 1] \in Nat
  BY <1>5 DEF IsSizes
<1>7. r \in 1 .. Len(f) /\ g[r - 1] <= a /\ a < g[r]
  BY <1>4, <1>5, <1>6
<1> QED
  BY <1>7

\* What storing every record leaves.
CopyAll(f) == FoldLeft(CopyRecord, [a \in Addresses |-> {}], f)

\* h are the memories that CopyAll passes, record by record.
IsCopy(f, h) ==
  /\ h \in [0 .. Len(f) -> Buffers]
  /\ \A k \in 1 .. Len(f) : h[k] = CopyRecord(h[k - 1], f[k])

\* What storing one record does to the byte at one address.
LEMMA CopyRecordAt ==
  ASSUME NEW mem \in Buffers, NEW r \in Record, NEW a \in Addresses
  PROVE  /\ r.type = "DATA" /\ a \in r.address .. r.address + Len(r.data) - 1 =>
              CopyRecord(mem, r)[a] = r.data[(a - r.address) + 1]
         /\ r.type # "DATA" \/ a < r.address => CopyRecord(mem, r)[a] = mem[a]
         /\ \/ r.type = "DATA" /\ a \in r.address .. r.address + Len(r.data) - 1
            \/ CopyRecord(mem, r)[a] \in {{}, mem[a]}
<1> DEFINE k == a - r.address
           L == Len(r.data)
<1>1. a \in Int /\ r.address \in Int /\ L \in Nat /\ DOMAIN mem = Addresses
  BY AddressType DEF Record, Buffers
<1>2. CopyRecord(mem, r)[a] =
        CASE r.type = "DATA" /\ k \in 0 .. L - 1 -> r.data[k + 1]
          [] /\ r.type = "DATA" /\ r.data # << >>
             /\ k \in L .. 2 * ((L + 1) \div 2) + 1 -> {}
          [] OTHER -> mem[a]
  BY <1>1 DEF CopyRecord
<1>3. k \in 0 .. L - 1 <=> a \in r.address .. r.address + L - 1
  BY <1>1
<1>4. a < r.address => k < 0
  BY <1>1
<1>5. k \in Int
  BY <1>1
<1> HIDE DEF k, L
<1> DEFINE A == k \in 0 .. L - 1
           B == k \in L .. 2 * ((L + 1) \div 2) + 1
           d == r.data[k + 1]
<1>6. CopyRecord(mem, r)[a] =
        CASE r.type = "DATA" /\ A -> d
          [] r.type = "DATA" /\ r.data # << >> /\ B -> {}
          [] OTHER -> mem[a]
  BY <1>2
<1>7. (A => ~B) /\ (a < r.address => ~A /\ ~B) /\ (A <=> a \in r.address .. r.address + L - 1)
  <2> DEFINE M == 2 * ((L + 1) \div 2) + 1
  <2>1. M \in Int
    BY <1>1
  <2> HIDE DEF M
  <2>2. (k \in 0 .. L - 1 => k \notin L .. M) /\ (k < 0 => k \notin 0 .. L - 1 /\ k \notin L .. M)
    BY <1>1, <1>5, <2>1
  <2> QED
    BY <1>3, <1>4, <2>2 DEF M
<1> HIDE DEF A, B, d
<1>8. CASE r.type = "DATA" /\ A
  <2>1. CopyRecord(mem, r)[a] = d
    BY <1>6, <1>7, <1>8
  <2> QED
    BY <1>7, <1>8, <2>1 DEF d, k, L
<1>9. CASE ~(r.type = "DATA" /\ A)
  <2>1. CopyRecord(mem, r)[a] \in {{}, mem[a]}
    BY <1>6, <1>9
  <2>2. r.type # "DATA" \/ a < r.address => CopyRecord(mem, r)[a] = mem[a]
    BY <1>6, <1>7, <1>9
  <2> QED
    BY <1>7, <1>9, <2>1, <2>2 DEF L
<1> QED
  BY <1>8, <1>9

LEMMA CopyRecordType ==
  ASSUME NEW mem \in Buffers, NEW r \in Record
  PROVE  CopyRecord(mem, r) \in Buffers
<1>1. /\ r.address \in Nat /\ r.data \in Seq(Byte) /\ Len(r.data) \in Nat
      /\ {} \in Byte /\ DOMAIN mem = Addresses
  BY DEF Record, Byte, Buffers
<1>2. ASSUME NEW a \in Addresses PROVE CopyRecord(mem, r)[a] \in Byte
  <2>1. CASE r.type = "DATA" /\ a \in r.address .. r.address + Len(r.data) - 1
    <3>1. CopyRecord(mem, r)[a] = r.data[(a - r.address) + 1]
      BY <2>1, CopyRecordAt
    <3>2. (a - r.address) + 1 \in 1 .. Len(r.data)
      BY <1>1, <2>1
    <3>3. \A n \in 1 .. Len(r.data) : r.data[n] \in Byte
      BY <1>1
    <3> QED
      BY <3>1, <3>2, <3>3
  <2>2. CASE CopyRecord(mem, r)[a] \in {{}, mem[a]}
    BY <1>1, <2>2 DEF Buffers
  <2> QED
    BY <2>1, <2>2, CopyRecordAt
<1>3. CopyRecord(mem, r) = [a \in Addresses |-> CopyRecord(mem, r)[a]]
  BY <1>1 DEF CopyRecord
<1> QED
  BY <1>2, <1>3 DEF Buffers

\* CopyAll ends with the last of them.
LEMMA CopyExists ==
  ASSUME NEW f \in Seq(Record)
  PROVE  \E h : IsCopy(f, h) /\ CopyAll(f) = h[Len(f)]
<1> DEFINE N == Len(f)
           base == [a \in Addresses |-> {}]
           step == [p \in (1 .. N) \X Buffers |-> CopyRecord(p[2], f[p[1]])]
           iter == CHOOSE g : g = [s \in SUBSET (1 .. N) |->
                     IF s = {} THEN base ELSE CopyRecord(g[s \ {Max(s)}], f[Max(s)])]
<1>1. N \in Nat /\ DOMAIN f = 1 .. N /\ \A r \in 1 .. N : f[r] \in Record
  BY RecordType
<1>2. base \in Buffers
  BY DEF Buffers, Byte
<1>3. \A k \in 1 .. N, x \in Buffers : step[<<k, x>>] = CopyRecord(x, f[k])
  OBVIOUS
<1>4. CopyAll(f) = iter[1 .. N]
  BY <1>1 DEF CopyAll, FoldLeft, MapThenFoldSet
<1> HIDE DEF N, base, step
<1>5. Steps(step, N, Buffers)
  BY <1>1, <1>3, CopyRecordType DEF Steps
<1>6. PICK g : FoldsDown(g, N, Buffers, base, step)
  BY <1>1, <1>2, <1>5, FoldExists
<1>7. g = [s \in SUBSET (1 .. N) |->
             IF s = {} THEN base ELSE CopyRecord(g[s \ {Max(s)}], f[Max(s)])]
  <2>1. ASSUME NEW s \in SUBSET (1 .. N), s # {}
        PROVE  g[s] = CopyRecord(g[s \ {Max(s)}], f[Max(s)])
    <3>1. s \in SUBSET (0 .. N)
      BY <1>1
    <3>2. Max(s) \in s
      BY <1>1, <2>1, <3>1, MaxOf
    <3>3. Max(s) \in 1 .. N /\ s \ {Max(s)} \in SUBSET (1 .. N)
      BY <3>2
    <3>4. g[s \ {Max(s)}] \in Buffers /\ g[s] = step[<<Max(s), g[s \ {Max(s)}]>>]
      BY <1>6, <2>1, <3>3 DEF FoldsDown
    <3> QED
      BY <1>3, <3>3, <3>4
  <2>2. g[{}] = base /\ DOMAIN g = SUBSET (1 .. N) /\ g = [s \in DOMAIN g |-> g[s]]
    BY <1>6 DEF FoldsDown
  <2> QED
    BY <2>1, <2>2
<1>8. iter = [s \in SUBSET (1 .. N) |->
                IF s = {} THEN base ELSE CopyRecord(iter[s \ {Max(s)}], f[Max(s)])]
  BY <1>7
<1> HIDE DEF iter
<1>9. iter[{}] = base
  BY <1>8
<1>10. ASSUME NEW k \in 1 .. N, iter[1 .. k - 1] \in Buffers
       PROVE  iter[1 .. k] = step[<<k, iter[1 .. k - 1]>>]
  <2>1. /\ 1 .. k \in SUBSET (1 .. N) /\ 1 .. k # {}
        /\ Max(1 .. k) = k /\ (1 .. k) \ {k} = 1 .. k - 1
    BY <1>1, Prefix
  <2>2. iter[1 .. k] = CopyRecord(iter[(1 .. k) \ {Max(1 .. k)}], f[Max(1 .. k)])
    BY <1>8, <2>1
  <2> QED
    BY <1>3, <1>10, <2>1, <2>2
<1>11. PICK h : Recurs(h, N, Buffers, base, step)
  BY <1>1, <1>2, <1>5, RecursionExists
<1>12. iter[1 .. N] = h[N]
  BY <1>1, <1>2, <1>5, <1>9, <1>10, <1>11, FoldIsRecursion
<1>13. ASSUME NEW k \in 1 .. N PROVE h[k] = CopyRecord(h[k - 1], f[k])
  <2>1. h[k - 1] \in Buffers /\ h[k] = step[<<k, h[k - 1]>>]
    BY <1>1, <1>11 DEF Recurs
  <2> QED
    BY <1>3, <2>1
<1>14. h \in [0 .. N -> Buffers]
  BY <1>11 DEF Recurs
<1> QED
  BY <1>4, <1>12, <1>13, <1>14 DEF IsCopy, N

-----------------------------------------------------------------------------
(* Homogeneous files *)

\* In a homogeneous file the records follow one another.
LEMMA HomogeneousAddresses ==
  ASSUME NEW f \in Seq(Record), NEW g, IsSizes(f, g), Homogeneous(f),
         NEW r \in 1 .. Len(f) - 1
  PROVE  f[r].type = "DATA" /\ f[r].address = g[r - 1]
<1> DEFINE m == r - 1
           e == SubSeq(f, 1, m)
<1>1. Len(f) \in Nat /\ m \in Nat /\ m <= Len(f)
  BY RecordType
<1>2. e \in Seq(Record) /\ Len(e) = m /\ \A k \in 1 .. m : e[k] = f[k]
  BY <1>1
<1>3. f[r].type = "DATA" /\ f[r].address = RsSize(e)
  BY DEF Homogeneous
<1> HIDE DEF e, m
<1>4. PICK h : IsSizes(e, h) /\ RsSize(e) = h[Len(e)]
  BY <1>2, SizesExist
<1>5. \A k \in 0 .. m : h[k] = g[k]
  BY <1>1, <1>2, <1>4, SizesAgree
<1>6. m \in 0 .. m
  BY <1>1
<1> QED
  BY <1>2, <1>3, <1>4, <1>5, <1>6 DEF m

\* The extent of a record of a homogeneous file lies between two counts.
LEMMA HomogeneousExtent ==
  ASSUME NEW f \in Seq(Record), NEW g, IsSizes(f, g), Homogeneous(f), Plain(f)
  PROVE  /\ DataRecords(f) = 1 .. Len(f) - 1
         /\ \A r \in 1 .. Len(f) - 1 : Extent(f, r) = g[r - 1] .. g[r] - 1
         /\ g[Len(f)] = g[Len(f) - 1]
         /\ Disjoint(f)
<1> DEFINE N == Len(f)
<1>1. /\ N \in Nat /\ DOMAIN f = 1 .. N /\ N >= 1
      /\ \A r \in 1 .. N : f[r].address \in Nat /\ Len(f[r].data) \in Nat
  BY RecordType DEF Plain
<1>2. f[N].type = "EOF" /\ f[N].data = << >>
  BY <1>1 DEF Plain
<1>3. DataRecords(f) = 1 .. N - 1
  <2>1. \A r \in 1 .. N - 1 : f[r].type = "DATA"
    BY HomogeneousAddresses
  <2>2. f[N].type # "DATA"
    BY <1>2
  <2> HIDE DEF N
  <2> QED
    BY <1>1, <2>1, <2>2 DEF DataRecords
<1>4. \A k \in 0 .. N : g[k] \in Nat
  BY DEF IsSizes
<1>5. ASSUME NEW r \in 1 .. N - 1 PROVE Extent(f, r) = g[r - 1] .. g[r] - 1
  <2>1. f[r].address = g[r - 1]
    BY HomogeneousAddresses
  <2>2. g[r] = g[r - 1] + Len(f[r].data)
    BY <1>1 DEF IsSizes
  <2>3. g[r - 1] \in Nat /\ g[r] \in Nat /\ Len(f[r].data) \in Nat
    BY <1>1, <1>4
  <2>4. f[r].address + Len(f[r].data) - 1 = g[r] - 1
    <3> DEFINE l == Len(f[r].data)
               a == g[r - 1]
               b == g[r]
    <3>1. b = a + l /\ a \in Nat /\ b \in Nat /\ l \in Nat
      BY <2>2, <2>3
    <3> HIDE DEF l, a, b
    <3>2. a + l - 1 = b - 1
      BY <3>1
    <3> QED
      BY <2>1, <3>2 DEF l, a, b
  <2>5. Extent(f, r) = f[r].address .. f[r].address + Len(f[r].data) - 1
    BY DEF Extent
  <2> QED
    BY <2>1, <2>4, <2>5
<1>6. g[N] = g[N - 1]
  <2>1. g[N] = g[N - 1] + Len(f[N].data)
    BY <1>1 DEF IsSizes
  <2>2. Len(f[N].data) = 0 /\ g[N - 1] \in Nat
    BY <1>1, <1>2, <1>4
  <2> QED
    BY <2>1, <2>2
<1>7. ASSUME NEW r \in 1 .. N - 1, NEW s \in 1 .. N - 1, r < s
      PROVE  Extent(f, r) \cap Extent(f, s) = {}
  <2>1. g[r] <= g[s - 1]
    <3>1. r \in 0 .. Len(f) /\ s - 1 \in 0 .. Len(f) /\ r <= s - 1
      BY <1>1, <1>7
    <3> QED
      BY <3>1, SizesGrow
  <2>2. r - 1 \in 0 .. N /\ r \in 0 .. N /\ s - 1 \in 0 .. N /\ s \in 0 .. N
    BY <1>1
  <2>3. g[r - 1] \in Nat /\ g[r] \in Nat /\ g[s - 1] \in Nat /\ g[s] \in Nat
    BY <1>4, <2>2
  <2>4. Extent(f, r) = g[r - 1] .. g[r] - 1 /\ Extent(f, s) = g[s - 1] .. g[s] - 1
    BY <1>5
  <2>5. (g[r - 1] .. g[r] - 1) \cap (g[s - 1] .. g[s] - 1) = {}
    BY <2>1, <2>3
  <2> QED
    BY <2>4, <2>5
<1>8. Disjoint(f)
  <2> SUFFICES ASSUME NEW r \in DataRecords(f), NEW s \in DataRecords(f), r # s
               PROVE  Extent(f, r) \cap Extent(f, s) = {}
    BY DEF Disjoint
  <2>1. r \in 1 .. N - 1 /\ s \in 1 .. N - 1 /\ (r < s \/ s < r)
    BY <1>1, <1>3
  <2> QED
    BY <1>7, <2>1
<1> QED
  BY <1>3, <1>5, <1>6, <1>8

\* The addresses of a homogeneous file are those below its size.
LEMMA HomogeneousImage ==
  ASSUME NEW f \in Seq(Record), Homogeneous(f), Plain(f)
  PROVE  ImageAddresses(f) = 0 .. RsSize(f) - 1
<1>1. PICK g : IsSizes(f, g) /\ RsSize(f) = g[Len(f)]
  BY SizesExist
<1>2. Len(f) \in Nat /\ Len(f) >= 1 /\ \A k \in 0 .. Len(f) : g[k] \in Nat
  BY <1>1, RecordType DEF IsSizes, Plain
<1>3. /\ DataRecords(f) = 1 .. Len(f) - 1
      /\ \A r \in 1 .. Len(f) - 1 : Extent(f, r) = g[r - 1] .. g[r] - 1
      /\ g[Len(f)] = g[Len(f) - 1]
  BY <1>1, HomogeneousExtent
<1>4. ASSUME NEW r \in 1 .. Len(f) - 1 PROVE Extent(f, r) \subseteq 0 .. RsSize(f) - 1
  <2>1. r \in 0 .. Len(f) /\ Len(f) \in 0 .. Len(f) /\ r <= Len(f) /\ r - 1 \in 0 .. Len(f)
    BY <1>2
  <2>2. g[r] <= g[Len(f)]
    BY <1>1, <2>1, SizesGrow
  <2>3. g[r - 1] \in Nat /\ g[r] \in Nat /\ g[Len(f)] \in Nat
    BY <1>2, <2>1
  <2>4. Extent(f, r) = g[r - 1] .. g[r] - 1
    BY <1>3
  <2> QED
    BY <1>1, <2>2, <2>3, <2>4
<1>5. ASSUME NEW a \in 0 .. RsSize(f) - 1
      PROVE  \E r \in DataRecords(f) : a \in Extent(f, r)
  <2>1. RsSize(f) \in Nat /\ a \in Nat /\ a < g[Len(f)]
    BY <1>1, <1>2
  <2>2. PICK r \in 1 .. Len(f) : g[r - 1] <= a /\ a < g[r]
    BY <1>1, <2>1, SizesCover
  <2>3. r - 1 \in 0 .. Len(f) /\ r \in 0 .. Len(f)
    BY <1>2
  <2>4. g[r - 1] \in Nat /\ g[r] \in Nat
    BY <1>2, <2>3
  <2>5. r # Len(f)
    BY <1>3, <2>1, <2>2, <2>4
  <2>6. r \in 1 .. Len(f) - 1
    BY <1>2, <2>5
  <2>7. a \in g[r - 1] .. g[r] - 1
    BY <2>1, <2>2, <2>4
  <2> QED
    BY <1>3, <2>6, <2>7
<1> QED
  BY <1>3, <1>4, <1>5 DEF ImageAddresses

\* Where ihex_mem_copy stops.
LEMMA Stop ==
  ASSUME NEW f \in Seq(Record)
  PROVE  LET e == FirstOutside(f) - 1 IN
         /\ e \in 0 .. Len(f)
         /\ e < Len(f) => f[e + 1].type = "DATA" /\ f[e + 1].address >= FlashSize
         /\ SubSeq(f, 1, e) \in Seq(Record) /\ Len(SubSeq(f, 1, e)) = e
         /\ \A k \in 1 .. e : SubSeq(f, 1, e)[k] = f[k]
<1> DEFINE S == {r \in DOMAIN f : f[r].type = "DATA" /\ f[r].address >= FlashSize}
                 \cup {Len(f) + 1}
           e == FirstOutside(f) - 1
<1>1. Len(f) \in Nat /\ DOMAIN f = 1 .. Len(f) /\ S \in SUBSET Nat /\ Len(f) + 1 \in S
      /\ \A r \in S : r \in 1 .. Len(f) + 1
  BY RecordType
<1>2. FirstOutside(f) = Min(S)
  BY DEF FirstOutside
<1>3. Min(S) \in S
  <2> HIDE DEF S
  <2>1. \E r \in S : \A b \in S : r <= b
    BY <1>1, Least
  <2> QED
    BY <2>1 DEF Min
<1>4. FirstOutside(f) \in 1 .. Len(f) + 1
  BY <1>1, <1>2, <1>3
<1>5. e \in 0 .. Len(f) /\ e + 1 = FirstOutside(f)
  BY <1>1, <1>4
<1>6. e < Len(f) => f[e + 1].type = "DATA" /\ f[e + 1].address >= FlashSize
  <2> SUFFICES ASSUME e < Len(f)
               PROVE  f[e + 1].type = "DATA" /\ f[e + 1].address >= FlashSize
    OBVIOUS
  <2>1. e + 1 \in S /\ e + 1 # Len(f) + 1
    BY <1>1, <1>2, <1>3, <1>5
  <2> QED
    BY <2>1
<1> HIDE DEF S, e
<1>7. SubSeq(f, 1, e) \in Seq(Record) /\ Len(SubSeq(f, 1, e)) = e
      /\ \A k \in 1 .. e : SubSeq(f, 1, e)[k] = f[k]
  BY <1>1, <1>5
<1> QED
  BY <1>5, <1>6, <1>7 DEF e

\* ihex_mem_copy of a homogeneous file makes its image: what it pads a record
\* with is stored over by the record that follows, and it stops, if at all, where
\* only empty records are left.
LEMMA CopyIsImage ==
  ASSUME NEW f \in Seq(Record), Homogeneous(f), Plain(f), InRange(f),
         NEW a \in ImageAddresses(f)
  PROVE  MemCopy(f)[a] = ImageByte(f, a)
<1>1. PICK g : IsSizes(f, g) /\ RsSize(f) = g[Len(f)]
  BY SizesExist
<1> DEFINE N == Len(f)
           e == FirstOutside(f) - 1
           s == SubSeq(f, 1, e)
<1>15. /\ e \in 0 .. N
       /\ e < N => f[e + 1].type = "DATA" /\ f[e + 1].address >= FlashSize
       /\ s \in Seq(Record) /\ Len(s) = e
       /\ \A k \in 1 .. e : s[k] = f[k]
  BY Stop
<1>16. MemCopy(f) = CopyAll(s)
  BY DEF MemCopy, CopyAll
<1> HIDE DEF e, s
<1>2. PICK h : IsCopy(s, h) /\ MemCopy(f) = h[e]
  BY <1>15, <1>16, CopyExists
<1>3. /\ N \in Nat /\ DOMAIN f = 1 .. N
      /\ \A k \in 1 .. N : /\ f[k] \in Record
                           /\ f[k].address \in Nat /\ Len(f[k].data) \in Nat
      /\ \A k \in 0 .. N : g[k] \in Nat
  BY <1>1, RecordType DEF IsSizes
<1>4. /\ DataRecords(f) = 1 .. N - 1
      /\ \A r \in 1 .. N - 1 : Extent(f, r) = g[r - 1] .. g[r] - 1
      /\ Disjoint(f)
  BY <1>1, HomogeneousExtent
<1>5. \A r \in 1 .. N - 1 : f[r].type = "DATA" /\ f[r].address = g[r - 1]
  BY <1>1, HomogeneousAddresses
<1>6. PICK r \in 1 .. N - 1 : a \in Extent(f, r)
  BY <1>4 DEF ImageAddresses
<1> DEFINE n == a - f[r].address
<1>7. a \in Addresses
  BY DEF InRange
<1>8. ImageByte(f, a) = f[r].data[n + 1]
  <2>1. RecordOf(f, a) = r
    <3>1. r \in DataRecords(f)
      BY <1>4
    <3>2. \A k \in DataRecords(f) : a \in Extent(f, k) => k = r
      BY <1>4, <1>6, <3>1 DEF Disjoint
    <3> QED
      BY <1>6, <3>1, <3>2 DEF RecordOf
  <2> QED
    BY <2>1 DEF ImageByte
<1>9. a < g[r]
  <2>1. g[r] \in Nat /\ g[r - 1] \in Nat
    BY <1>3
  <2> QED
    BY <1>4, <1>6, <2>1
<1>10. \A k \in 1 .. e : h[k - 1] \in Buffers /\ h[k] = CopyRecord(h[k - 1], f[k])
  BY <1>2, <1>3, <1>15 DEF IsCopy
<1>17. r \in 1 .. e /\ e \in Nat /\ e <= N
  <2>1. SUFFICES ASSUME e < r PROVE FALSE
    BY <1>3, <1>15
  <2>2. e + 1 \in 1 .. N - 1 /\ e \in 0 .. N /\ r - 1 \in 0 .. N /\ e <= r - 1 /\ r \in 0 .. N
    BY <1>3, <1>15, <2>1
  <2>3. f[e + 1].address = g[e] /\ f[e + 1].address >= FlashSize
    BY <1>3, <1>5, <1>15, <2>2
  <2>4. g[e] <= g[r - 1]
    BY <1>1, <2>2, SizesGrow
  <2>5. g[e] \in Nat /\ g[r - 1] \in Nat /\ g[r] \in Nat
    BY <1>3, <2>2
  <2>6. g[r - 1] <= a
    BY <1>4, <1>6, <2>5
  <2> QED
    BY <1>7, <2>3, <2>4, <2>5, <2>6, AddressType DEF Addresses, FlashSize
<1> DEFINE want == f[r].data[n + 1]
           S == {k \in 0 .. e - r : h[r + k][a] = want}
<1>11. 0 \in S
  <2>1. h[r] = CopyRecord(h[r - 1], f[r]) /\ h[r - 1] \in Buffers
    BY <1>10, <1>17
  <2>2. f[r].type = "DATA" /\ a \in f[r].address .. f[r].address + Len(f[r].data) - 1
    BY <1>5, <1>6 DEF Extent
  <2>3. h[r][a] = want
    <3>1. f[r] \in Record
      BY <1>3
    <3>2. CopyRecord(h[r - 1], f[r])[a] = f[r].data[(a - f[r].address) + 1]
      BY <1>7, <2>1, <2>2, <3>1, CopyRecordAt
    <3> QED
      BY <2>1, <3>2
  <2>4. r + 0 = r /\ 0 \in 0 .. e - r
    BY <1>17
  <2> HIDE DEF want
  <2> QED
    BY <2>3, <2>4
<1>12. ASSUME NEW k \in 0 .. e - r - 1, k \in S PROVE k + 1 \in S
  <2> DEFINE q == r + (k + 1)
  <2>1. q \in 1 .. e /\ q - 1 = r + k /\ r <= q - 1 /\ k + 1 \in 0 .. e - r
    BY <1>17
  <2>2. h[q - 1][a] = want
    BY <1>12, <2>1
  <2> HIDE DEF q, want
  <2>3. h[q] = CopyRecord(h[q - 1], f[q]) /\ h[q - 1] \in Buffers /\ f[q] \in Record
    <3>1. q \in 1 .. N
      BY <1>3, <1>17, <2>1
    <3> QED
      BY <1>3, <1>10, <2>1, <3>1
  <2>4. f[q].type # "DATA" \/ a < f[q].address
    <3> SUFFICES ASSUME f[q].type = "DATA" PROVE a < f[q].address
      OBVIOUS
    <3>1. q \in 1 .. N - 1
      <4>1. q \in 1 .. N
        BY <1>3, <1>17, <2>1
      <4>2. q \in DataRecords(f)
        BY <1>3, <4>1 DEF DataRecords
      <4> QED
        BY <1>4, <4>2
    <3>2. f[q].address = g[q - 1]
      BY <1>5, <3>1
    <3>3. g[r] <= g[q - 1]
      <4>1. r \in 0 .. Len(f) /\ q - 1 \in 0 .. Len(f)
        BY <1>3, <1>17, <2>1
      <4> QED
        BY <1>1, <2>1, <4>1, SizesGrow
    <3>4. g[r] \in Nat /\ g[q - 1] \in Nat /\ a \in Int
      <4>1. r \in 0 .. N /\ q - 1 \in 0 .. N
        BY <1>3, <1>17, <2>1
      <4> QED
        BY <1>3, <1>7, <4>1, AddressType
    <3> QED
      BY <1>9, <3>2, <3>3, <3>4
  <2>5. h[q][a] = h[q - 1][a]
    BY <1>7, <2>3, <2>4, CopyRecordAt
  <2> QED
    BY <2>1, <2>2, <2>5 DEF q
<1>13. e - r \in S
  <2>1. e - r \in Nat /\ e - r \in 0 .. e - r
    BY <1>17
  <2> HIDE DEF S, N
  <2>2. \A k \in 0 .. e - r : k \in S
    BY <1>11, <1>12, <2>1, Induction
  <2> QED
    BY <2>1, <2>2
<1>14. r + (e - r) = e
  BY <1>17
<1> QED
  BY <1>2, <1>8, <1>13, <1>14

-----------------------------------------------------------------------------
(* The read-back and the verdict *)

Passes == IF strict THEN StrictPasses(file, data_buffer)
                    ELSE FastPasses(file, data_buffer)

\* What the check reads: the whole flash or as many bytes as the file has.
Checked(a) == strict \/ a < RsSize(file)

\* From the comparison on the answer of a complete read-back is what the flash
\* holds, and the verdict is that of the comparison.
CInv ==
  /\ stage \in {"check", "passed", "failed"} /\ ~readLost =>
       \A a \in Addresses : Checked(a) => data_buffer[a] = Flat(flash)[a]
  /\ stage = "passed" => Passes
  /\ stage = "failed" => ~Passes
  /\ file \in Files

LEMMA SizeType ==
  ASSUME NEW f \in Files
  PROVE  RsSize(f) \in Nat
<1>1. f \in Seq(Record) /\ Len(f) \in 0 .. Len(f)
  BY FileType
<1>2. PICK g : IsSizes(f, g) /\ RsSize(f) = g[Len(f)]
  BY <1>1, SizesExist
<1> QED
  BY <1>1, <1>2 DEF IsSizes

\* A read-back that is complete has stored every byte that is checked.
LEMMA ReadBackIsFlash ==
  ASSUME read_flash, file \in Files, ~readLost'
  PROVE  \A a \in Addresses : Checked(a) => data_buffer'[a] = Flat(flash)[a]
<1> DEFINE mem == IF strict THEN FlashSize ELSE RsSize(file)
<1>1. mem \in Nat
  BY AddressType, SizeType
<1>2. \A a \in Addresses : Checked(a) => a < mem
  BY AddressType DEF Checked
<1>3. PICK n \in (IF busy THEN {0} ELSE IF LossyBus THEN 0 .. mem ELSE {mem}) :
        /\ data_buffer' = [a \in Addresses |->
                            IF a < n THEN Flat(flash)[a] ELSE data_buffer[a]]
        /\ readLost' = (n < mem)
  BY DEF read_flash
<1> HIDE DEF mem
<1>4. n \in Nat /\ n <= mem
  <2>1. n = 0 \/ n \in 0 .. mem \/ n = mem
    BY <1>3
  <2> QED
    BY <2>1, <1>1
<1>5. n = mem
  <2>1. ~(n < mem)
    BY <1>3
  <2> QED
    BY <1>1, <1>4, <2>1
<1> QED
  BY <1>2, <1>3, <1>5

\* Every step keeps the invariant.
LEMMA CheckStep ==
  ASSUME CInv, [ProgramNext]_allVars
  PROVE  CInv'
<1>0. file \in Files
  BY DEF CInv
<1>1. CASE chip_erace
  <2>1. file' = file /\ stage' = "write"
    BY <1>1 DEF chip_erace
  <2> QED
    BY <2>1, <1>0 DEF CInv
<1>2. CASE main_write_stream
  <2>1. file' = file /\ stage' \in {"write", "read"}
    BY <1>2 DEF main_write_stream, Program, LoadByte, TestGap, TestPageEnd, EndRecord, Finish
  <2> QED
    BY <2>1, <1>0 DEF CInv
<1>3. CASE read_flash
  <2>1. stage' = "check" /\ UNCHANGED <<strict, flash, file>>
    BY <1>3 DEF read_flash, vars, chip, writer
  <2>2. Flat(flash)' = Flat(flash) /\ \A a \in Addresses : Checked(a)' = Checked(a)
    BY <2>1 DEF Flat, Checked
  <2> QED
    BY <1>0, <1>3, <2>1, <2>2, ReadBackIsFlash DEF CInv
<1>4. CASE compare
  <2>1. /\ stage = "check"
        /\ UNCHANGED <<flash, file, strict, data_buffer, readLost>>
        /\ stage' = IF Passes THEN "passed" ELSE "failed"
    BY <1>4 DEF compare, vars, chip, writer, Passes
  <2>2. /\ Flat(flash)' = Flat(flash) /\ Passes' = Passes
        /\ \A a \in Addresses : Checked(a)' = Checked(a)
    BY <2>1 DEF Flat, Passes, Checked
  <2> QED
    BY <2>1, <2>2 DEF CInv
<1>5. CASE (ChipReady /\ UNCHANGED check) \/ UNCHANGED allVars
  <2>1. UNCHANGED <<flash, file, strict, stage, data_buffer, readLost>>
    BY <1>5 DEF ChipReady, Ready, check, allVars, vars, chip, writer
  <2>2. /\ Flat(flash)' = Flat(flash) /\ Passes' = Passes
        /\ \A a \in Addresses : Checked(a)' = Checked(a)
    BY <2>1 DEF Flat, Passes, Checked
  <2> QED
    BY <2>1, <2>2 DEF CInv
<1> QED
  BY <1>1, <1>2, <1>3, <1>4, <1>5 DEF ProgramNext, option_a

LEMMA CheckInit == ProgramInit => CInv
BY DEF ProgramInit, Init, CInv

-----------------------------------------------------------------------------
(* The strict check *)

\* What the strict check has compared is the image of the file.
LEMMA ComparedIsImage ==
  ASSUME NEW f \in Files, Disjoint(f), InRange(f),
         NEW mem, StrictPasses(f, mem),
         NEW r \in StrictRecords(f) \cap DataRecords(f), NEW a \in Extent(f, r)
  PROVE  a \in Addresses /\ mem[a] = ImageByte(f, a)
<1>1. f \in Seq(Record)
  BY WriterAssumption
<1>2. r \in DOMAIN f /\ r \in DataRecords(f) /\ r \in StrictRecords(f)
  BY DEF DataRecords
<1>3. f[r].address \in Nat /\ f[r].data \in Seq(Byte)
  <2>1. f[r] \in Record
    BY <1>1, <1>2
  <2> QED
    BY <2>1 DEF Record
<1>4. a \in Addresses
  BY <1>2 DEF InRange, ImageAddresses
<1>5. RecordOf(f, a) = r
  <2>1. RecordOf(f, a) \in DataRecords(f) /\ a \in Extent(f, RecordOf(f, a))
    BY <1>2 DEF RecordOf
  <2> QED
    BY <2>1, <1>2 DEF Disjoint
<1> DEFINE k == a - f[r].address
<1>6. k \in 0 .. Len(f[r].data) - 1 /\ f[r].address + k = a
  BY <1>3 DEF Extent
<1>7. mem[f[r].address + k] = f[r].data[k + 1]
  BY <1>2, <1>6 DEF StrictPasses
<1> QED
  BY <1>4, <1>5, <1>6, <1>7 DEF ImageByte

\* StrictCheckIsProof, for every set of files without overlaps that fit into
\* the flash: a strict check that passes on a complete answer has found every
\* byte of the file up to its first start segment record in the flash, however
\* many instructions the bus lost and however early the chip was addressed.
THEOREM StrictCheckProves ==
  ASSUME \A f \in Files : Disjoint(f) /\ InRange(f)
  PROVE  ProgramSpec => []StrictCheckIsProof
<1>1. CInv /\ [ProgramNext]_allVars => CInv'
  BY CheckStep
<1>2. CInv => StrictCheckIsProof
  <2> SUFFICES ASSUME CInv, stage = "passed", strict, ~readLost,
                      NEW r \in StrictRecords(file) \cap DataRecords(file),
                      NEW a \in Extent(file, r)
               PROVE  InFlash(a)
    BY DEF StrictCheckIsProof
  <2>1. file \in Files /\ StrictPasses(file, data_buffer)
    BY DEF CInv, Passes
  <2>2. a \in Addresses /\ data_buffer[a] = ImageByte(file, a)
    BY <2>1, ComparedIsImage
  <2>3. data_buffer[a] = Flat(flash)[a]
    BY <2>2 DEF CInv, Checked
  <2> QED
    BY <2>2, <2>3 DEF InFlash
<1> QED
  BY CheckInit, <1>1, <1>2, PTL DEF ProgramSpec

-----------------------------------------------------------------------------
(* The fast check *)

\* For a homogeneous file the fast check compares the image with the flash.
LEMMA FastIsImage ==
  ASSUME NEW f \in Files, Plain(f), Homogeneous(f), InRange(f), NEW mem
  PROVE  FastPasses(f, mem) <=> \A a \in ImageAddresses(f) : mem[a] = ImageByte(f, a)
<1>1. f \in Seq(Record) /\ Len(f) \in Nat /\ Len(f) >= 1 /\ f[1].address \in Nat
  BY FileType DEF Plain
<1>2. ImageAddresses(f) = 0 .. RsSize(f) - 1
  BY <1>1, HomogeneousImage
<1>3. \A a \in ImageAddresses(f) : MemCopy(f)[a] = ImageByte(f, a)
  BY <1>1, CopyIsImage
<1>4. PICK g : IsSizes(f, g) /\ RsSize(f) = g[Len(f)]
  BY <1>1, SizesExist
<1>5. CASE Len(f) = 1
  <2>1. RsSize(f) = 0
    <3>1. DOMAIN f = 1 .. 1
      BY <1>1, <1>5
    <3>2. f[1].data = << >>
      BY <1>5, <3>1 DEF Plain
    <3>3. g[1] = g[0] + Len(f[1].data) /\ g[0] = 0
      BY <1>4, <1>5 DEF IsSizes
    <3> QED
      BY <1>4, <1>5, <3>2, <3>3
  <2>2. f[1].address .. RsSize(f) - 1 = {} /\ 0 .. RsSize(f) - 1 = {}
    BY <1>1, <2>1
  <2> QED
    BY <1>2, <2>2 DEF FastPasses
<1>6. CASE Len(f) # 1
  <2>1. \E r \in 1 .. Len(f) - 1 : r = 1
    <3>1. \A n \in Nat : n >= 1 /\ n # 1 => \E r \in 1 .. n - 1 : r = 1
      OBVIOUS
    <3> QED
      BY <1>1, <1>6, <3>1
  <2>2. f[1].address = 0
    <3>1. PICK r \in 1 .. Len(f) - 1 : r = 1
      BY <2>1
    <3>2. f[r].address = g[r - 1] /\ r - 1 = 0
      BY <1>1, <1>4, <3>1, HomogeneousAddresses
    <3> QED
      BY <1>4, <3>1, <3>2 DEF IsSizes
  <2>3. FastPasses(f, mem) <=> \A a \in 0 .. RsSize(f) - 1 : mem[a] = MemCopy(f)[a - 0]
    BY <2>2 DEF FastPasses
  <2>4. \A a \in 0 .. RsSize(f) - 1 : a - 0 = a
    BY <1>1
  <2> QED
    BY <1>2, <1>3, <2>3, <2>4
<1> QED
  BY <1>5, <1>6

\* FastCheckIsProof, for every set of files that fit into the flash, without an
\* assumption on bus, chip or delays: for a homogeneous file a fast check that
\* passes on a complete answer has found the whole file in the flash, although
\* it compares from the first address up to the number of bytes and although
\* the copy it compares with has padding between the records.
THEOREM FastCheckProves ==
  ASSUME \A f \in Files : InRange(f)
  PROVE  ProgramSpec => []FastCheckIsProof
<1>1. CInv /\ [ProgramNext]_allVars => CInv'
  BY CheckStep
<1>2. CInv => FastCheckIsProof
  <2> SUFFICES ASSUME CInv, stage = "passed", ~strict, ~readLost, Homogeneous(file),
                      NEW a \in ImageAddresses(file)
               PROVE  InFlash(a)
    BY DEF FastCheckIsProof
  <2>1. /\ file \in Files /\ FastPasses(file, data_buffer)
        /\ Plain(file) /\ InRange(file) /\ file \in Seq(Record)
    BY ProgramAssumption, WriterAssumption DEF CInv, Passes
  <2>2. data_buffer[a] = ImageByte(file, a)
    BY <2>1, FastIsImage
  <2>3. a \in Addresses /\ a \in 0 .. RsSize(file) - 1
    BY <2>1, HomogeneousImage DEF InRange
  <2>4. Checked(a)
    BY <2>1, <2>3, SizeType DEF Checked
  <2>5. data_buffer[a] = Flat(flash)[a]
    BY <2>3, <2>4 DEF CInv
  <2> QED
    BY <2>2, <2>5 DEF InFlash
<1> QED
  BY CheckInit, <1>1, <1>2, PTL DEF ProgramSpec

-----------------------------------------------------------------------------
(* No false alarm *)

BlankMemory == [p \in Pages |-> Blank]

\* The writer's invariant in option a, for a writable file: it starts on a chip
\* that was erased, if the bus has lost nothing, and nothing touches the flash
\* after it.
EInv ==
  /\ Writable(file) =>
       /\ LInv
       /\ stage = "erase" => /\ pc = "record" /\ i = 1 /\ j = 0
                             /\ loaded = {} /\ buffer = Blank /\ ~busy
       /\ stage # "erase" /\ ~lost /\ ~early => TrackedOn(BlankMemory)
       /\ stage \in {"read", "check", "passed", "failed"} => pc = "done"
  /\ TInv

LEMMA EraseInit == ProgramInit => EInv
<1> SUFFICES ASSUME ProgramInit PROVE EInv
  OBVIOUS
<1>1. /\ TInv /\ stage = "erase" /\ pc = "record" /\ i = 1 /\ j = 0
      /\ loaded = {} /\ buffer = Blank /\ ~busy
  BY TypeInit DEF ProgramInit, Init
<1>2. PInv
  BY <1>1 DEF PInv, PageCoherent
<1>3. ~(i > Len(file))
  <2>1. file # << >> /\ Len(file) \in Nat /\ file \in Seq(Record)
    BY <1>1, ProgramAssumption, FileType DEF TInv, Plain
  <2> QED
    BY <1>1, <2>1
<1>4. LInv
  BY <1>1, <1>2, <1>3 DEF LInv
<1> QED
  BY <1>1, <1>4 DEF EInv

\* Where chip and writer do not move, what has been loaded stays where it is.
LEMMA TrackFrame ==
  ASSUME NEW m, TrackedOn(m), UNCHANGED <<flash, buffer, writer>>
  PROVE  TrackedOn(m)'
<1>1. UNCHANGED <<flash, buffer, file, pc, i, j, loaded>>
  BY DEF writer
<1>2. Loads' = Loads
  BY <1>1 DEF Loads, LoadedOf
<1>3. \A a \in loaded : ImageByte(file, a)' = ImageByte(file, a)
  BY <1>1
<1>4. \A p \in Pages, c \in Cells :
        Asked(file, Loads \ loaded, p, c)' = Asked(file, Loads \ loaded, p, c)
  BY <1>1, <1>2 DEF Asked
<1> QED
  BY <1>1, <1>3, <1>4 DEF TrackedOn

\* An erase that reaches the chip leaves what the writer starts from.
LEMMA EraseStep ==
  ASSUME PTInv, EInv, chip_erace
  PROVE  EInv'
<1>1. /\ stage = "erase" /\ stage' = "write"
      /\ UNCHANGED <<file, initial, pc, i, j, addr, loaded, early>>
      /\ Send(EraseChip)
  BY DEF chip_erace
<1>2. TInv'
  BY StageType DEF ProgramNext, option_a, PTInv
<1> SUFFICES ASSUME Writable(file) PROVE LInv' /\ (~lost' => TrackedOn(BlankMemory)')
  BY <1>1, <1>2 DEF EInv
<1>3. /\ LInv /\ pc = "record" /\ i = 1 /\ j = 0 /\ loaded = {} /\ buffer = Blank /\ ~busy
  BY <1>1 DEF EInv
<1>4. PInv'
  BY <1>1, <1>2, <1>3 DEF PInv, PageCoherent
<1>5. LInv'
  BY <1>1, <1>3, <1>4 DEF LInv
<1>6. ASSUME ~lost' PROVE TrackedOn(BlankMemory)'
  <2>1. EraseChip
    BY <1>1, <1>6 DEF Send
  <2>2. flash' = BlankMemory /\ buffer' = Blank
    BY <1>3, <2>1 DEF EraseChip, BlankMemory
  <2>3. Loads' = {}
    <3>1. \A r \in DataRecords(file) : LoadedOf(r) = 0 /\ file[r].address \in Nat
      BY <1>3, FileType DEF LoadedOf, DataRecords, LInv, PInv, TInv
    <3>2. Loads = {}
      BY <3>1 DEF Loads, Extent
    <3> QED
      BY <1>1, <3>2 DEF Loads, LoadedOf
  <2>4. \A p \in Pages, c \in Cells : BlankMemory[p][c] = Bits
    BY DEF BlankMemory, Blank, Erased
  <2>5. \A p \in Pages, c \in Cells : Asked(file, Loads \ loaded, p, c)' = Bits
    BY <2>3 DEF Asked
  <2> QED
    BY <1>1, <1>3, <2>2, <2>4, <2>5 DEF TrackedOn, Blank
<1> QED
  BY <1>5, <1>6

LEMMA EraseInvStep ==
  ASSUME PTInv, EInv, [ProgramNext]_allVars
  PROVE  EInv'
<1>0. TInv'
  BY StageType DEF PTInv
<1>1. CASE chip_erace
  BY <1>1, EraseStep
<1>2. CASE main_write_stream
  <2>1. /\ Program /\ [Next]_vars /\ stage = "write" /\ stage' # "erase"
        /\ stage' = IF pc' = "done" THEN "read" ELSE "write"
        /\ early' = (early \/ busy)
    BY <1>2 DEF main_write_stream, Next
  <2>2. file' = file /\ (~lost' => ~lost)
    BY <2>1, WriterFrame
  <2> SUFFICES ASSUME Writable(file)
               PROVE  LInv' /\ (~lost' /\ ~early' => TrackedOn(BlankMemory)')
    BY <1>0, <2>1, <2>2 DEF EInv
  <2>3. /\ LInv /\ Plain(file) /\ Disjoint(file) /\ PageSafe(file)
        /\ ~lost /\ ~early => TrackedOn(BlankMemory)
    BY <2>1 DEF EInv, Writable
  <2>4. LInv'
    BY <2>1, <2>3, LoadsStep
  <2>5. ASSUME ~lost', ~early' PROVE TrackedOn(BlankMemory)'
    <3>1. ~busy /\ ~early
      BY <2>1, <2>5
    <3>2. Timely
      BY <3>1 DEF Timely
    <3>3. TrackedOn(BlankMemory)
      BY <2>2, <2>3, <2>5, <3>1
    <3> QED
      BY <2>1, <2>2, <2>3, <2>5, <3>2, <3>3, LoadsStep
  <2> QED
    BY <2>4, <2>5
<1>3. CASE \/ read_flash \/ compare
           \/ (ChipReady /\ UNCHANGED check) \/ UNCHANGED allVars
  <2>1. /\ UNCHANGED <<flash, buffer, writer>> /\ [Next]_vars
        /\ ~early' => ~early
    <3>1. CASE read_flash \/ compare
      <4>1. UNCHANGED vars
        BY <3>1 DEF read_flash, compare
      <4>2. early' = (early \/ busy) \/ early' = early
        BY <3>1 DEF read_flash, compare
      <4>3. UNCHANGED <<flash, buffer, writer>> /\ [Next]_vars
        BY <4>1 DEF vars, chip
      <4>4. ~early' => ~early
        BY <4>2
      <4> QED
        BY <4>3, <4>4
    <3>2. CASE ChipReady /\ UNCHANGED check
      BY <3>2 DEF ChipReady, Ready, check, Next
    <3>3. CASE UNCHANGED allVars
      BY <3>3 DEF allVars, check, vars, chip
    <3> QED
      BY <1>3, <3>1, <3>2, <3>3
  <2>2. /\ stage' # "erase" => stage # "erase"
        /\ stage' = "erase" => stage = "erase"
        /\ stage' \in {"read", "check", "passed", "failed"} =>
             stage \in {"read", "check", "passed", "failed"}
    BY <1>3 DEF read_flash, compare, check, allVars
  <2>3. stage' = "erase" => (~busy => ~busy')
    BY <1>3 DEF read_flash, compare, ChipReady, Ready, allVars, vars, chip
  <2>4. UNCHANGED <<file, pc, i, j, loaded, lost, buffer>>
    BY <2>1 DEF writer
  <2>5. Writable(file) => LInv'
    BY <2>1, LoadsStep DEF EInv, Writable
  <2>6. TrackedOn(BlankMemory) => TrackedOn(BlankMemory)'
    BY <2>1, TrackFrame
  <2> QED
    BY <1>0, <2>1, <2>2, <2>3, <2>4, <2>5, <2>6 DEF EInv
<1> QED
  BY <1>1, <1>2, <1>3 DEF ProgramNext, option_a

\* At the end the flash holds the whole image.
LEMMA ImageInFlash ==
  ASSUME EInv, Writable(file), pc = "done", stage # "erase", ~lost, ~early,
         NEW a \in ImageAddresses(file)
  PROVE  a \in Addresses /\ Flat(flash)[a] = ImageByte(file, a)
<1>1. /\ LInv /\ TrackedOn(BlankMemory) /\ i > Len(file) /\ loaded = {}
      /\ file \in Files /\ Disjoint(file) /\ InRange(file)
  BY DEF EInv, LInv, TInv, Writable
<1>2. a \in Addresses /\ ImageAddresses(file) \subseteq Addresses
  BY <1>1 DEF InRange
<1>3. PageAt(a) \in Pages /\ CellAt(a) \in Cells
  BY <1>2, AddressType, PlaceType
<1>4. Loads = ImageAddresses(file)
  BY <1>1, AllLoaded
<1>5. flash[PageAt(a)][CellAt(a)]
        = Bits \cap Asked(file, ImageAddresses(file), PageAt(a), CellAt(a))
  <2>1. BlankMemory[PageAt(a)][CellAt(a)] = Bits
    BY <1>3 DEF BlankMemory, Blank, Erased
  <2>2. Loads \ loaded = ImageAddresses(file)
    BY <1>1, <1>4
  <2> QED
    BY <1>1, <1>3, <2>1, <2>2 DEF TrackedOn
<1>6. ImageByte(file, a) \subseteq Bits
  <2>1. PICK r \in DataRecords(file) : a \in Extent(file, r)
    BY DEF ImageAddresses
  <2>2. file[r].address \in Nat /\ file[r].data \in Seq(Byte) /\ Len(file[r].data) \in Nat
    BY <1>1, <2>1, FileType DEF DataRecords
  <2> DEFINE n == a - file[r].address
  <2>3. n \in Nat /\ n < Len(file[r].data) /\ file[r].address + n = a
    BY <1>2, <2>1, <2>2, AddressType DEF Extent
  <2> HIDE DEF n
  <2>4. ImageByte(file, a) = file[r].data[n + 1]
    BY <1>1, <2>3, ImageByteOf
  <2>5. file[r].data[n + 1] \in Byte
    BY <2>2, <2>3
  <2> QED
    BY <2>4, <2>5 DEF Byte
<1>7. \A b \in ImageAddresses(file) :
        PageAt(b) = PageAt(a) /\ CellAt(b) = CellAt(a) => b = a
  BY <1>2, PlaceInjective
<1>8. Asked(file, ImageAddresses(file), PageAt(a), CellAt(a)) = ImageByte(file, a)
  BY <1>6, <1>7 DEF Asked
<1> QED
  BY <1>2, <1>5, <1>6, <1>8 DEF Flat

\* A buffer that holds the image passes the strict check.
LEMMA ImagePassesStrict ==
  ASSUME NEW f \in Files, Plain(f), Disjoint(f), NEW mem,
         \A a \in ImageAddresses(f) : mem[a] = ImageByte(f, a)
  PROVE  StrictPasses(f, mem)
<1> SUFFICES ASSUME NEW r \in StrictRecords(f), NEW k \in 0 .. Len(f[r].data) - 1
             PROVE  mem[f[r].address + k] = f[r].data[k + 1]
  BY DEF StrictPasses
<1>1. r \in 1 .. Len(f) /\ f[r].type # "SSA" /\ Len(f[r].data) \in Nat /\ r \in DOMAIN f
  BY FileType DEF StrictRecords
<1>2. f[r].data # << >> /\ k \in Nat /\ k < Len(f[r].data)
  BY <1>1
<1>3. r \in DataRecords(f)
  BY <1>1, <1>2 DEF Plain, DataRecords
<1>4. f[r].address + k \in Extent(f, r) /\ ImageByte(f, f[r].address + k) = f[r].data[k + 1]
  BY <1>2, <1>3, ImageByteOf
<1> QED
  BY <1>3, <1>4 DEF ImageAddresses

\* NoFalseAlarm, without an assumption on the files, the flash before, the bus or
\* the delays: in a run in which nothing was lost and the program never went on
\* while the chip was busy, a writable file is not reported corrupted by the
\* strict check, nor by the fast one if it is homogeneous.
THEOREM NoAlarmWithoutLoss == ProgramSpec => []NoFalseAlarm
<1> DEFINE Inv == PTInv /\ CInv /\ EInv
<1>1. ProgramInit => Inv
  BY ProgramTypeInit, CheckInit, EraseInit
<1>2. Inv /\ [ProgramNext]_allVars => Inv'
  BY StageType, CheckStep, EraseInvStep
<1>3. Inv => NoFalseAlarm
  <2> SUFFICES ASSUME Inv, stage = "failed", ~lost, ~readLost, ~early, Writable(file),
                      strict \/ Homogeneous(file)
               PROVE  FALSE
    BY DEF NoFalseAlarm
  <2>1. /\ file \in Files /\ Plain(file) /\ Disjoint(file) /\ InRange(file)
        /\ file \in Seq(Record)
    BY WriterAssumption DEF CInv, Writable
  <2>2. pc = "done"
    BY DEF EInv
  <2>3. \A a \in ImageAddresses(file) :
          a \in Addresses /\ Flat(flash)[a] = ImageByte(file, a)
    BY <2>2, ImageInFlash
  <2>4. \A a \in ImageAddresses(file) : Checked(a)
    <3>1. CASE strict
      BY <3>1 DEF Checked
    <3>2. CASE Homogeneous(file)
      <4>1. ImageAddresses(file) = 0 .. RsSize(file) - 1 /\ RsSize(file) \in Nat
        BY <2>1, <3>2, HomogeneousImage, SizeType
      <4> QED
        BY <4>1 DEF Checked
    <3> QED
      BY <3>1, <3>2
  <2>5. \A a \in ImageAddresses(file) : data_buffer[a] = ImageByte(file, a)
    BY <2>3, <2>4 DEF CInv
  <2>6. Passes
    <3>1. CASE strict
      BY <2>1, <2>5, <3>1, ImagePassesStrict DEF Passes
    <3>2. CASE ~strict
      BY <2>1, <2>5, <3>2, FastIsImage DEF Passes
    <3> QED
      BY <3>1, <3>2
  <2> QED
    BY <2>6 DEF CInv
<1> QED
  BY <1>1, <1>2, <1>3, PTL DEF ProgramSpec
=============================================================================
