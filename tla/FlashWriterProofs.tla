-------------------------- MODULE FlashWriterProofs --------------------------
(* Theorems about FlashWriter, for every page size, number of pages, byte   *)
(* width, LENGTH and set of files, and that it implements FlashImage.       *)
EXTENDS FlashWriter, TLAPS

-----------------------------------------------------------------------------
(* Addresses, pages and cells *)

\* Every address has a place in the chip.
LEMMA PlaceType ==
  ASSUME NEW a \in Nat
  PROVE  PageAt(a) \in Pages /\ CellAt(a) \in Cells
<1>1. PageSize \in Nat \ {0} /\ NumPages \in Nat \ {0}
  BY ChipAssumption
<1>2. a \div 2 \in Nat /\ a % 2 \in {0, 1}
  OBVIOUS
<1>3. (a \div 2) % PageSize \in 0 .. PageSize - 1
  BY <1>1, <1>2
<1>4. (a \div 2) \div PageSize \in Nat
  BY <1>1, <1>2
<1>5. ((a \div 2) \div PageSize) % NumPages \in 0 .. NumPages - 1
  BY <1>1, <1>4
<1> QED
  BY <1>2, <1>3, <1>5 DEF PageAt, CellAt, Pages, Cells

\* A quotient by the words of a page is a quotient by its bytes.
LEMMA HalfQuotient ==
  ASSUME NEW a \in Nat, NEW d \in Nat \ {0}
  PROVE  (a \div 2) \div d = a \div (2 * d)
OBVIOUS

\* The next address is in the same page unless it is the first of a page.
LEMMA SamePage ==
  ASSUME NEW a \in Nat, (a + 1) % (2 * PageSize) # 0
  PROVE  PageOf(a + 1) = PageOf(a)
<1> DEFINE d == 2 * PageSize
<1>1. d \in Nat \ {0}
  BY ChipAssumption
<1>2. (a + 1) % d # 0
  OBVIOUS
<1> HIDE DEF d
<1>3. (a + 1) \div d = a \div d
  BY <1>1, <1>2
<1> QED
  BY <1>3 DEF d, PageOf

\* Addresses of one page are written to one page of the chip.
LEMMA PageOfPlace ==
  ASSUME NEW a \in Nat, NEW b \in Nat, PageOf(a) = PageOf(b)
  PROVE  PageAt(a) = PageAt(b)
<1>1. (a \div 2) \div PageSize = (b \div 2) \div PageSize
  BY HalfQuotient, ChipAssumption DEF PageOf
<1> QED
  BY <1>1 DEF PageAt

\* Within a page, two addresses share a cell only if they are equal.
LEMMA CellInjective ==
  ASSUME NEW a \in Nat, NEW b \in Nat,
         PageOf(a) = PageOf(b), CellAt(a) = CellAt(b)
  PROVE  a = b
<1> DEFINE x == a \div 2
           y == b \div 2
<1>1. PageSize \in Nat \ {0} /\ x \in Nat /\ y \in Nat
  BY ChipAssumption
<1>2. x \div PageSize = y \div PageSize
  BY HalfQuotient, ChipAssumption DEF PageOf
<1>3. x % PageSize = y % PageSize /\ a % 2 = b % 2
  BY DEF CellAt
<1>4. x = y
  <2> HIDE DEF x, y
  <2>1. /\ x = PageSize * (x \div PageSize) + (x % PageSize)
        /\ y = PageSize * (y \div PageSize) + (y % PageSize)
    BY <1>1
  <2> QED
    BY <2>1, <1>1, <1>2, <1>3
<1> QED
  BY <1>3, <1>4

-----------------------------------------------------------------------------
(* Type correctness *)

\* The files keep their type, and the current record has one.
LEMMA FileType ==
  ASSUME NEW f \in Files
  PROVE  /\ f \in Seq(Record) /\ Len(f) \in Nat /\ DOMAIN f = 1 .. Len(f)
         /\ \A r \in 1 .. Len(f) : /\ f[r] \in Record
                                   /\ f[r].address \in Nat
                                   /\ f[r].data \in Seq(Byte)
                                   /\ Len(f[r].data) \in Nat
<1>1. f \in Seq(Record)
  BY WriterAssumption
<1>2. Len(f) \in Nat /\ DOMAIN f = 1 .. Len(f) /\ \A r \in 1 .. Len(f) : f[r] \in Record
  BY <1>1
<1>3. \A x \in Record : x.address \in Nat /\ x.data \in Seq(Byte)
  BY DEF Record
<1> QED
  BY <1>1, <1>2, <1>3

\* The two instructions of the writer keep the chip well typed.
LEMMA LoadPageType ==
  ASSUME ChipTypeOK, NEW c \in Cells, NEW b \in Byte, LoadPage(c, b)
  PROVE  ChipTypeOK'
<1>1. CASE busy /\ UNCHANGED buffer
  BY <1>1 DEF ChipTypeOK, LoadPage
<1>2. CASE \E new \in {b, buffer[c] \cap b} : buffer' = [buffer EXCEPT ![c] = new]
  <2>1. b \in Byte /\ buffer[c] \cap b \in Byte
    BY DEF ChipTypeOK, PageContent, Byte
  <2>2. PICK new \in Byte : buffer' = [buffer EXCEPT ![c] = new]
    BY <1>2, <2>1
  <2>3. buffer' \in PageContent
    BY <2>2 DEF ChipTypeOK, PageContent
  <2> QED
    BY <2>3 DEF ChipTypeOK, LoadPage
<1> QED
  BY <1>1, <1>2 DEF LoadPage

LEMMA WritePageType ==
  ASSUME ChipTypeOK, NEW p \in Pages, WritePage(p)
  PROVE  ChipTypeOK'
<1>1. CASE busy
  BY <1>1 DEF ChipTypeOK, WritePage, chip
<1>2. CASE ~busy
  <2>1. [c \in Cells |-> flash[p][c] \cap buffer[c]] \in PageContent
    BY DEF ChipTypeOK, PageContent, Byte
  <2>2. flash' = [flash EXCEPT ![p] = [c \in Cells |-> flash[p][c] \cap buffer[c]]]
    BY <1>2 DEF ChipTypeOK, WritePage
  <2>3. Blank \in PageContent
    BY DEF Blank, PageContent, Erased, Byte
  <2> QED
    BY <1>2, <2>1, <2>2, <2>3 DEF ChipTypeOK, WritePage
<1> QED
  BY <1>1, <1>2

\* TypeOK with what it rests on: the file is one of Files.
TInv == TypeOK /\ file \in Files

\* write_page keeps the chip and the program's own variables well typed.
LEMMA WritePageCall ==
  ASSUME TInv, write_page
  PROVE  ChipTypeOK' /\ loaded' = {} /\ lost' \in BOOLEAN
<1>1. PageAt(addr) \in Pages
  BY PlaceType DEF TInv, TypeOK
<1>2. CASE WritePage(PageAt(addr)) /\ UNCHANGED lost
  BY <1>1, <1>2, WritePageType DEF TInv, TypeOK, write_page
<1>3. CASE UNCHANGED chip /\ lost' = TRUE
  BY <1>3 DEF TInv, TypeOK, ChipTypeOK, chip, write_page
<1> QED
  BY <1>2, <1>3 DEF write_page, Send

LEMMA TypeInit == Init => TInv
<1> SUFFICES ASSUME Init PROVE TInv
  OBVIOUS
<1>1. file \in Seq(Record) /\ Len(file) \in Nat
  BY FileType DEF Init
<1>2. initial \in [Pages -> PageContent] /\ flash \in [Pages -> PageContent]
  BY WriterAssumption DEF Init
<1>3. Blank \in PageContent
  BY DEF Blank, PageContent, Erased, Byte
<1>4. \A r \in DOMAIN file : 0 <= Len(file[r].data)
  BY FileType DEF Init
<1>5. ChipTypeOK
  BY <1>2, <1>3 DEF Init, ChipTypeOK
<1>6. i \in 1 .. Len(file) + 1 /\ (pc = "record" /\ i \in DOMAIN file => j <= Len(file[i].data))
  BY <1>1, <1>4 DEF Init
<1> QED
  BY <1>1, <1>2, <1>5, <1>6 DEF Init, TInv, TypeOK

LEMMA TypeStep == TInv /\ [Next]_vars => TInv'
<1> SUFFICES ASSUME TInv, [Next]_vars PROVE TInv'
  OBVIOUS
<1> USE DEF TInv
<1>t. /\ Len(file) \in Nat /\ DOMAIN file = 1 .. Len(file)
      /\ \A r \in 1 .. Len(file) : /\ file[r].address \in Nat
                                   /\ file[r].data \in Seq(Byte)
                                   /\ Len(file[r].data) \in Nat
  BY FileType
<1>1. CASE LoadByte
  <2>1. i \in 1 .. Len(file) /\ j < Len(file[i].data)
    BY <1>1, <1>t DEF LoadByte, MoreData, TypeOK
  <2>2. addr' \in Nat
    BY <1>1, <1>t, <2>1 DEF LoadByte, TypeOK
  <2>3. file[i].data[j + 1] \in Byte
    BY <1>t, <2>1 DEF TypeOK
  <2>4. ChipTypeOK' /\ lost' \in BOOLEAN
    <3>1. CASE LoadPage(CellAt(addr'), file[i].data[j + 1]) /\ UNCHANGED lost
      <4>1. CellAt(addr') \in Cells
        BY <2>2, PlaceType
      <4> QED
        BY <3>1, <4>1, <2>3, LoadPageType DEF TypeOK
    <3>2. CASE UNCHANGED chip /\ lost' = TRUE
      BY <3>2 DEF TypeOK, ChipTypeOK, chip
    <3> QED
      BY <1>1, <3>1, <3>2 DEF LoadByte, Send
  <2> QED
    BY <1>1, <1>t, <2>1, <2>2, <2>4 DEF LoadByte, TypeOK
<1>2. CASE TestGap
  <2>1. ChipTypeOK' /\ loaded' \subseteq Nat /\ lost' \in BOOLEAN
    BY <1>2, WritePageCall DEF TestGap, TypeOK, ChipTypeOK, chip
  <2> QED
    BY <1>2, <2>1 DEF TestGap, TypeOK
<1>3. CASE TestPageEnd
  <2>1. ChipTypeOK' /\ loaded' \subseteq Nat /\ lost' \in BOOLEAN
    BY <1>3, WritePageCall DEF TestPageEnd, TypeOK, ChipTypeOK, chip
  <2>2. j' \in Nat /\ j' <= Len(file[i].data)
    BY <1>3, <1>t DEF TestPageEnd, TypeOK
  <2> QED
    BY <1>3, <2>1, <2>2 DEF TestPageEnd, TypeOK
<1>4. CASE EndRecord
  <2>1. ChipTypeOK' /\ loaded' \subseteq Nat /\ lost' \in BOOLEAN
    BY <1>4, WritePageCall DEF EndRecord, TypeOK, ChipTypeOK, chip
  <2>2. i' \in 1 .. Len(file) + 1
    BY <1>4, <1>t DEF EndRecord, TypeOK
  <2>3. i' \in DOMAIN file => 0 <= Len(file[i'].data)
    BY <1>t
  <2> QED
    BY <1>4, <2>1, <2>2, <2>3 DEF EndRecord, TypeOK
<1>5. CASE Finish
  BY <1>5 DEF Finish, TypeOK, ChipTypeOK, chip
<1>6. CASE ChipReady
  BY <1>6 DEF ChipReady, Ready, writer, TypeOK, ChipTypeOK
<1>7. CASE UNCHANGED vars
  BY <1>7 DEF vars, chip, writer, TypeOK, ChipTypeOK
<1> QED
  BY <1>1, <1>2, <1>3, <1>4, <1>5, <1>6, <1>7 DEF Next, Program

\* main_write_stream and the chip keep their types, for every file, also when
\* the bus loses instructions and the chip is slower than the delay.
THEOREM TypeCorrect == Spec => []TypeOK
<1>1. TInv => TypeOK
  BY DEF TInv
<1> QED
  BY <1>1, TypeInit, TypeStep, PTL DEF Spec

-----------------------------------------------------------------------------
(* Page coherence *)

\* Record s still has data to load, the byte at address UpcomingAt(s) first.
Unloaded(s) ==
  s \in i .. Len(file) /\ HasData(file, s) /\ (s = i => j < Len(file[s].data))
UpcomingAt(s) == file[s].address + (IF s = i THEN j ELSE 0)

\* The byte that will be loaded next is in record s.
Upcoming(s) == Unloaded(s) /\ \A q \in i .. s - 1 : ~Unloaded(q)

\* The strengthening of PageCoherent: with bytes in the buffer, the byte that is
\* loaded next belongs to their page.  A page that is left without a write is
\* therefore never entered again: `page' remembers the outcome of the gap test,
\* which PageSafe compares with the record that really follows.
PInv ==
  /\ TInv
  /\ PageCoherent
  /\ pc = "record" /\ loaded # {} =>
       \A s \in DOMAIN file : Upcoming(s) => PageOf(UpcomingAt(s)) = PageOf(addr)
  /\ pc \in {"gap", "page"} =>
       /\ HasData(file, i)
       /\ addr = file[i].address + j
  /\ pc = "page" /\ loaded # {} /\ j = Len(file[i].data) - 1 /\ i < Len(file) =>
       ~(file[i + 1].address > file[i].address + LENGTH)

\* In a plain file only data records have data to load.
LEMMA OnlyData ==
  ASSUME NEW f \in Files, Plain(f), NEW r \in 1 .. Len(f),
         f[r].type # "SSA", NEW n \in Nat, n < Len(f[r].data)
  PROVE  HasData(f, r)
<1>1. f[r].data # << >>
  BY FileType
<1>2. f[r].type \in {"DATA", "SSA", "EOF"} /\ (f[r].type = "EOF" => f[r].data = << >>)
  BY FileType DEF Plain
<1> QED
  BY <1>1, <1>2 DEF HasData

LEMMA CoherentStep ==
  ASSUME Plain(file), PageSafe(file), PInv, [Next]_vars
  PROVE  PInv'
<1>a. TInv /\ TypeOK /\ file \in Files /\ Plain(file) /\ PageSafe(file) /\ PageCoherent
  BY DEF PInv, TInv
<1>b. TInv'
  BY <1>a, TypeStep
<1>t. /\ Len(file) \in Nat /\ DOMAIN file = 1 .. Len(file)
      /\ \A r \in 1 .. Len(file) : /\ file[r].address \in Nat
                                   /\ file[r].data \in Seq(Byte)
                                   /\ Len(file[r].data) \in Nat
  BY <1>a, FileType
<1>1. CASE LoadByte
  <2>1. i \in 1 .. Len(file) /\ j < Len(file[i].data) /\ HasData(file, i)
    BY <1>1, <1>a, <1>t, OnlyData DEF LoadByte, MoreData, TypeOK
  <2>2. addr' = file[i].address + j /\ file' = file /\ i' = i /\ j' = j
    BY <1>1 DEF LoadByte
  <2>3. \A a \in loaded : PageOf(a) = PageOf(addr')
    <3>1. Upcoming(i) /\ UpcomingAt(i) = addr'
      BY <2>1, <2>2, <1>a DEF Upcoming, Unloaded, UpcomingAt, TypeOK
    <3> QED
      BY <3>1, <2>1, <1>1, <1>a, <1>t DEF PInv, PageCoherent, LoadByte
  <2>4. PageCoherent'
    BY <1>1, <2>3 DEF PageCoherent, LoadByte
  <2> QED
    BY <1>1, <1>b, <2>1, <2>2, <2>4 DEF LoadByte, PInv, HasData
<1>2. CASE TestGap
  <2>1. /\ pc = "gap" /\ pc' = "page"
        /\ UNCHANGED <<file, i, j, addr>>
    BY <1>2 DEF TestGap
  <2>2. loaded' = {} \/ (loaded' = loaded /\ FALSE \in GapTests)
    BY <1>2 DEF TestGap, write_page
  <2>3. PageCoherent'
    BY <1>a, <2>1, <2>2 DEF PageCoherent
  <2>4. loaded' # {} /\ j = Len(file[i].data) - 1 /\ i < Len(file) =>
          ~(file[i + 1].address > file[i].address + LENGTH)
    <3> SUFFICES ASSUME loaded' # {}, j = Len(file[i].data) - 1, i < Len(file)
                 PROVE  ~(file[i + 1].address > file[i].address + LENGTH)
      OBVIOUS
    <3>0. i \in Nat /\ Len(file) \in Nat
      BY <1>a, <1>t DEF TypeOK
    <3>1. i # Len(file)
      BY <3>0
    <3>2. FALSE \in {file[i + 1].address > file[i].address + LENGTH}
      BY <2>2, <3>1 DEF GapTests
    <3> QED
      BY <3>2, Zenon
  <2> QED
    BY <1>b, <2>1, <2>3, <2>4 DEF PInv, HasData
<1>3. CASE TestPageEnd
  <2>1. /\ pc = "page" /\ pc' = "record" /\ j' = j + 1
        /\ UNCHANGED <<file, i, addr>>
    BY <1>3 DEF TestPageEnd
  <2>2. loaded' = {} \/ (loaded' = loaded /\ ~PageEnd)
    BY <1>3 DEF TestPageEnd, write_page
  <2>3. PageCoherent'
    BY <1>a, <2>1, <2>2 DEF PageCoherent
  <2>4. ASSUME loaded' # {}, NEW s \in DOMAIN file, Upcoming(s)'
        PROVE  PageOf(UpcomingAt(s)') = PageOf(addr)
    <3>1. loaded # {} /\ (addr + 1) % (2 * PageSize) # 0
      BY <2>2, <2>4, ChipAssumption DEF PageEnd
    <3>2. addr \in Nat /\ addr = file[i].address + j /\ HasData(file, i)
          /\ i \in 1 .. Len(file) /\ j \in Nat /\ j < Len(file[i].data)
      BY <2>1, <1>a, <1>t DEF PInv, TypeOK
    <3>3. PageOf(addr + 1) = PageOf(addr)
      BY <3>1, <3>2, SamePage
    <3>4. CASE s = i
      <4>1. UpcomingAt(s)' = addr + 1
        BY <3>4, <2>1, <3>2, <1>t DEF UpcomingAt
      <4> QED
        BY <4>1, <3>3
    <3>5. CASE s # i
      <4>1. s \in i + 1 .. Len(file) /\ HasData(file, s)
        BY <2>1, <2>4, <3>2, <3>5, <1>t DEF Upcoming, Unloaded, HasData
      <4>2. \A q \in i .. s - 1 :
              ~(HasData(file, q) /\ (q = i => j + 1 < Len(file[q].data)))
        BY <2>1, <2>4, <3>2, <4>1, <1>t DEF Upcoming, Unloaded, HasData
      <4>3. j = Len(file[i].data) - 1
        <5>1. i \in i .. s - 1
          BY <4>1, <3>2
        <5> QED
          BY <5>1, <4>2, <3>2, <1>t
      <4>4. Follows(file, i, s)
        <5>1. \A q \in i + 1 .. s - 1 : ~HasData(file, q)
          BY <4>1, <4>2, <3>2
        <5> QED
          BY <5>1, <4>1, <3>2 DEF Follows
      <4>5. addr = LastOf(file, i) /\ UpcomingAt(s)' = StartOf(file, s)
        BY <4>3, <3>2, <3>5, <2>1, <1>t DEF LastOf, StartOf, UpcomingAt
      <4>6. ~(StartOf(file, i + 1) > StartOf(file, i) + LENGTH)
        BY <4>1, <4>3, <3>1, <3>2, <2>1 DEF PInv, StartOf
      <4> QED
        BY <4>4, <4>5, <4>6, <3>1, <3>2, <1>a, <1>t DEF PageSafe
    <3> QED
      BY <3>4, <3>5
  <2> QED
    BY <1>b, <2>1, <2>3, <2>4 DEF PInv
<1>4. CASE EndRecord
  <2>1. /\ pc = "record" /\ pc' = "record" /\ i' = i + 1 /\ j' = 0
        /\ i <= Len(file) /\ ~MoreData
        /\ UNCHANGED <<file, addr>>
    BY <1>4 DEF EndRecord
  <2>2. loaded' = {} \/ loaded' = loaded
    BY <1>4 DEF EndRecord, write_page
  <2>3. PageCoherent'
    BY <1>a, <2>1, <2>2 DEF PageCoherent
  <2>4. ASSUME loaded' # {}, NEW s \in DOMAIN file, Upcoming(s)'
        PROVE  PageOf(UpcomingAt(s)') = PageOf(addr)
    <3>1. i \in 1 .. Len(file) /\ j \in Nat
      BY <2>1, <1>a, <1>t DEF TypeOK
    <3>2. s \in i + 1 .. Len(file) /\ HasData(file, s)
      BY <2>1, <2>4, <3>1, <1>t DEF Upcoming, Unloaded, HasData
    <3>3. ~Unloaded(i)
      BY <2>1, <3>1 DEF MoreData, Unloaded, HasData
    <3>4. \A q \in i + 1 .. s - 1 : ~Unloaded(q)
      <4> SUFFICES ASSUME NEW q \in i + 1 .. s - 1, Unloaded(q) PROVE FALSE
        OBVIOUS
      <4>1. Len(file[q].data) > 0
        BY <3>1, <3>2, <1>t DEF Unloaded, HasData
      <4>2. Unloaded(q)'
        BY <4>1, <2>1, <3>1, <3>2, <1>t DEF Unloaded, HasData
      <4> QED
        BY <4>2, <2>1, <2>4, <3>1, <3>2 DEF Upcoming
    <3>5. Upcoming(s)
      BY <3>1, <3>2, <3>3, <3>4 DEF Upcoming, Unloaded
    <3>6. UpcomingAt(s)' = UpcomingAt(s)
      BY <2>1, <3>1, <3>2, <1>t DEF UpcomingAt
    <3> QED
      BY <3>5, <3>6, <2>1, <2>2, <2>4 DEF PInv
  <2> QED
    BY <1>b, <2>1, <2>3, <2>4 DEF PInv
<1>5. CASE Finish
  BY <1>5, <1>b DEF Finish, PInv, PageCoherent
<1>6. CASE UNCHANGED writer
  <2>1. UNCHANGED <<file, pc, i, j, addr, loaded>>
    BY <1>6 DEF writer
  <2> QED
    BY <2>1, <1>b DEF PInv, PageCoherent, Upcoming, Unloaded, UpcomingAt, HasData
<1> QED
  BY <1>1, <1>2, <1>3, <1>4, <1>5, <1>6 DEF Next, Program, ChipReady, vars

\* For every file in which no data goes on in another page unnoticed, the page
\* buffer never holds bytes of two pages, whatever the bus loses and however
\* slow the chip is: write_page and its tests depend on the file alone.
THEOREM PageCoherence ==
  ASSUME \A f \in Files : Plain(f) /\ PageSafe(f)
  PROVE  Spec => []PageCoherent
<1>1. Init => PInv
  BY TypeInit DEF Init, PInv, PageCoherent
<1>2. PInv /\ [Next]_vars => PInv'
  BY CoherentStep DEF PInv, TInv
<1>3. PInv => PageCoherent
  BY DEF PInv
<1> QED
  BY <1>1, <1>2, <1>3, PTL DEF Spec

\* Files in ascending order, with nothing between their data, are page safe for every
\* page size if the record before each gap has LENGTH bytes or more: this is what the
\* gap test needs.
THEOREM StandardFilesAreSafe ==
  ASSUME NEW f \in Files, Standard(f)
  PROVE  PageSafe(f)
<1> SUFFICES ASSUME NEW r \in DOMAIN f, NEW s \in DOMAIN f, Follows(f, r, s)
             PROVE  \/ PageOf(StartOf(f, s)) = PageOf(LastOf(f, r))
                    \/ (LastOf(f, r) + 1) % (2 * PageSize) = 0
                    \/ StartOf(f, r + 1) > StartOf(f, r) + LENGTH
  BY DEF PageSafe
<1>1. f[r].address \in Nat /\ Len(f[r].data) \in Nat /\ f[s].address \in Nat
      /\ f[r].data \in Seq(Byte) /\ f[r].data # << >>
  BY FileType DEF Follows, HasData
<1>2. LastOf(f, r) \in Nat
  <2>1. Len(f[r].data) > 0
    BY <1>1
  <2> QED
    BY <1>1, <2>1 DEF LastOf
<1>3. s = r + 1
  BY DEF Standard
<1>4. CASE StartOf(f, s) = LastOf(f, r) + 1
  BY <1>2, <1>4, SamePage
<1>5. CASE StartOf(f, s) > LastOf(f, r) + 1 /\ Len(f[r].data) >= LENGTH
  <2> DEFINE p == f[r].address
             l == Len(f[r].data)
             q == f[s].address
  <2>1. p \in Nat /\ l \in Nat /\ q \in Nat /\ LENGTH \in Nat
    BY <1>1, WriterAssumption
  <2>2. q > p + l - 1 + 1 /\ l >= LENGTH
    BY <1>5 DEF StartOf, LastOf
  <2> HIDE DEF p, l, q
  <2>3. q > p + LENGTH
    BY <2>1, <2>2
  <2>4. StartOf(f, r + 1) = q /\ StartOf(f, r) = p
    BY <1>3 DEF StartOf, p, q
  <2> QED
    BY <2>3, <2>4
<1> QED
  BY <1>4, <1>5 DEF Standard

-----------------------------------------------------------------------------
(* The content of the flash *)

\* The bytes of record r that have been loaded so far.
LoadedOf(r) ==
  IF r < i THEN Len(file[r].data)
  ELSE IF r > i THEN 0
  ELSE j + (IF pc \in {"gap", "page"} THEN 1 ELSE 0)

\* The addresses whose byte has been loaded.
Loads ==
  {a \in Nat : \E r \in DataRecords(file) :
     a \in Extent(file, r) /\ a - file[r].address < LoadedOf(r)}

\* The bits that the bytes of file f at the addresses A leave in cell c of page p.
Asked(f, A, p, c) ==
  {b \in Bits : \A a \in A : PageAt(a) = p /\ CellAt(a) = c => b \in ImageByte(f, a)}

\* A byte of the file that has been loaded is either in the buffer, in its own
\* cell, or programmed at its address, and nothing else is in the buffer or has
\* been cleared in a flash that held m.
TrackedOn(m) ==
  /\ \A a \in loaded : buffer[CellAt(a)] = ImageByte(file, a)
  /\ \A c \in Cells : (\A a \in loaded : CellAt(a) # c) => buffer[c] = Erased
  /\ \A p \in Pages, c \in Cells :
       flash[p][c] = m[p][c] \cap Asked(file, Loads \ loaded, p, c)

Tracked == TrackedOn(initial)

\* What holds whatever is lost: the loaded addresses are those of loaded bytes,
\* and the EOF record empties the buffer.
LInv ==
  /\ PInv
  /\ loaded \subseteq Loads
  /\ i > Len(file) => loaded = {}
  /\ pc = "done" => i > Len(file)

WInv ==
  /\ LInv
  /\ ~lost => Tracked

\* With no address used twice, a byte of the image comes from one record.
LEMMA ImageByteOf ==
  ASSUME NEW f \in Files, Disjoint(f), NEW r \in DataRecords(f),
         NEW n \in Nat, n < Len(f[r].data)
  PROVE  /\ f[r].address + n \in Extent(f, r)
         /\ ImageByte(f, f[r].address + n) = f[r].data[n + 1]
         /\ \A s \in DataRecords(f) : f[r].address + n \in Extent(f, s) => s = r
<1> DEFINE a == f[r].address + n
<1>1. r \in 1 .. Len(f) /\ f[r].address \in Nat /\ Len(f[r].data) \in Nat
  BY FileType DEF DataRecords
<1>2. a \in Extent(f, r)
  BY <1>1 DEF Extent
<1>3. \A s \in DataRecords(f) : a \in Extent(f, s) => s = r
  BY <1>2 DEF Disjoint
<1>4. RecordOf(f, a) = r
  BY <1>2, <1>3 DEF RecordOf
<1>5. (a - f[r].address) + 1 = n + 1
  BY <1>1
<1> QED
  BY <1>2, <1>3, <1>4, <1>5 DEF ImageByte

\* A write_page that reaches the chip programs what is in the buffer, each byte
\* at its address.
LEMMA WritePageTracks ==
  ASSUME NEW m, LInv, TrackedOn(m), ~lost, write_page, ~lost', ~busy,
         UNCHANGED file, Loads' = Loads
  PROVE  TrackedOn(m)'
<1>1. /\ ~busy /\ WritePage(PageAt(addr)) /\ loaded' = {}
      /\ addr \in Nat /\ loaded \subseteq Nat /\ ChipTypeOK /\ PageCoherent
  BY DEF write_page, Send, LInv, PInv, TInv, TypeOK
<1>2. PageAt(addr) \in Pages
  BY <1>1, PlaceType
<1>3. /\ flash' = [flash EXCEPT ![PageAt(addr)] =
                     [c \in Cells |-> flash[PageAt(addr)][c] \cap buffer[c]]]
      /\ buffer' = Blank
  BY <1>1 DEF WritePage, ChipTypeOK
<1>4. \A c \in Cells : buffer'[c] = Erased
  BY <1>3 DEF Blank
<1>5. \A a \in loaded : a \in Loads /\ PageAt(a) = PageAt(addr)
  BY <1>1, PageOfPlace DEF LInv, PageCoherent
<1>6. ASSUME NEW p \in Pages, NEW c \in Cells
      PROVE  flash'[p][c] = m[p][c] \cap Asked(file, Loads, p, c)
  <2>1. flash[p][c] = m[p][c] \cap Asked(file, Loads \ loaded, p, c)
    BY <1>1 DEF TrackedOn
  <2>2. CASE p # PageAt(addr)
    <3>1. flash'[p][c] = flash[p][c]
      BY <2>2, <1>3, <1>1 DEF ChipTypeOK
    <3>2. Asked(file, Loads \ loaded, p, c) = Asked(file, Loads, p, c)
      BY <2>2, <1>5 DEF Asked
    <3> QED
      BY <3>1, <3>2, <2>1
  <2>3. CASE p = PageAt(addr)
    <3>1. flash'[p][c] = flash[p][c] \cap buffer[c]
      BY <2>3, <1>2, <1>3, <1>1 DEF ChipTypeOK
    <3>2. CASE \A a \in loaded : CellAt(a) # c
      <4>1. buffer[c] = Bits
        BY <3>2, <1>1 DEF TrackedOn, Erased
      <4>2. Asked(file, Loads \ loaded, p, c) = Asked(file, Loads, p, c)
        BY <3>2 DEF Asked
      <4>3. Asked(file, Loads, p, c) \subseteq Bits
        BY DEF Asked
      <4> QED
        BY <4>1, <4>2, <4>3, <3>1, <2>1
    <3>3. CASE \E a \in loaded : CellAt(a) = c
      <4>1. PICK a \in loaded : CellAt(a) = c
        BY <3>3
      <4>2. /\ a \in Loads /\ PageAt(a) = p
            /\ \A x \in loaded : CellAt(x) = c => ImageByte(file, x) = buffer[c]
        BY <4>1, <1>1, <1>5, <2>3 DEF TrackedOn
      <4>3. buffer[c] \subseteq Bits
        BY <1>1 DEF ChipTypeOK, PageContent, Byte
      <4>4. Asked(file, Loads, p, c) = Asked(file, Loads \ loaded, p, c) \cap buffer[c]
        BY <4>1, <4>2, <4>3 DEF Asked
      <4> QED
        BY <4>4, <3>1, <2>1
    <3> QED
      BY <3>2, <3>3
  <2> QED
    BY <2>2, <2>3
<1>7. \A p \in Pages, c \in Cells :
        flash'[p][c] = m[p][c] \cap Asked(file', Loads' \ loaded', p, c)
  BY <1>1, <1>6
<1> QED
  BY <1>1, <1>4, <1>7 DEF TrackedOn

\* A byte loaded into the chip enters the buffer in a cell of its own.
LEMMA LoadTracks ==
  ASSUME NEW m, LInv, TrackedOn(m), PInv', Disjoint(file), ~lost, ~lost', ~busy, LoadByte,
         HasData(file, i), i \in 1 .. Len(file), j < Len(file[i].data),
         addr' \notin Loads, Loads' = Loads \cup {addr'}
  PROVE  TrackedOn(m)'
<1> DEFINE c0 == CellAt(addr')
           b0 == file[i].data[j + 1]
<1>1. /\ ~busy /\ addr' = file[i].address + j /\ loaded' = loaded \cup {addr'}
      /\ UNCHANGED file
      /\ loaded \subseteq Nat /\ j \in Nat /\ ChipTypeOK
      /\ loaded \subseteq Loads /\ addr' \in Nat
    BY DEF LoadByte, LInv, PInv, TInv, TypeOK
<1>2. LoadPage(c0, b0)
  BY DEF LoadByte, Send
<1>3. c0 \in Cells
  BY <1>1, PlaceType
<1>4. ImageByte(file, addr') = b0 /\ b0 \in Byte
  <2>1. i \in DataRecords(file) /\ file \in Files
    BY DEF DataRecords, HasData, LInv, PInv, TInv
  <2>2. b0 \in Byte
    BY <2>1, <1>1, FileType
  <2> QED
    BY <2>1, <2>2, <1>1, ImageByteOf
<1>5. \A a \in loaded : CellAt(a) # c0
  <2>1. PageCoherent'
    BY DEF PInv
  <2>2. \A a \in loaded : PageOf(a) = PageOf(addr')
    BY <2>1, <1>1 DEF PageCoherent
  <2> QED
    BY <2>2, <1>1, CellInjective
<1>6. buffer' = [buffer EXCEPT ![c0] = b0] /\ UNCHANGED flash
  <2>1. PICK new \in {b0, buffer[c0] \cap b0} : buffer' = [buffer EXCEPT ![c0] = new]
    BY <1>1, <1>2 DEF LoadPage
  <2>2. buffer[c0] = Bits /\ b0 \subseteq Bits
    BY <1>1, <1>3, <1>4, <1>5 DEF TrackedOn, Erased, Byte
  <2>3. new = b0
    BY <2>1, <2>2
  <2> QED
    BY <2>1, <2>3, <1>2 DEF LoadPage
<1> HIDE DEF c0, b0
<1>7. \A a \in loaded' : buffer'[CellAt(a)] = ImageByte(file', a)
  <2>1. buffer'[c0] = b0 /\ \A c \in Cells : c # c0 => buffer'[c] = buffer[c]
    BY <1>1, <1>3, <1>6 DEF ChipTypeOK, PageContent
  <2>2. \A a \in loaded : CellAt(a) \in Cells
    BY <1>1, PlaceType
  <2>3. \A a \in loaded : buffer'[CellAt(a)] = ImageByte(file, a)
    BY <2>1, <2>2, <1>1, <1>5 DEF TrackedOn
  <2>4. buffer'[CellAt(addr')] = ImageByte(file, addr')
    BY <2>1, <1>4 DEF c0
  <2> QED
    BY <2>3, <2>4, <1>1
<1>8. \A c \in Cells : (\A a \in loaded' : CellAt(a) # c) => buffer'[c] = Erased
  <2> SUFFICES ASSUME NEW c \in Cells, \A a \in loaded' : CellAt(a) # c
               PROVE  buffer'[c] = Erased
    OBVIOUS
  <2>1. c # c0 /\ \A a \in loaded : CellAt(a) # c
    BY <1>1 DEF c0
  <2> QED
    BY <2>1, <1>1, <1>3, <1>6 DEF TrackedOn, ChipTypeOK, PageContent
<1>9. Loads' \ loaded' = Loads \ loaded
  BY <1>1
<1>10. \A p \in Pages, c \in Cells :
         flash'[p][c] = m[p][c] \cap Asked(file', Loads' \ loaded', p, c)
  BY <1>1, <1>6, <1>9 DEF TrackedOn
<1> QED
  BY <1>7, <1>8, <1>10 DEF TrackedOn

\* The tests at the end of a byte and of a record: write_page is called or not.
LEMMA WriteOrNot ==
  ASSUME LInv, PInv', UNCHANGED file, Loads' = Loads,
         write_page \/ UNCHANGED <<chip, loaded, lost>>,
         i' > Len(file) => loaded' = {},
         pc' # "done"
  PROVE  LInv'
<1>1. loaded' \in {{}, loaded}
  BY DEF write_page
<1> QED
  BY <1>1 DEF LInv

\* The two facts above, for a test that calls write_page or does not.
LEMMA WriteOrNotTracks ==
  ASSUME NEW m, LInv, TrackedOn(m), ~lost, ~lost', write_page => ~busy,
         UNCHANGED file, Loads' = Loads,
         write_page \/ UNCHANGED <<chip, loaded, lost>>
  PROVE  TrackedOn(m)'
<1>1. CASE write_page
  BY <1>1, WritePageTracks
<1>2. CASE UNCHANGED <<chip, loaded, lost>>
  BY <1>2 DEF TrackedOn, chip
<1> QED
  BY <1>1, <1>2

\* No instruction is sent to a busy chip.
Timely == LoadByte \/ write_page => ~busy

LEMMA LoadsStep ==
  ASSUME NEW m, Plain(file), Disjoint(file), PageSafe(file), LInv, [Next]_vars
  PROVE  LInv' /\ (TrackedOn(m) /\ ~lost /\ ~lost' /\ Timely => TrackedOn(m)')
<1>a. /\ PInv /\ TInv /\ TypeOK /\ file \in Files /\ loaded \subseteq Loads
  BY DEF LInv, PInv, TInv
<1>b. PInv'
  BY <1>a, CoherentStep
<1>t. /\ Len(file) \in Nat /\ DOMAIN file = 1 .. Len(file)
      /\ \A r \in 1 .. Len(file) : /\ file[r].address \in Nat
                                   /\ file[r].data \in Seq(Byte)
                                   /\ Len(file[r].data) \in Nat
      /\ i \in 1 .. Len(file) + 1 /\ j \in Nat
  BY <1>a, FileType DEF TypeOK
<1>1. CASE LoadByte
  <2>1. /\ pc = "record" /\ pc' = "gap" /\ UNCHANGED <<file, i, j>>
        /\ addr' = file[i].address + j /\ loaded' = loaded \cup {addr'}
        /\ i \in 1 .. Len(file) /\ j < Len(file[i].data)
    BY <1>1, <1>t DEF LoadByte, MoreData
  <2>2. HasData(file, i)
    BY <1>1, <2>1, <1>a, <1>t, OnlyData DEF LoadByte, MoreData
  <2>3. i \in DataRecords(file) /\ addr' \in Extent(file, i)
        /\ \A s \in DataRecords(file) : addr' \in Extent(file, s) => s = i
    <3>1. i \in DataRecords(file)
      BY <2>1, <2>2, <1>t DEF DataRecords, HasData
    <3> QED
      BY <3>1, <2>1, <1>a, <1>t, ImageByteOf
  <2>4. \A r \in DataRecords(file) :
          LoadedOf(r)' = IF r = i THEN LoadedOf(r) + 1 ELSE LoadedOf(r)
    BY <2>1, <1>t DEF LoadedOf, DataRecords
  <2>5. LoadedOf(i) = j
    BY <2>1, <1>t DEF LoadedOf
  <2>6. addr' \notin Loads
    BY <2>1, <2>3, <2>5, <1>t DEF Loads
  <2>7. Loads' = Loads \cup {addr'}
    <3>1. Loads' = {a \in Nat : \E r \in DataRecords(file) :
                      a \in Extent(file, r) /\ a - file[r].address < LoadedOf(r)'}
      BY <2>1 DEF Loads, DataRecords, Extent
    <3>2. \A a \in Nat, r \in DataRecords(file) :
            a \in Extent(file, r) =>
              (a - file[r].address < LoadedOf(r)' <=>
                 a - file[r].address < LoadedOf(r) \/ (r = i /\ a = addr'))
      <4> SUFFICES ASSUME NEW a \in Nat, NEW r \in DataRecords(file)
                   PROVE  (a - file[r].address < LoadedOf(r)' <=>
                             a - file[r].address < LoadedOf(r) \/ (r = i /\ a = addr'))
        OBVIOUS
      <4>1. r \in 1 .. Len(file) /\ file[r].address \in Nat
        BY <1>t DEF DataRecords
      <4>2. CASE r = i
        BY <4>1, <4>2, <2>1, <2>4, <2>5, <1>t
      <4>3. CASE r # i
        BY <4>3, <2>4
      <4> QED
        BY <4>2, <4>3
    <3>3. addr' \in Nat
      BY <2>1, <1>t
    <3> QED
      BY <3>1, <3>2, <3>3, <2>3 DEF Loads
  <2>8. TrackedOn(m) /\ ~lost /\ ~lost' /\ Timely => TrackedOn(m)'
    BY <1>1, <1>b, <2>1, <2>2, <2>6, <2>7, LoadTracks DEF Timely
  <2> QED
    BY <1>b, <1>a, <1>t, <2>1, <2>7, <2>8 DEF LInv
<1>2. CASE TestGap
  <2>1. /\ pc = "gap" /\ pc' = "page" /\ UNCHANGED <<file, i, j>>
        /\ i <= Len(file)
    BY <1>2, <1>a, <1>t DEF TestGap, TypeOK
  <2>2. Loads' = Loads
    BY <2>1 DEF Loads, LoadedOf, DataRecords, Extent
  <2>3. write_page \/ UNCHANGED <<chip, loaded, lost>>
    BY <1>2 DEF TestGap
  <2> QED
    BY <1>a, <1>b, <1>t, <2>1, <2>2, <2>3, WriteOrNot, WriteOrNotTracks DEF Timely
<1>3. CASE TestPageEnd
  <2>1. /\ pc = "page" /\ pc' = "record" /\ j' = j + 1 /\ UNCHANGED <<file, i>>
        /\ i <= Len(file)
    BY <1>3, <1>a, <1>t DEF TestPageEnd, TypeOK
  <2>2. Loads' = Loads
    BY <2>1, <1>t DEF Loads, LoadedOf, DataRecords, Extent
  <2>3. write_page \/ UNCHANGED <<chip, loaded, lost>>
    BY <1>3 DEF TestPageEnd
  <2> QED
    BY <1>a, <1>b, <1>t, <2>1, <2>2, <2>3, WriteOrNot, WriteOrNotTracks DEF Timely
<1>4. CASE EndRecord
  <2>1. /\ pc = "record" /\ pc' = "record" /\ i' = i + 1 /\ j' = 0
        /\ UNCHANGED file
        /\ i <= Len(file) /\ ~MoreData
    BY <1>4 DEF EndRecord
  <2>2. Loads' = Loads
    <3>1. \A r \in DataRecords(file) : \A a \in Extent(file, r) :
            a - file[r].address < LoadedOf(r)' <=> a - file[r].address < LoadedOf(r)
      <4> SUFFICES ASSUME NEW r \in DataRecords(file), NEW a \in Extent(file, r)
                   PROVE  a - file[r].address < LoadedOf(r)' <=>
                            a - file[r].address < LoadedOf(r)
        OBVIOUS
      <4>1. /\ r \in 1 .. Len(file) /\ file[r].address \in Nat /\ Len(file[r].data) \in Nat
            /\ file[r].type = "DATA"
        BY <1>t DEF DataRecords
      <4>2. a \in Int /\ a - file[r].address \in 0 .. Len(file[r].data) - 1
        BY <4>1 DEF Extent
      <4>3. CASE r < i
        BY <4>1, <4>3, <2>1, <1>t DEF LoadedOf
      <4>4. CASE r = i
        <5>1. j >= Len(file[r].data)
          BY <4>1, <4>4, <2>1, <1>t DEF MoreData
        <5>2. LoadedOf(r) = j /\ LoadedOf(r)' = Len(file[r].data)
          BY <4>1, <4>4, <2>1, <1>t DEF LoadedOf
        <5>3. a - file[r].address < Len(file[r].data) /\ a - file[r].address \in Int
          BY <4>1, <4>2
        <5>4. j \in Int /\ Len(file[r].data) \in Int
          BY <4>1, <1>a DEF TypeOK
        <5>5. a - file[r].address < j
          BY <5>1, <5>3, <5>4
        <5> QED
          BY <5>2, <5>3, <5>5
      <4>5. CASE r > i
        BY <4>1, <4>5, <2>1, <1>t DEF LoadedOf
      <4> QED
        BY <4>1, <4>3, <4>4, <4>5, <1>t
    <3>2. Loads' = {a \in Nat : \E r \in DataRecords(file) :
                      a \in Extent(file, r) /\ a - file[r].address < LoadedOf(r)'}
      BY <2>1 DEF Loads, DataRecords, Extent
    <3> QED
      BY <3>1, <3>2 DEF Loads
  <2>3. write_page \/ UNCHANGED <<chip, loaded, lost>>
    BY <1>4 DEF EndRecord
  <2>4. i' > Len(file) => loaded' = {}
    <3>1. i + 1 > Len(file) => file[i].type = "EOF"
      BY <1>a, <1>t, <2>1 DEF Plain
    <3> QED
      BY <3>1, <1>4, <2>1 DEF EndRecord, write_page
  <2> QED
    BY <1>a, <1>b, <1>t, <2>1, <2>2, <2>3, <2>4, WriteOrNot, WriteOrNotTracks DEF Timely
<1>5. CASE Finish
  <2>1. /\ pc = "record" /\ pc' = "done"
        /\ UNCHANGED <<chip, file, initial, i, j, addr, loaded, lost>> /\ i > Len(file)
    BY <1>5 DEF Finish
  <2>2. Loads' = Loads
    BY <2>1 DEF Loads, LoadedOf, DataRecords, Extent
  <2> QED
    BY <1>b, <2>1, <2>2 DEF LInv, TrackedOn, chip
<1>6. CASE ChipReady \/ UNCHANGED vars
  <2>1. UNCHANGED <<flash, buffer, file, initial, pc, i, j, addr, loaded, lost>>
    BY <1>6 DEF ChipReady, Ready, writer, vars, chip
  <2>2. Loads' = Loads
    BY <2>1 DEF Loads, LoadedOf, DataRecords, Extent
  <2> QED
    BY <1>b, <2>1, <2>2 DEF LInv, TrackedOn
<1> QED
  BY <1>1, <1>2, <1>3, <1>4, <1>5, <1>6 DEF Next, Program

\* What no step changes, and what none takes back.
LEMMA WriterFrame ==
  ASSUME [Next]_vars
  PROVE  UNCHANGED <<file, initial>> /\ (~lost' => ~lost)
<1>1. UNCHANGED <<file, initial>>
  BY DEF Next, Program, LoadByte, TestGap, TestPageEnd, EndRecord, Finish, ChipReady, writer, vars
<1>2. ~lost' => ~lost
  <2>1. CASE LoadByte \/ write_page
    <3>1. lost' = lost \/ lost' = TRUE
      BY <2>1, Zenon DEF LoadByte, write_page, Send
    <3> QED
      BY <3>1
  <2>2. CASE ~LoadByte /\ ~write_page
    <3>1. lost' = lost
      BY <2>2 DEF Next, Program, TestGap, TestPageEnd, EndRecord, Finish, ChipReady, writer, vars
    <3> QED
      BY <3>1
  <2> QED
    BY <2>1, <2>2
<1> QED
  BY <1>1, <1>2

LEMMA WrittenStep ==
  ASSUME \A f \in Files : Plain(f) /\ Disjoint(f) /\ PageSafe(f),
         SleepCovers = TRUE, WInv, [Next]_vars
  PROVE  WInv'
<1>1. LInv /\ Plain(file) /\ Disjoint(file) /\ PageSafe(file)
  BY DEF WInv, LInv, PInv, TInv
<1>2. LInv'
  BY <1>1, LoadsStep
<1>3. ASSUME ~lost' PROVE Tracked'
  <2>1. ~lost /\ initial' = initial
    BY <1>3, WriterFrame
  <2>2. Timely
    BY DEF Timely, LoadByte, write_page, Awake
  <2>3. PICK m : m = initial
    OBVIOUS
  <2>4. TrackedOn(m)
    BY <2>1, <2>3 DEF WInv, Tracked, TrackedOn
  <2>5. TrackedOn(m)'
    BY <1>1, <1>3, <2>1, <2>2, <2>4, LoadsStep
  <2> QED
    BY <2>1, <2>3, <2>5 DEF Tracked, TrackedOn
<1> QED
  BY <1>2, <1>3 DEF WInv

LEMMA WrittenInit ==
  ASSUME \A f \in Files : Plain(f), Init
  PROVE  WInv
<1>1. PInv
  BY TypeInit DEF Init, PInv, PageCoherent
<1>2. /\ loaded = {} /\ pc = "record" /\ i = 1 /\ j = 0 /\ flash = initial
      /\ buffer = Blank /\ file \in Files
  BY DEF Init
<1>3. Loads = {}
  <2>1. \A r \in DataRecords(file) : LoadedOf(r) = 0
    BY <1>2, FileType DEF LoadedOf, DataRecords
  <2>2. \A r \in DataRecords(file) : \A a \in Extent(file, r) : ~(a - file[r].address < 0)
    BY <1>2, FileType DEF Extent, DataRecords
  <2> QED
    BY <2>1, <2>2 DEF Loads
<1>4. \A p \in Pages, c \in Cells : initial[p][c] \subseteq Bits
  BY <1>1 DEF PInv, TInv, TypeOK, PageContent, Byte
<1>5. Tracked
  BY <1>2, <1>3, <1>4 DEF Tracked, TrackedOn, Asked, Blank
<1>6. ~(i > Len(file))
  BY <1>1, <1>2, FileType DEF PInv, TInv, Plain
<1> QED
  BY <1>1, <1>2, <1>5, <1>6 DEF WInv, LInv

\* A loaded byte is a byte of the image.
LEMMA LoadsInImage == Loads \subseteq ImageAddresses(file)
BY DEF Loads, ImageAddresses

\* Behind the last record the whole image has been loaded.
LEMMA AllLoaded ==
  ASSUME LInv, i > Len(file)
  PROVE  Loads = ImageAddresses(file)
<1>1. \A r \in DataRecords(file) : r < i /\ file[r].address \in Nat
                                   /\ Len(file[r].data) \in Nat
  BY FileType DEF DataRecords, LInv, PInv, TInv, TypeOK
<1>2. \A r \in DataRecords(file) : LoadedOf(r) = Len(file[r].data)
  BY <1>1 DEF LoadedOf
<1>3. \A r \in DataRecords(file) : \A a \in Extent(file, r) :
        a \in Nat /\ a - file[r].address < Len(file[r].data)
  BY <1>1 DEF Extent
<1> QED
  BY <1>2, <1>3 DEF Loads, ImageAddresses

\* The flash holds the file at the end of main_write_stream, for every page
\* size, byte width and LENGTH, every page-safe file with no address used twice
\* and every content of the flash before, unless an instruction is lost.
THEOREM WritesFile ==
  ASSUME \A f \in Files : Plain(f) /\ Disjoint(f) /\ PageSafe(f), SleepCovers = TRUE
  PROVE  Spec => []Written
<1>1. Init => WInv
  BY WrittenInit
<1>2. WInv /\ [Next]_vars => WInv'
  BY WrittenStep
<1>3. WInv => Written
  <2> SUFFICES ASSUME WInv, pc = "done", ~lost PROVE flash = Intended
    BY DEF Written
  <2>1. i > Len(file) /\ loaded = {} /\ Tracked /\ ChipTypeOK
    BY DEF WInv, LInv, PInv, TInv, TypeOK
  <2>2. \A p \in Pages, c \in Cells :
          flash[p][c] = initial[p][c] \cap Asked(file, ImageAddresses(file), p, c)
    BY <2>1, AllLoaded DEF Tracked, TrackedOn, WInv
  <2> QED
    BY <2>1, <2>2 DEF Intended, Asked, ChipTypeOK, PageContent
<1> QED
  BY <1>1, <1>2, <1>3, PTL DEF Spec

-----------------------------------------------------------------------------
(* The refinement: main_write_stream stores an image.  Addresses of the     *)
(* flash first.                                                             *)

\* An address below the size of the flash is in one of its pages.
LEMMA PageInFlash ==
  ASSUME NEW a \in Addresses
  PROVE  a \in Nat /\ PageOf(a) \in Pages /\ PageAt(a) = PageOf(a)
<1> DEFINE d == 2 * PageSize
           q == a \div d
<1>1. d \in Nat \ {0} /\ NumPages \in Nat \ {0} /\ a \in Nat /\ a < d * NumPages
  BY ChipAssumption DEF Addresses
<1>2. q \in Nat /\ d * q <= a
  <2> HIDE DEF d
  <2> QED
    BY <1>1
<1>3. q < NumPages
  <2> HIDE DEF d, q
  <2>1. d * q < d * NumPages
    BY <1>1, <1>2
  <2> QED
    BY <1>1, <1>2, <2>1
<1>4. (a \div 2) \div PageSize = q
  BY <1>1, HalfQuotient, ChipAssumption
<1>5. q % NumPages = q
  <2> HIDE DEF q
  <2> QED
    BY <1>1, <1>2, <1>3
<1> QED
  BY <1>1, <1>2, <1>3, <1>4, <1>5 DEF PageOf, PageAt, Pages

\* Two addresses of the flash with the same place are equal.
LEMMA PlaceInjective ==
  ASSUME NEW a \in Addresses, NEW b \in Addresses,
         PageAt(a) = PageAt(b), CellAt(a) = CellAt(b)
  PROVE  a = b
BY PageInFlash, CellInjective

-----------------------------------------------------------------------------

\* The invariant of the refinement: nothing is ever lost.
RInv == WInv /\ ~lost

\* What is in the buffer comes from the image.
LEMMA PendingInImage ==
  ASSUME RInv, InRange(file)
  PROVE  loaded \subseteq ImageAddresses(file) /\ loaded \subseteq Addresses
BY LoadsInImage DEF RInv, WInv, LInv, InRange

\* write_page is a Program step of the image: the bytes that are pending are
\* programmed, each at its address, and no other byte of the memory changes.
LEMMA WritePageRefines ==
  ASSUME RInv, InRange(file), SleepCovers = TRUE, LossyBus = FALSE, write_page
  PROVE  /\ loaded' = {} /\ UNCHANGED lost
         /\ Flat(flash)' = [a \in Addresses |->
              IF a \in loaded THEN Flat(flash)[a] \cap Image(file)[a]
                              ELSE Flat(flash)[a]]
<1>1. /\ ~busy /\ WritePage(PageAt(addr)) /\ loaded' = {} /\ UNCHANGED lost
      /\ ChipTypeOK /\ addr \in Nat /\ loaded \subseteq Nat /\ Tracked /\ PageCoherent
  BY DEF write_page, Awake, Send, RInv, WInv, LInv, PInv, TInv, TypeOK
<1>2. PageAt(addr) \in Pages
  BY <1>1, PlaceType
<1>3. flash' = [flash EXCEPT ![PageAt(addr)] =
                  [c \in Cells |-> flash[PageAt(addr)][c] \cap buffer[c]]]
  BY <1>1 DEF WritePage, ChipTypeOK
<1>4. \A a \in loaded : PageAt(a) = PageAt(addr)
  BY <1>1, PageOfPlace DEF PageCoherent
<1>5. loaded \subseteq ImageAddresses(file) /\ loaded \subseteq Addresses
  BY PendingInImage
<1>6. ASSUME NEW a \in Addresses
      PROVE  flash'[PageAt(a)][CellAt(a)] =
               IF a \in loaded THEN flash[PageAt(a)][CellAt(a)] \cap Image(file)[a]
                               ELSE flash[PageAt(a)][CellAt(a)]
  <2>1. a \in Nat /\ PageAt(a) \in Pages /\ CellAt(a) \in Cells
    BY PageInFlash, PlaceType
  <2>2. CASE PageAt(a) # PageAt(addr)
    BY <2>1, <2>2, <1>1, <1>3, <1>4 DEF ChipTypeOK
  <2>3. CASE PageAt(a) = PageAt(addr)
    <3>1. flash'[PageAt(a)][CellAt(a)] = flash[PageAt(a)][CellAt(a)] \cap buffer[CellAt(a)]
      BY <2>1, <2>3, <1>1, <1>2, <1>3 DEF ChipTypeOK
    <3>2. CASE a \in loaded
      BY <3>1, <3>2, <1>1, <1>5 DEF Tracked, TrackedOn, Image
    <3>3. CASE a \notin loaded
      <4>1. \A b \in loaded : CellAt(b) # CellAt(a)
        BY <3>3, <2>3, <1>4, <1>5, PlaceInjective
      <4>2. buffer[CellAt(a)] = Bits
        BY <4>1, <2>1, <1>1 DEF Tracked, TrackedOn, Erased
      <4>3. flash[PageAt(a)][CellAt(a)] \subseteq Bits
        BY <2>1, <1>1 DEF ChipTypeOK, PageContent, Byte
      <4> QED
        BY <3>1, <3>3, <4>2, <4>3
    <3> QED
      BY <3>2, <3>3
  <2> QED
    BY <2>2, <2>3
<1> QED
  BY <1>1, <1>6 DEF Flat

\* A test that calls write_page or not is a Program step or changes nothing.
LEMMA WriteOrNotRefines ==
  ASSUME RInv, InRange(file), SleepCovers = TRUE, LossyBus = FALSE,
         write_page \/ UNCHANGED <<chip, loaded, lost>>,
         UNCHANGED file, pc # "done", pc' # "done"
  PROVE  Stores!Program \/ UNCHANGED Stores!vars
<1>1. CASE write_page
  <2>1. /\ loaded' = {}
        /\ Flat(flash)' = [a \in Addresses |->
              IF a \in loaded THEN Flat(flash)[a] \cap Image(file)[a]
                              ELSE Flat(flash)[a]]
    BY <1>1, WritePageRefines
  <2>2. DOMAIN Flat(flash) = Addresses
    BY DEF Flat
  <2>3. Image(file)' = Image(file)
    BY DEF Image, ImageAddresses, ImageByte, RecordOf, DataRecords, Extent
  <2> QED
    BY <2>1, <2>2, <2>3 DEF Stores!Program
<1>2. CASE UNCHANGED <<chip, loaded, lost>>
  <2>1. Flat(flash)' = Flat(flash)
    BY <1>2 DEF Flat, chip
  <2>2. Image(file)' = Image(file)
    BY DEF Image, ImageAddresses, ImageByte, RecordOf, DataRecords, Extent
  <2> QED
    BY <1>2, <2>1, <2>2 DEF Stores!vars
<1> QED
  BY <1>1, <1>2

LEMMA InitRefines ==
  ASSUME Init
  PROVE  Stores!Init
<1>1. Image(file) \in FileImages
  BY DEF Init, FileImages
<1>2. Flat(flash) \in FlatMemories
  BY DEF Init, FlatMemories
<1> QED
  BY <1>1, <1>2 DEF Init, Stores!Init

LEMMA StepRefines ==
  ASSUME \A f \in Files : Plain(f) /\ Disjoint(f) /\ PageSafe(f) /\ InRange(f),
         SleepCovers = TRUE, LossyBus = FALSE,
         RInv, [Next]_vars
  PROVE  Stores!Next \/ UNCHANGED Stores!vars
<1>a. /\ WInv /\ PInv /\ TInv /\ TypeOK /\ file \in Files /\ Plain(file) /\ InRange(file)
      /\ loaded \subseteq Loads
  BY DEF RInv, WInv, LInv, PInv, TInv
<1>t. /\ Len(file) \in Nat /\ DOMAIN file = 1 .. Len(file)
      /\ \A r \in 1 .. Len(file) : /\ file[r].address \in Nat
                                   /\ Len(file[r].data) \in Nat
      /\ i \in 1 .. Len(file) + 1 /\ j \in Nat
  BY <1>a, FileType DEF TypeOK
<1>i. UNCHANGED file => Image(file)' = Image(file)
  BY DEF Image, ImageAddresses, ImageByte, RecordOf, DataRecords, Extent
<1>1. CASE LoadByte
  <2>1. /\ pc = "record" /\ pc' = "gap" /\ UNCHANGED file
        /\ addr' = file[i].address + j /\ loaded' = loaded \cup {addr'}
        /\ i \in 1 .. Len(file) /\ j < Len(file[i].data)
    BY <1>1, <1>t DEF LoadByte, MoreData
  <2>2. Flat(flash)' = Flat(flash)
    BY <1>1 DEF LoadByte, Send, LoadPage, Flat
  <2>3. addr' \in DOMAIN Image(file)
    <3>1. HasData(file, i)
      BY <1>1, <2>1, <1>a, <1>t, OnlyData DEF LoadByte, MoreData
    <3>2. i \in DataRecords(file) /\ addr' \in Extent(file, i)
      BY <3>1, <2>1, <1>t DEF HasData, DataRecords, Extent
    <3> QED
      BY <3>2 DEF Image, ImageAddresses
  <2>4. Stores!Collect(addr')
    BY <2>1, <2>2, <1>i DEF Stores!Collect
  <2> QED
    BY <2>3, <2>4 DEF Stores!Next
<1>2. CASE TestGap \/ TestPageEnd \/ EndRecord
  <2>1. /\ pc # "done" /\ pc' # "done" /\ UNCHANGED file
        /\ write_page \/ UNCHANGED <<chip, loaded, lost>>
    BY <1>2 DEF TestGap, TestPageEnd, EndRecord
  <2> QED
    BY <2>1, <1>a, WriteOrNotRefines DEF Stores!Next
<1>3. CASE Finish
  <2>1. /\ pc = "record" /\ pc' = "done" /\ i > Len(file)
        /\ UNCHANGED <<chip, file, loaded>>
    BY <1>3 DEF Finish
  <2>2. loaded = {} /\ Tracked /\ Loads = ImageAddresses(file)
    BY <2>1, <1>a, AllLoaded DEF RInv, WInv, LInv
  <2>3. \A a \in DOMAIN Image(file) : Flat(flash)[a] \subseteq Image(file)[a]
    <3> SUFFICES ASSUME NEW a \in ImageAddresses(file)
                 PROVE  flash[PageAt(a)][CellAt(a)] \subseteq ImageByte(file, a)
      BY <1>a DEF Image, InRange, Flat
    <3>1. PageAt(a) \in Pages /\ CellAt(a) \in Cells
      BY <1>a, PageInFlash, PlaceType DEF InRange
    <3>2. flash[PageAt(a)][CellAt(a)] =
            initial[PageAt(a)][CellAt(a)]
              \cap Asked(file, ImageAddresses(file), PageAt(a), CellAt(a))
      BY <2>2, <3>1 DEF Tracked, TrackedOn
    <3>3. Asked(file, ImageAddresses(file), PageAt(a), CellAt(a)) \subseteq ImageByte(file, a)
      BY DEF Asked
    <3> QED
      BY <3>2, <3>3
  <2>4. Flat(flash)' = Flat(flash)
    BY <2>1 DEF chip, Flat
  <2> QED
    BY <2>1, <2>2, <2>3, <2>4, <1>i DEF Stores!Finish, Stores!Next
<1>4. CASE ChipReady \/ UNCHANGED vars
  <2>1. UNCHANGED <<flash, file, pc, loaded>>
    BY <1>4 DEF ChipReady, Ready, writer, vars, chip
  <2>2. Flat(flash)' = Flat(flash)
    BY <2>1 DEF Flat
  <2> QED
    BY <2>1, <2>2, <1>i DEF Stores!vars
<1> QED
  BY <1>1, <1>2, <1>3, <1>4 DEF Next, Program

\* No step loses an instruction on a bus that is not lossy.
LEMMA NothingLost ==
  ASSUME LossyBus = FALSE, ~lost, [Next]_vars
  PROVE  ~lost'
BY DEF Next, Program, LoadByte, TestGap, TestPageEnd, EndRecord, Finish, ChipReady,
       write_page, Send, writer, vars

\* main_write_stream on a bus that loses nothing, with enough delay, implements
\* the storing of an image, for every set of writable files.
THEOREM ImplementsFlashImage ==
  ASSUME \A f \in Files : Writable(f), SleepCovers = TRUE, LossyBus = FALSE
  PROVE  Spec => StoresImage
<1>1. \A f \in Files : Plain(f) /\ Disjoint(f) /\ PageSafe(f) /\ InRange(f)
  BY DEF Writable
<1>2. Init => RInv
  BY <1>1, WrittenInit DEF RInv, Init
<1>3. RInv /\ [Next]_vars => RInv'
  BY <1>1, WrittenStep, NothingLost DEF RInv
<1>4. Init => Stores!Init
  BY InitRefines
<1>5. RInv /\ [Next]_vars => [Stores!Next]_(Stores!vars)
  BY <1>1, StepRefines
<1> QED
  BY <1>2, <1>3, <1>4, <1>5, PTL DEF Spec, StoresImage, Stores!Spec
=============================================================================
