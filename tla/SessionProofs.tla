---------------------------- MODULE SessionProofs ----------------------------
(* What a run of the program keeps, for every command line, every set of     *)
(* chips and every bus: its types, that the target is not left in reset,     *)
(* that nothing is modified before the signature is read; and that the first *)
(* check and the effects on the target are as the README of the code says.   *)
EXTENDS Session, SequenceTheorems, TLAPS

(***************************************************************************)
(* The calls that an option still makes: the rest of a ch_init, from its   *)
(* m-th call on (m = 8: nothing of it), then others.                       *)
(***************************************************************************)

InitName(p) ==
  IF p = 1 THEN "ch341_init" ELSE IF p = 2 THEN "reset_on"
  ELSE IF p = 3 THEN "chip_prog_enable" ELSE IF p \in 4 .. 6 THEN "read_sign"
  ELSE "compare"
InitNames == {"ch341_init", "reset_on", "chip_prog_enable", "read_sign", "compare"}

\* What follows ch_init, and what ends the process.
WorkNames ==
  {"read_flash", "read_fuses", "chip_erace", "write_fuses", "main_write_stream",
   "write_eeprom", "check_flash", "check_flash_strict", "exit"}
LaterNames == WorkNames \cup {"reset_off", "release"}

Args == Token \cup {NoArg}
Call == [call : InitNames \cup LaterNames, arg : Args]

Shape(s, m) ==
  /\ s \in Seq(Call)
  /\ Len(s) >= 8 - m
  /\ \A k \in 1 .. Len(s) :
       IF k <= 8 - m THEN s[k].call = InitName(m + k - 1) ELSE s[k].call \in LaterNames

Quiet(s) == \A k \in 1 .. Len(s) : s[k].call \notin {"reset_off", "release"}

LEMMA OneCall ==
  ASSUME NEW name \in InitNames \cup LaterNames, NEW arg \in Args
  PROVE  /\ DoWith(name, arg) \in Seq(Call)
         /\ Len(DoWith(name, arg)) = 1
         /\ DoWith(name, arg)[1].call = name
  BY DEF DoWith, Call

LEMMA DoIsDoWith == \A name : Do(name) = DoWith(name, NoArg)
  BY DEF Do, DoWith

\* One more call at the end of a sequence.
LEMMA OneMore ==
  ASSUME NEW s \in Seq(Call), NEW name \in InitNames \cup LaterNames, NEW arg \in Args
  PROVE  /\ s \o DoWith(name, arg) \in Seq(Call)
         /\ Len(s \o DoWith(name, arg)) = Len(s) + 1
         /\ \A k \in 1 .. Len(s) : (s \o DoWith(name, arg))[k] = s[k]
         /\ (s \o DoWith(name, arg))[Len(s) + 1].call = name
<1> DEFINE u == DoWith(name, arg)
<1>1. u \in Seq(Call) /\ Len(u) = 1 /\ u[1].call = name
  BY OneCall
<1> HIDE DEF u
<1>2. /\ s \o u \in Seq(Call)
      /\ Len(s \o u) = Len(s) + Len(u)
      /\ \A k \in 1 .. Len(s) + Len(u) :
           (s \o u)[k] = IF k <= Len(s) THEN s[k] ELSE u[k - Len(s)]
  BY <1>1, ConcatProperties
<1>3. Len(s) \in Nat
  OBVIOUS
<1>4. (\A k \in 1 .. Len(s) : (s \o u)[k] = s[k]) /\ (s \o u)[Len(s) + 1] = u[1]
  BY <1>1, <1>2, <1>3
<1> QED
  BY <1>1, <1>2, <1>4 DEF u

\* s is the first p calls of ch_init.
Started(s, p) ==
  s \in Seq(Call) /\ Len(s) = p /\ \A k \in 1 .. p : s[k].call = InitName(k)

LEMMA NextStarted ==
  ASSUME NEW p \in Nat, NEW s, Started(s, p)
  PROVE  Started(s \o DoWith(InitName(p + 1), NoArg), p + 1)
<1>1. InitName(p + 1) \in InitNames \cup LaterNames
  BY DEF InitName, InitNames
<1>2. s \in Seq(Call) /\ Len(s) = p /\ \A k \in 1 .. p : s[k].call = InitName(k)
  BY DEF Started
<1> DEFINE t == s \o DoWith(InitName(p + 1), NoArg)
<1>3. /\ t \in Seq(Call)
      /\ Len(t) = p + 1
      /\ \A k \in 1 .. p : t[k] = s[k]
      /\ t[p + 1].call = InitName(p + 1)
  BY <1>1, <1>2, OneMore DEF Args
<1> HIDE DEF t
<1>4. \A k \in 1 .. p + 1 : t[k].call = InitName(k)
  BY <1>2, <1>3
<1> QED
  BY <1>3, <1>4 DEF Started, t

\* ch_init is the whole of its calls.
LEMMA InitShape == Shape(ch_init, 1) /\ Quiet(ch_init) /\ Started(ch_init, 7)
<1> DEFINE s1 == Do("ch341_init")
           s2 == s1 \o DoWith(InitName(1 + 1), NoArg)
           s3 == s2 \o DoWith(InitName(2 + 1), NoArg)
           s4 == s3 \o DoWith(InitName(3 + 1), NoArg)
           s5 == s4 \o DoWith(InitName(4 + 1), NoArg)
           s6 == s5 \o DoWith(InitName(5 + 1), NoArg)
           s7 == s6 \o DoWith(InitName(6 + 1), NoArg)
<1>1. s7 = ch_init
  BY DEF ch_init, Do, DoWith, InitName
<1>2. Started(s1, 1)
  <2>1. s1 = DoWith("ch341_init", NoArg)
    BY DEF Do, DoWith
  <2>2. s1 \in Seq(Call) /\ Len(s1) = 1 /\ s1[1].call = "ch341_init"
    BY <2>1, OneCall DEF InitNames, Args
  <2> QED
    BY <2>2 DEF Started, InitName
<1> HIDE DEF s1
<1>3. Started(s2, 2)
  BY <1>2, NextStarted
<1> HIDE DEF s2
<1>4. Started(s3, 3)
  BY <1>3, NextStarted
<1> HIDE DEF s3
<1>5. Started(s4, 4)
  BY <1>4, NextStarted
<1> HIDE DEF s4
<1>6. Started(s5, 5)
  BY <1>5, NextStarted
<1> HIDE DEF s5
<1>7. Started(s6, 6)
  BY <1>6, NextStarted
<1> HIDE DEF s6
<1>8. Started(s7, 7)
  BY <1>7, NextStarted
<1> HIDE DEF s7
<1>9. \A k \in 1 .. 7 : InitName(k) \notin {"reset_off", "release"}
  BY DEF InitName
<1> QED
  BY <1>1, <1>8, <1>9 DEF Shape, Quiet, Started

LEMMA EmptyShape == Shape(<< >>, 8) /\ Quiet(<< >>)
  BY DEF Shape, Quiet

\* Another call that does some work.
LEMMA WorkShape ==
  ASSUME NEW s, NEW m \in 1 .. 8, Shape(s, m), Quiet(s),
         NEW name \in WorkNames, NEW arg \in Args
  PROVE  Shape(s \o DoWith(name, arg), m) /\ Quiet(s \o DoWith(name, arg))
<1> DEFINE t == s \o DoWith(name, arg)
<1>1. s \in Seq(Call) /\ name \in InitNames \cup LaterNames
  BY DEF Shape, LaterNames
<1>2. /\ t \in Seq(Call)
      /\ Len(t) = Len(s) + 1
      /\ \A k \in 1 .. Len(s) : t[k] = s[k]
      /\ t[Len(s) + 1].call = name
  BY <1>1, OneMore
<1>3. Len(s) \in Nat /\ Len(s) >= 8 - m
  BY <1>1 DEF Shape
<1>4. name \in LaterNames /\ name \notin {"reset_off", "release"}
  BY DEF LaterNames, WorkNames
<1> HIDE DEF t
<1> SUFFICES Shape(t, m) /\ Quiet(t)
  BY DEF t
<1>5. ASSUME NEW k \in 1 .. Len(t)
      PROVE  /\ IF k <= 8 - m THEN t[k].call = InitName(m + k - 1) ELSE t[k].call \in LaterNames
             /\ t[k].call \notin {"reset_off", "release"}
  <2>1. CASE k \in 1 .. Len(s)
    BY <1>2, <2>1 DEF Shape, Quiet
  <2>2. CASE k = Len(s) + 1
    BY <1>2, <1>3, <1>4, <2>2
  <2> QED
    BY <1>2, <1>3, <2>1, <2>2
<1> QED
  BY <1>2, <1>3, <1>5 DEF Shape, Quiet

-----------------------------------------------------------------------------
(* What an option calls *)

\* A whole ch_init and work after it, or only work.
Good(s) == \E m \in {1, 8} : Shape(s, m) /\ Quiet(s)

LEMMA GoodEmpty == Good(<< >>)
  BY EmptyShape DEF Good

LEMMA GoodInit == Good(ch_init)
  BY InitShape DEF Good

LEMMA GoodWork ==
  ASSUME NEW s, Good(s), NEW name \in WorkNames, NEW arg \in Args
  PROVE  Good(s \o DoWith(name, arg))
<1>1. PICK m \in {1, 8} : Shape(s, m) /\ Quiet(s)
  BY DEF Good
<1>2. m \in 1 .. 8
  OBVIOUS
<1>3. Shape(s \o DoWith(name, arg), m) /\ Quiet(s \o DoWith(name, arg))
  BY <1>1, <1>2, WorkShape
<1> QED
  BY <1>3 DEF Good

LEMMA GoodDo ==
  ASSUME NEW s, Good(s), NEW name \in WorkNames
  PROVE  Good(s \o Do(name))
<1>1. Do(name) = DoWith(name, NoArg) /\ NoArg \in Args
  BY DEF Do, DoWith, Args
<1> QED
  BY <1>1, GoodWork

LEMMA GoodSingle ==
  ASSUME NEW name \in WorkNames, NEW arg \in Args
  PROVE  Good(DoWith(name, arg))
<1>1. name \in InitNames \cup LaterNames /\ name \in LaterNames /\ name \notin {"reset_off", "release"}
  BY DEF LaterNames, WorkNames
<1>2. /\ DoWith(name, arg) \in Seq(Call)
      /\ Len(DoWith(name, arg)) = 1
      /\ DoWith(name, arg)[1].call = name
  BY <1>1, OneCall
<1> HIDE DEF WorkNames
<1> QED
  BY <1>1, <1>2 DEF Good, Shape, Quiet

LEMMA GoodSingleDo ==
  ASSUME NEW name \in WorkNames
  PROVE  Good(Do(name))
<1>1. Do(name) = DoWith(name, NoArg) /\ NoArg \in Args
  BY DEF Do, DoWith, Args
<1> QED
  BY <1>1, GoodSingle

\* Every option makes such calls.
LEMMA HandlerGood ==
  ASSUME argv \in Seq(Token), optind' \in Nat \ {0}, NEW opt, NEW arg \in Token
  PROVE  Good(Handler(opt, arg))
<1>1. arg \in Args /\ (NextArg => argv[optind'] \in Args)
  BY DEF Args, NextArg
<1>2. /\ {"read_flash", "main_write_stream", "chip_erace", "check_flash_strict"} \subseteq WorkNames
      /\ {"check_flash", "read_fuses", "write_fuses", "write_eeprom", "exit"} \subseteq WorkNames
  BY DEF WorkNames
<1>3. Good(OptionA(arg))
  <2>1. Good(ch_init \o Do("chip_erace"))
    BY <1>2, GoodInit, GoodDo
  <2>2. ASSUME NEW word \in Args
        PROVE  /\ Good(ch_init \o Do("chip_erace") \o DoWith("main_write_stream", word)
                         \o DoWith("check_flash", word))
               /\ Good(ch_init \o Do("chip_erace") \o DoWith("main_write_stream", word)
                         \o DoWith("check_flash_strict", word))
    <3>1. Good(ch_init \o Do("chip_erace") \o DoWith("main_write_stream", word))
      BY <2>1, <1>2, GoodWork
    <3> QED
      BY <3>1, <1>2, GoodWork
  <2> QED
    BY <2>2, <1>1, GoodEmpty DEF OptionA
<1>4. Good(OptionP(arg))
  <2>1. Good(ch_init \o Do("read_flash"))
    BY <1>2, GoodInit, GoodDo
  <2>2. NextArg => Good(DoWith("write_eeprom", argv[optind']))
    BY <1>1, <1>2, GoodSingle
  <2> QED
    BY <2>1, <2>2, GoodEmpty DEF OptionP
<1>5. /\ Good(ch_init \o Do("read_flash")) /\ Good(ch_init \o Do("chip_erace"))
      /\ Good(ch_init \o Do("read_fuses"))
      /\ Good(ch_init \o Do("read_fuses") \o Do("read_fuses"))
      /\ Good(ch_init \o Do("read_fuses") \o Do("read_fuses") \o Do("read_fuses"))
      /\ Good(ch_init \o DoWith("main_write_stream", arg))
      /\ Good(ch_init \o DoWith("check_flash_strict", arg))
      /\ Good(ch_init \o DoWith("write_fuses", arg))
  BY <1>1, <1>2, GoodInit, GoodDo, GoodWork
<1>6. Good(ch_init \o << >>)
  <2>1. ch_init \in Seq(Call)
    BY InitShape DEF Shape
  <2>2. ch_init \o << >> = ch_init
    BY <2>1, ConcatEmptySeq
  <2> QED
    BY <2>2, GoodInit
<1>7. Good(ch_init \o write_fuse(arg))
  BY <1>5, <1>6 DEF write_fuse
<1>8. Good(Do("exit"))
  BY <1>2, GoodSingleDo
<1> QED
  BY <1>3, <1>4, <1>5, <1>7, <1>8, GoodEmpty DEF Handler

LEMMA ExitShape ==
  /\ Shape(ch_exit, 8)
  /\ Len(ch_exit) = 2 /\ ch_exit[1].call = "reset_off" /\ ch_exit[2].call = "release"
<1> DEFINE s == Do("reset_off")
<1>1. s = DoWith("reset_off", NoArg) /\ Do("release") = DoWith("release", NoArg)
  BY DEF Do, DoWith
<1>2. NoArg \in Args /\ {"reset_off", "release"} \subseteq LaterNames
  BY DEF Args, LaterNames
<1>3. s \in Seq(Call) /\ Len(s) = 1 /\ s[1].call = "reset_off"
  BY <1>1, <1>2, OneCall
<1> HIDE DEF s
<1> DEFINE t == s \o DoWith("release", NoArg)
<1>4. t \in Seq(Call) /\ Len(t) = 2 /\ t[1].call = "reset_off" /\ t[2].call = "release"
  BY <1>2, <1>3, OneMore
<1>5. t = ch_exit
  BY <1>1 DEF ch_exit, s
<1> HIDE DEF t
<1>6. \A k \in 1 .. 2 : ~(k <= 8 - 8) /\ t[k].call \in LaterNames
  <2>1. \A k \in 1 .. 2 : k = 1 \/ k = 2
    OBVIOUS
  <2>2. QED
    BY <1>2, <1>4, <2>1
<1>7. Shape(t, 8)
  BY <1>4, <1>6 DEF Shape
<1> QED
  BY <1>4, <1>5, <1>7

\* The next call and what remains behind it.
LEMMA NextCall ==
  ASSUME NEW s, NEW m \in 1 .. 8, Shape(s, m), s # << >>
  PROVE  /\ m < 8 => Head(s).call = InitName(m) /\ Shape(Tail(s), m + 1)
         /\ m = 8 => Head(s).call \in LaterNames /\ Shape(Tail(s), 8)
<1>1. s \in Seq(Call) /\ Len(s) \in Nat \ {0} /\ Head(s) = s[1]
  BY DEF Shape
<1>2. /\ Tail(s) \in Seq(Call) /\ Len(Tail(s)) = Len(s) - 1
      /\ \A k \in 1 .. Len(s) - 1 : Tail(s)[k] = s[k + 1]
  BY <1>1
<1>3. CASE m < 8
  <2>1. Len(Tail(s)) >= 8 - (m + 1)
    BY <1>1, <1>2 DEF Shape
  <2>2. ASSUME NEW k \in 1 .. Len(Tail(s))
        PROVE  IF k <= 8 - (m + 1) THEN Tail(s)[k].call = InitName((m + 1) + k - 1)
                                   ELSE Tail(s)[k].call \in LaterNames
    <3>1. k + 1 \in 1 .. Len(s) /\ Tail(s)[k] = s[k + 1]
      BY <1>1, <1>2
    <3>2. IF k + 1 <= 8 - m THEN s[k + 1].call = InitName(m + (k + 1) - 1)
                            ELSE s[k + 1].call \in LaterNames
      BY <3>1 DEF Shape
    <3>3. m + (k + 1) - 1 = (m + 1) + k - 1 /\ (k + 1 <= 8 - m <=> k <= 8 - (m + 1))
      BY <3>1
    <3> QED
      BY <3>1, <3>2, <3>3
  <2>3. Head(s).call = InitName(m)
    <3>1. IF 1 <= 8 - m THEN s[1].call = InitName(m + 1 - 1) ELSE s[1].call \in LaterNames
      BY <1>1 DEF Shape
    <3>2. 1 <= 8 - m /\ m + 1 - 1 = m
      BY <1>3
    <3> QED
      BY <1>1, <3>1, <3>2
  <2> QED
    BY <1>2, <1>3, <2>1, <2>2, <2>3 DEF Shape
<1>4. CASE m = 8
  <2>1. \A k \in 1 .. Len(s) : s[k].call \in LaterNames
    BY <1>4 DEF Shape
  <2> QED
    BY <1>1, <1>2, <1>4, <2>1 DEF Shape
<1> QED
  BY <1>3, <1>4

-----------------------------------------------------------------------------
(* Types *)

\* Bytes of the signature read, when m - 1 calls of ch_init are done.
BytesRead(m) == IF m \in 5 .. 7 THEN m - 4 ELSE 0

\* The types, and that what is left of ch_init fits to the bytes already read.
SInv ==
  /\ TypeOK
  /\ status = "running" =>
       \E m \in 1 .. 8 : Shape(todo, m) /\ Len(signature) = BytesRead(m)

Answers == [2 .. 3 -> 0 .. 255]

LEMMA ConfsetType == \A d \in Devices : confset[d] \in Signs
<1>1. \A d \in DOMAIN confset : confset[d] \in Signs
  BY DEF confset, Signs
<1> QED
  BY <1>1, SessionAssumption

\* The call under way, and where in ch_init it is.
LEMMA Current ==
  ASSUME SInv, NEW name, At(name)
  PROVE  \E m \in 1 .. 8 :
           /\ Len(signature) = BytesRead(m)
           /\ m < 8 => name = InitName(m) /\ Shape(Rest, m + 1)
           /\ m = 8 => name \in LaterNames /\ Shape(Rest, 8)
<1>1. PICK m \in 1 .. 8 : Shape(todo, m) /\ Len(signature) = BytesRead(m)
  BY DEF SInv, At
<1>2. todo # << >> /\ Head(todo).call = name
  BY DEF At
<1> QED
  BY <1>1, <1>2, NextCall DEF Rest

LEMMA LaterCall ==
  ASSUME SInv, NEW name \in LaterNames, At(name)
  PROVE  Shape(Rest, 8) /\ Len(signature) = BytesRead(8)
<1>1. \A m \in 1 .. 7 : InitName(m) \notin LaterNames
  BY DEF InitName, LaterNames, WorkNames
<1>2. PICK m \in 1 .. 8 : /\ Len(signature) = BytesRead(m)
                          /\ m < 8 => name = InitName(m) /\ Shape(Rest, m + 1)
                          /\ m = 8 => name \in LaterNames /\ Shape(Rest, 8)
  BY Current
<1>3. m = 8
  BY <1>1, <1>2
<1> QED
  BY <1>2, <1>3

LEMMA QueueType ==
  ASSUME NEW S, NEW s \in Seq(S), NEW e \in S
  PROVE  /\ Append(s, e) \in Seq(S) /\ Append(s, e) # << >>
         /\ Head(Append(s, e)) \in S
         /\ Tail(Append(s, e)) \in Seq(S) /\ Len(Tail(Append(s, e))) = Len(s)
<1> DEFINE q == Append(s, e)
<1>1. q \in Seq(S) /\ Len(q) = Len(s) + 1 /\ Len(s) \in Nat
  OBVIOUS
<1> HIDE DEF q
<1>2. q # << >> /\ q[1] \in S /\ Head(q) = q[1]
  BY <1>1
<1>3. Tail(q) \in Seq(S) /\ Len(Tail(q)) = Len(s)
  BY <1>1, <1>2
<1> QED
  BY <1>1, <1>2, <1>3 DEF q

\* An exchange keeps the types of what it may change.
LEMMA StreamType ==
  ASSUME TypeOK, NEW answer \in Answers, NEW ACTION A, SpiStream(A, answer)
  PROVE  /\ spi_data' \in Answers
         /\ late' \in Seq(Answers) /\ Len(late') <= MaxLate
         /\ lost' \in 0 .. MaxLost
         /\ A \/ UNCHANGED <<target, effects>>
<1>1. /\ late \in Seq(Answers) /\ Len(late) <= MaxLate /\ Len(late) \in Nat
      /\ lost \in 0 .. MaxLost /\ spi_data \in Answers
      /\ MaxLost \in Nat /\ MaxLate \in Nat
  BY SessionAssumption DEF TypeOK, Answers
<1> DEFINE queue == Append(late, answer)
<1>2. /\ queue \in Seq(Answers) /\ queue # << >>
      /\ Head(queue) \in Answers
      /\ Tail(queue) \in Seq(Answers) /\ Len(Tail(queue)) = Len(late)
  BY <1>1, QueueType
<1> HIDE DEF queue
<1>3. Fail => lost' \in 0 .. MaxLost
  BY <1>1 DEF Fail
<1> QED
  BY <1>1, <1>2, <1>3 DEF SpiStream, queue

LEMMA TransferType ==
  ASSUME TypeOK, NEW ACTION A, Transfer(A)
  PROVE  late' = late /\ lost' \in 0 .. MaxLost /\ (A \/ UNCHANGED <<target, effects>>)
  BY SessionAssumption DEF Transfer, TypeOK, Fail

LEMMA AnswerType ==
  ASSUME NEW b \in 0 .. 255
  PROVE  Answer(b) \in Answers
  BY DEF Answer, Answers

LEMMA SessionInit == Init => SInv
<1> SUFFICES ASSUME Init PROVE SInv
  OBVIOUS
<1>1. Shape(todo, 8) /\ Len(signature) = BytesRead(8)
  BY EmptyShape DEF Init, BytesRead
<1>2. argv \in Seq(Token) /\ target.sign \in Signs
  BY SessionAssumption DEF Init
<1>3. /\ spi_data \in Answers /\ NoSign \in Signs
      /\ late \in Seq(Answers) /\ Len(late) <= MaxLate
      /\ lost \in 0 .. MaxLost /\ Len(signature) <= 3 /\ signature \in Seq(0 .. 255)
  BY SessionAssumption DEF Init, Answers, NoSign, Signs
<1>4. target \in [sign : Signs, reset : BOOLEAN, enabled : BOOLEAN]
  BY <1>2 DEF Init
<1>5. device_sign \in Signs /\ checked \in Signs /\ read_sign2 \in 0 .. 3
  BY <1>3 DEF Init
<1>6. optind \in 1 .. Len(argv) + 1 /\ status = "running"
  BY <1>2 DEF Init
<1>8. devHandle \in BOOLEAN
  BY DEF Init
<1>7. TypeOK
  BY <1>2, <1>3, <1>4, <1>5, <1>6, <1>8 DEF TypeOK, Answers
<1> QED
  BY <1>1, <1>7 DEF SInv

\* The choice of the next option.
LEMMA GetOptStep ==
  ASSUME SInv, GetOpt
  PROVE  SInv' /\ (Good(todo') \/ todo' = ch_exit)
<1>1. TypeOK /\ todo = << >>
  BY DEF SInv, GetOpt
<1>2. Len(signature) = 0
  <2>1. PICK m \in 1 .. 8 : Shape(todo, m) /\ Len(signature) = BytesRead(m)
    BY DEF SInv, GetOpt
  <2>2. m = 8
    BY <1>1, <2>1 DEF Shape
  <2> QED
    BY <2>1, <2>2 DEF BytesRead
<1>3. argv \in Seq(Token) /\ Len(argv) \in Nat /\ optind \in 1 .. Len(argv) + 1
      /\ device_sign \in Signs
  BY <1>1 DEF TypeOK
<1>4. /\ optind' \in 1 .. Len(argv) + 1 /\ device_sign' \in Signs
      /\ Good(todo') \/ todo' = ch_exit
  <2>1. ASSUME NEW k \in 1 .. Len(argv), Option(k)
        PROVE  optind' \in 1 .. Len(argv) + 1 /\ device_sign' \in Signs /\ Good(todo')
    <3>1. argv[k] \in Token /\ (k # Len(argv) => argv[k + 1] \in Token)
      BY <1>3, <2>1
    <3>2. Good(Do("exit")) /\ Good(<< >>)
      BY GoodSingleDo, GoodEmpty DEF WorkNames
    <3>3. CASE argv[k].opt \notin WithArg
      <4>1. optind' = k + 1 /\ todo' = Handler(argv[k].opt, argv[k]) /\ device_sign' = device_sign
        BY <2>1, <3>3 DEF Option
      <4>2. optind' \in Nat \ {0}
        BY <4>1
      <4>3. Good(Handler(argv[k].opt, argv[k]))
        BY <1>3, <3>1, <4>2, HandlerGood
      <4> QED
        BY <1>3, <4>1, <4>3
    <3>4. CASE argv[k].opt \in WithArg /\ k = Len(argv)
      BY <1>3, <2>1, <3>2, <3>4 DEF Option
    <3>5. CASE argv[k].opt \in WithArg /\ k # Len(argv) /\ argv[k].opt # "d"
      <4>1. /\ optind' = k + 2 /\ todo' = Handler(argv[k].opt, argv[k + 1])
            /\ device_sign' = device_sign
        BY <2>1, <3>5 DEF Option
      <4>2. optind' \in Nat \ {0} /\ optind' <= Len(argv) + 1
        BY <1>3, <3>5, <4>1
      <4>3. Good(Handler(argv[k].opt, argv[k + 1]))
        BY <1>3, <3>1, <3>5, <4>2, HandlerGood
      <4> QED
        BY <1>3, <4>1, <4>2, <4>3
    <3>6. CASE argv[k].opt \in WithArg /\ k # Len(argv) /\ argv[k].opt = "d"
      <4>1. /\ optind' = k + 2
            /\ \/ todo' = << >> /\ argv[k + 1].device \in Devices
                  /\ device_sign' = confset[argv[k + 1].device]
               \/ todo' = Do("exit") /\ device_sign' = device_sign
        BY <2>1, <3>6 DEF Option
      <4>2. optind' \in 1 .. Len(argv) + 1
        BY <1>3, <3>6, <4>1
      <4>3. device_sign' \in Signs
        BY <1>3, <4>1, ConfsetType
      <4>4. Good(todo')
        BY <3>2, <4>1
      <4> QED
        BY <4>2, <4>3, <4>4
    <3> QED
      BY <3>3, <3>4, <3>5, <3>6
  <2>2. ASSUME optind' = Len(argv) + 1, todo' = IF argv = << >> THEN Do("exit") ELSE ch_exit,
               device_sign' = device_sign
        PROVE  /\ optind' \in 1 .. Len(argv) + 1 /\ device_sign' \in Signs
               /\ Good(todo') \/ todo' = ch_exit
    <3>1. Good(Do("exit"))
      BY GoodSingleDo DEF WorkNames
    <3> QED
      BY <1>3, <2>2, <3>1
  <2> QED
    BY <2>1, <2>2 DEF GetOpt
<1>5. UNCHANGED <<argv, status, read_sign2, signature, checked, bus>>
  BY DEF GetOpt
<1>6. TypeOK'
  BY <1>1, <1>4, <1>5 DEF TypeOK, bus
<1>7. \E m \in 1 .. 8 : Shape(todo', m) /\ Len(signature) = BytesRead(m)
  <2>1. \E m \in {1, 8} : Shape(todo', m)
    BY <1>4, ExitShape DEF Good
  <2>2. \A m \in {1, 8} : m \in 1 .. 8 /\ BytesRead(m) = 0
    BY DEF BytesRead
  <2> QED
    BY <1>2, <2>1, <2>2
<1> QED
  BY <1>4, <1>5, <1>6, <1>7 DEF SInv

\* The calls of ch_init.
LEMMA InitCallStep ==
  ASSUME SInv, ch341_init \/ reset_on \/ chip_prog_enable \/ read_sign \/ compare
  PROVE  SInv'
<1> USE DEF BytesRead
<1>0. /\ TypeOK /\ status = "running"
      /\ Shape(ch_exit, 8)
      /\ spi_data \in Answers /\ signature \in Seq(0 .. 255)
      /\ target \in [sign : Signs, reset : BOOLEAN, enabled : BOOLEAN]
      /\ device_sign \in Signs /\ checked \in Signs
  BY ExitShape DEF SInv, TypeOK, Answers, ch341_init, reset_on, chip_prog_enable, read_sign, compare, At
<1>1. CASE ch341_init
  <2>1. Shape(Rest, 2) /\ Len(signature) = 0
    <3>1. PICK m \in 1 .. 8 : /\ Len(signature) = BytesRead(m)
                              /\ m < 8 => "ch341_init" = InitName(m) /\ Shape(Rest, m + 1)
                              /\ m = 8 => "ch341_init" \in LaterNames /\ Shape(Rest, 8)
      BY <1>1, Current DEF ch341_init
    <3>2. m = 1
      BY <3>1 DEF InitName, LaterNames, WorkNames
    <3> QED
      BY <3>1, <3>2
  <2>2. TypeOK'
    BY <1>0, <1>1 DEF ch341_init, TypeOK
  <2>3. status' = status /\ signature' = signature /\ todo' = Rest
    BY <1>1 DEF ch341_init
  <2> QED
    BY <2>1, <2>2, <2>3 DEF SInv
<1>2. CASE reset_on
  <2>1. Shape(Rest, 3) /\ Len(signature) = 0
    <3>1. PICK m \in 1 .. 8 : /\ Len(signature) = BytesRead(m)
                              /\ m < 8 => "reset_on" = InitName(m) /\ Shape(Rest, m + 1)
                              /\ m = 8 => "reset_on" \in LaterNames /\ Shape(Rest, 8)
      BY <1>2, Current DEF reset_on
    <3>2. m = 2
      BY <3>1 DEF InitName, LaterNames, WorkNames
    <3> QED
      BY <3>1, <3>2
  <2>2. late' = late /\ lost' \in 0 .. MaxLost
    BY <1>0, <1>2, TransferType DEF reset_on
  <2>3. target' \in [sign : Signs, reset : BOOLEAN, enabled : BOOLEAN]
    BY <1>0, <1>2 DEF reset_on, Transfer
  <2>4. spi_data' \in Answers
    <3>1. spi_data' = [spi_data EXCEPT ![2] = 127, ![3] = 32]
      BY <1>2 DEF reset_on
    <3>2. 2 \in 2 .. 3 /\ 3 \in 2 .. 3 /\ 127 \in 0 .. 255 /\ 32 \in 0 .. 255
      OBVIOUS
    <3>3. [spi_data EXCEPT ![2] = 127] \in Answers
      BY <1>0, <3>2 DEF Answers
    <3>4. spi_data' = [[spi_data EXCEPT ![2] = 127] EXCEPT ![3] = 32]
      BY <3>1
    <3> QED
      BY <3>2, <3>3, <3>4 DEF Answers
  <2>5. TypeOK'
    BY <1>0, <1>2, <2>2, <2>3, <2>4 DEF reset_on, TypeOK, Answers
  <2>6. status' = status /\ signature' = signature /\ todo' = Rest
    BY <1>2 DEF reset_on
  <2> QED
    BY <2>1, <2>5, <2>6 DEF SInv
<1>3. CASE chip_prog_enable
  <2>1. Shape(Rest, 4) /\ Len(signature) = 0
    <3>1. PICK m \in 1 .. 8 : /\ Len(signature) = BytesRead(m)
                              /\ m < 8 => "chip_prog_enable" = InitName(m) /\ Shape(Rest, m + 1)
                              /\ m = 8 => "chip_prog_enable" \in LaterNames /\ Shape(Rest, 8)
      BY <1>3, Current DEF chip_prog_enable
    <3>2. m = 3
      BY <3>1 DEF InitName, LaterNames, WorkNames
    <3> QED
      BY <3>1, <3>2
  <2> DEFINE answer == [k \in 2 .. 3 |-> IF ~target.reset THEN 255 ELSE IF k = 2 THEN SYNC ELSE 0]
  <2>2. answer \in Answers
    BY DEF SYNC, Answers
  <2>3. SpiStream(target' = [target EXCEPT !.enabled = target.reset] /\ UNCHANGED effects, answer)
    BY <1>3 DEF chip_prog_enable
  <2> HIDE DEF answer
  <2>4. /\ spi_data' \in Answers /\ late' \in Seq(Answers) /\ Len(late') <= MaxLate
        /\ lost' \in 0 .. MaxLost
    BY <1>0, <2>2, <2>3, StreamType
  <2>5. target' \in [sign : Signs, reset : BOOLEAN, enabled : BOOLEAN]
    <3>1. \/ target' = [target EXCEPT !.enabled = target.reset]
          \/ target' = target
      BY <2>3 DEF SpiStream
    <3> QED
      BY <1>0, <3>1
  <2>6. TypeOK'
    BY <1>0, <1>3, <2>4, <2>5 DEF chip_prog_enable, TypeOK, Answers
  <2>7. status' = status /\ signature' = signature /\ (todo' = Rest \/ todo' = ch_exit)
    BY <1>3 DEF chip_prog_enable
  <2> QED
    BY <1>0, <2>1, <2>6, <2>7 DEF SInv
<1>4. CASE read_sign
  <2>1. PICK m \in 4 .. 6 : Len(signature) = m - 4 /\ Shape(Rest, m + 1)
    <3>1. PICK m \in 1 .. 8 : /\ Len(signature) = BytesRead(m)
                              /\ m < 8 => "read_sign" = InitName(m) /\ Shape(Rest, m + 1)
                              /\ m = 8 => "read_sign" \in LaterNames /\ Shape(Rest, 8)
      BY <1>4, Current DEF read_sign
    <3>2. m \in 4 .. 6
      BY <3>1 DEF InitName, LaterNames, WorkNames
    <3> QED
      BY <3>1, <3>2
  <2> DEFINE b == IF read_sign2 = 3 THEN Reserved ELSE target.sign[read_sign2 + 1]
  <2>2. b \in 0 .. 255
    <3>1. read_sign2 \in 0 .. 3 /\ target.sign \in Signs
      BY <1>0 DEF TypeOK
    <3> QED
      BY <3>1 DEF Signs, Reserved
  <2>3. SpiStream(NoEffect, Answer(b))
    BY <1>4 DEF read_sign
  <2> HIDE DEF b
  <2>4. /\ spi_data' \in Answers /\ late' \in Seq(Answers) /\ Len(late') <= MaxLate
        /\ lost' \in 0 .. MaxLost
    BY <1>0, <2>2, <2>3, AnswerType, StreamType
  <2>5. target' = target
    BY <2>3 DEF SpiStream, NoEffect
  <2>6. /\ signature' = Append(signature, spi_data'[3]) /\ read_sign2' = Len(signature')
        /\ todo' = Rest
        /\ UNCHANGED <<argv, optind, status, device_sign, checked, devHandle>>
    BY <1>4 DEF read_sign
  <2>7. signature' \in Seq(0 .. 255) /\ Len(signature') = m - 3 /\ read_sign2' \in 0 .. 3
        /\ Len(signature') <= 3
    <3>1. spi_data'[3] \in 0 .. 255
      BY <2>4 DEF Answers
    <3> QED
      BY <1>0, <2>1, <2>6, <3>1
  <2>8. TypeOK'
    BY <1>0, <2>4, <2>5, <2>6, <2>7 DEF TypeOK, Answers
  <2>9. Len(signature') = BytesRead(m + 1) /\ m + 1 \in 1 .. 8
    BY <2>7
  <2> QED
    BY <2>1, <2>6, <2>8, <2>9 DEF SInv
<1>5. CASE compare
  <2>1. Shape(Rest, 8)
    <3>1. PICK m \in 1 .. 8 : /\ Len(signature) = BytesRead(m)
                              /\ m < 8 => "compare" = InitName(m) /\ Shape(Rest, m + 1)
                              /\ m = 8 => "compare" \in LaterNames /\ Shape(Rest, 8)
      BY <1>5, Current DEF compare
    <3>2. m = 7
      BY <3>1 DEF InitName, LaterNames, WorkNames
    <3> QED
      BY <3>1, <3>2
  <2>2. /\ signature' = << >> /\ (todo' = Rest \/ todo' = ch_exit)
        /\ checked' \in {checked, device_sign}
        /\ UNCHANGED <<argv, optind, status, device_sign, read_sign2, bus>>
    BY <1>5 DEF compare
  <2>3. signature' \in Seq(0 .. 255) /\ Len(signature') = 0 /\ checked' \in Signs
    BY <1>0, <2>2
  <2>4. TypeOK'
    BY <1>0, <2>2, <2>3 DEF TypeOK, bus
  <2> QED
    BY <1>0, <2>1, <2>2, <2>3, <2>4 DEF SInv
<1> QED
  BY <1>1, <1>2, <1>3, <1>4, <1>5

\* What follows ch_init: the calls that exchange something, and the others.
LEMMA LaterCallStep ==
  ASSUME SInv,
         \/ read_flash \/ read_fuses \/ chip_erace \/ write_fuses \/ main_write_stream
         \/ write_eeprom \/ check_flash \/ check_flash_strict
         \/ Crash \/ reset_off \/ release \/ exit
  PROVE  SInv'
<1>0. /\ TypeOK /\ status = "running"
      /\ spi_data \in Answers /\ late \in Seq(Answers) /\ Len(late) <= MaxLate
      /\ lost \in 0 .. MaxLost /\ MaxLost \in Nat /\ MaxLate \in Nat
      /\ target \in [sign : Signs, reset : BOOLEAN, enabled : BOOLEAN]
      /\ devHandle \in BOOLEAN
  BY SessionAssumption DEF SInv, TypeOK, Answers, read_flash, read_fuses, chip_erace,
     write_fuses, main_write_stream, write_eeprom, check_flash, check_flash_strict, Crash,
     reset_off, release, exit, Modify, Check, Parsed, At
<1>1. ASSUME NEW name \in LaterNames, At(name),
             spi_data' \in Answers, late' \in Seq(Answers), Len(late') <= MaxLate,
             lost' \in 0 .. MaxLost,
             target' \in [sign : Signs, reset : BOOLEAN, enabled : BOOLEAN],
             Shape(todo', 8),
             UNCHANGED <<argv, optind, status, device_sign, read_sign2, signature, checked,
                         devHandle>>
      PROVE  SInv'
  <2>1. Len(signature) = BytesRead(8)
    BY <1>1, LaterCall
  <2>2. TypeOK'
    BY <1>0, <1>1 DEF TypeOK, Answers
  <2> QED
    BY <1>1, <2>1, <2>2 DEF SInv
<1>2. ReadMemory => late' \in Seq(Answers) /\ Len(late') <= MaxLate /\ lost' \in 0 .. MaxLost
  <2>1. Fail => lost' \in 0 .. MaxLost
    BY <1>0 DEF Fail
  <2>2. << >> \in Seq(Answers) /\ Len(<< >>) = 0
    OBVIOUS
  <2>3. late' = << >> => late' \in Seq(Answers) /\ Len(late') <= MaxLate
    BY <1>0, <2>2
  <2> QED
    BY <1>0, <2>1, <2>3 DEF ReadMemory
<1>4. CASE read_flash
  <2>1. At("read_flash") /\ "read_flash" \in LaterNames
    BY <1>4 DEF read_flash, LaterNames, WorkNames
  <2>2. Shape(Rest, 8)
    BY <2>1, LaterCall
  <2>3. /\ ReadMemory /\ todo' = Rest /\ spi_data' = spi_data /\ target' = target
        /\ UNCHANGED <<argv, optind, status, device_sign, read_sign2, signature, checked,
                       devHandle>>
    BY <1>4 DEF read_flash
  <2> QED
    BY <1>0, <1>1, <1>2, <2>1, <2>2, <2>3
<1>5. CASE read_fuses
  <2>1. At("read_fuses") /\ "read_fuses" \in LaterNames
    BY <1>5 DEF read_fuses, LaterNames, WorkNames
  <2>2. Shape(Rest, 8)
    BY <2>1, LaterCall
  <2>3. PICK b \in FuseBytes : SpiStream(NoEffect, Answer(b))
    BY <1>5 DEF read_fuses
  <2>4. /\ spi_data' \in Answers /\ late' \in Seq(Answers) /\ Len(late') <= MaxLate
        /\ lost' \in 0 .. MaxLost /\ (NoEffect \/ UNCHANGED <<target, effects>>)
    <3>1. b \in 0 .. 255
      BY SessionAssumption
    <3>2. Answer(b) \in Answers
      BY <3>1, AnswerType
    <3> QED
      BY <1>0, <2>3, <3>2, StreamType
  <2>5. target' = target
    BY <2>4 DEF NoEffect
  <2>6. /\ todo' = Rest
        /\ UNCHANGED <<argv, optind, status, device_sign, read_sign2, signature, checked,
                       devHandle>>
    BY <1>5 DEF read_fuses
  <2> QED
    BY <1>0, <1>1, <2>1, <2>2, <2>4, <2>5, <2>6
<1>6. ASSUME NEW name \in LaterNames, NEW op, Modify(name, op)
      PROVE  SInv'
  <2>1. At(name)
    BY <1>6 DEF Modify
  <2>2. Shape(Rest, 8)
    BY <2>1, LaterCall
  <2>3. SpiStream(Effect(op), Answer(0))
    BY <1>6 DEF Modify
  <2>4. /\ spi_data' \in Answers /\ late' \in Seq(Answers) /\ Len(late') <= MaxLate
        /\ lost' \in 0 .. MaxLost /\ (Effect(op) \/ UNCHANGED <<target, effects>>)
    <3>1. 0 \in 0 .. 255
      OBVIOUS
    <3>2. Answer(0) \in Answers
      BY <3>1, AnswerType
    <3> QED
      BY <1>0, <2>3, <3>2, StreamType
  <2>5. target' = target
    BY <2>4 DEF Effect
  <2>6. /\ todo' = Rest
        /\ UNCHANGED <<argv, optind, status, device_sign, read_sign2, signature, checked,
                       devHandle>>
    BY <1>6 DEF Modify
  <2> QED
    BY <1>0, <1>1, <2>1, <2>2, <2>4, <2>5, <2>6
<1>7. CASE chip_erace \/ write_fuses \/ main_write_stream \/ write_eeprom
  BY <1>6, <1>7 DEF chip_erace, write_fuses, main_write_stream, write_eeprom, LaterNames, WorkNames
<1>8. ASSUME NEW name \in LaterNames, NEW otherwise, Shape(otherwise, 8), Check(name, otherwise)
      PROVE  SInv'
  <2>1. At(name)
    BY <1>8 DEF Check, Parsed
  <2>2. Shape(todo', 8)
    BY <1>8, <2>1, LaterCall DEF Check
  <2>3. /\ ReadMemory /\ spi_data' = spi_data /\ target' = target
        /\ UNCHANGED <<argv, optind, status, device_sign, read_sign2, signature, checked,
                       devHandle>>
    BY <1>8 DEF Check
  <2> QED
    BY <1>0, <1>1, <1>2, <2>1, <2>2, <2>3
<1>9. CASE check_flash \/ check_flash_strict
  <2>1. Shape(Do("exit"), 8)
    <3>1. Do("exit") = DoWith("exit", NoArg) /\ NoArg \in Args
      BY DEF Do, DoWith, Args
    <3>2. /\ Do("exit") \in Seq(Call) /\ Len(Do("exit")) = 1
          /\ Do("exit")[1].call = "exit" /\ "exit" \in LaterNames
      BY <3>1, OneCall DEF LaterNames, WorkNames
    <3> QED
      BY <3>2 DEF Shape
  <2> QED
    BY <1>8, <1>9, <2>1, ExitShape DEF check_flash, check_flash_strict, LaterNames, WorkNames
<1>10. CASE reset_off
  <2>1. At("reset_off") /\ "reset_off" \in LaterNames
    BY <1>10 DEF reset_off, LaterNames
  <2>2. Shape(Rest, 8)
    BY <2>1, LaterCall
  <2>3. late' = late /\ lost' \in 0 .. MaxLost
    BY <1>0, <1>10, TransferType DEF reset_off
  <2>4. target' \in [sign : Signs, reset : BOOLEAN, enabled : BOOLEAN]
    <3>1. \/ target' = [target EXCEPT !.reset = FALSE, !.enabled = FALSE]
          \/ target' = target
      BY <1>10 DEF reset_off, Transfer
    <3> QED
      BY <1>0, <3>1
  <2>5. spi_data' \in Answers
    BY <1>0, <1>10 DEF reset_off, Answers
  <2>6. /\ todo' = Rest
        /\ UNCHANGED <<argv, optind, status, device_sign, read_sign2, signature, checked,
                       devHandle>>
    BY <1>10 DEF reset_off
  <2> QED
    BY <1>0, <1>1, <2>1, <2>2, <2>3, <2>4, <2>5, <2>6
<1>11. CASE Crash \/ release \/ exit
  <2>1. /\ status' \in {"ch_exit", "exit", "crashed"} /\ devHandle' \in BOOLEAN
        /\ UNCHANGED <<argv, optind, device_sign, read_sign2, signature, checked,
                       spi_data, target, late, lost>>
    BY <1>0, <1>11 DEF Crash, release, exit, bus
  <2>2. TypeOK'
    BY <1>0, <2>1 DEF TypeOK
  <2> QED
    BY <2>1, <2>2 DEF SInv
<1> QED
  BY <1>4, <1>5, <1>7, <1>9, <1>10, <1>11

LEMMA SessionStep == SInv /\ [Next]_vars => SInv'
<1> SUFFICES ASSUME SInv, [Next]_vars PROVE SInv'
  OBVIOUS
<1>1. CASE UNCHANGED vars
  BY <1>1 DEF SInv, TypeOK, vars, program, bus
<1> QED
  BY <1>1, GetOptStep, InitCallStep, LaterCallStep DEF Next

\* TypeOK, for every command line, chip and bus: main keeps its types, in
\* particular check_signature never reads a fourth byte of the signature and no
\* more answers wait than may.
THEOREM TypeCorrect == Spec => []TypeOK
<1>1. SInv => TypeOK
  BY DEF SInv
<1> QED
  BY <1>1, SessionInit, SessionStep, PTL DEF Spec

-----------------------------------------------------------------------------
(* Leaving reset *)

\* A release is behind a reset_off.
Pending(s) ==
  \A k \in 1 .. Len(s) : s[k].call = "release" => k # 1 /\ s[k - 1].call = "reset_off"

\* The release that comes next has the reset line up, or a failure behind it.
\* Only an open adapter can have pulled the reset line.
RInv ==
  /\ status = "running" /\ target.reset => devHandle
  /\ status = "running" =>
       \A k \in 1 .. Len(todo) :
         todo[k].call = "release" => IF k = 1 THEN target.reset => lost > 0
                                     ELSE todo[k - 1].call = "reset_off"
  /\ TargetReleased

LEMMA ExitPending == Pending(ch_exit)
  BY ExitShape DEF Pending

LEMMA QuietPending == \A s : Quiet(s) => Pending(s)
  BY DEF Quiet, Pending

\* The rest of todo, behind a reset_off and behind another call.
LEMMA RestPending ==
  ASSUME SInv, RInv, NEW name, At(name)
  PROVE  /\ \A k \in 2 .. Len(Rest) :
              Rest[k].call = "release" => Rest[k - 1].call = "reset_off"
         /\ name # "reset_off" => Pending(Rest)
<1>1. todo # << >> /\ Head(todo).call = name /\ status = "running"
  BY DEF At
<1>2. todo \in Seq(Call)
  BY <1>1 DEF SInv, Shape
<1>3. /\ Len(todo) \in Nat \ {0} /\ Head(todo) = todo[1]
      /\ Len(Rest) = Len(todo) - 1
      /\ \A k \in 1 .. Len(todo) - 1 : Rest[k] = todo[k + 1]
  BY <1>1, <1>2 DEF Rest
<1>4. ASSUME NEW k \in 1 .. Len(Rest), Rest[k].call = "release"
      PROVE  todo[k].call = "reset_off"
  <2>1. k + 1 \in 1 .. Len(todo) /\ todo[k + 1].call = "release"
    BY <1>3, <1>4
  <2>2. k + 1 # 1 /\ (k + 1) - 1 = k
    OBVIOUS
  <2> QED
    BY <1>1, <2>1, <2>2 DEF RInv
<1>5. ASSUME NEW k \in 2 .. Len(Rest) PROVE Rest[k - 1] = todo[k]
  <2>1. k - 1 \in 1 .. Len(todo) - 1 /\ (k - 1) + 1 = k
    BY <1>3
  <2> QED
    BY <1>3, <2>1
<1>6. \A k \in 2 .. Len(Rest) : Rest[k].call = "release" => Rest[k - 1].call = "reset_off"
  BY <1>4, <1>5
<1>7. ASSUME name # "reset_off" PROVE Pending(Rest)
  <2>1. ASSUME NEW k \in 1 .. Len(Rest), Rest[k].call = "release"
        PROVE  k # 1 /\ Rest[k - 1].call = "reset_off"
    <3>1. k # 1
      BY <1>1, <1>3, <1>4, <1>7, <2>1
    <3> QED
      BY <1>6, <2>1, <3>1
  <2> QED
    BY <2>1 DEF Pending
<1> QED
  BY <1>6, <1>7

LEMMA OrdinaryStep ==
  ASSUME status' = "running", Pending(todo)', target'.reset => devHandle'
  PROVE  RInv'
  BY DEF RInv, Pending, TargetReleased

\* A step other than reset_off and the last one of the process.
LEMMA RunningStep ==
  ASSUME SInv, RInv, SInv',
         \/ GetOpt
         \/ ch341_init \/ reset_on \/ chip_prog_enable \/ read_sign \/ compare
         \/ read_flash \/ read_fuses \/ chip_erace \/ write_fuses \/ main_write_stream
         \/ write_eeprom \/ check_flash \/ check_flash_strict
  PROVE  RInv'
<1>0. target \in [sign : Signs, reset : BOOLEAN, enabled : BOOLEAN]
  BY DEF SInv, TypeOK
<1>1. ASSUME NEW name, name # "reset_off", At(name), status' = status,
             todo' = Rest \/ Quiet(todo') \/ todo' = ch_exit,
             target' = target, devHandle => devHandle'
      PROVE  RInv'
  <2>1. status' = "running" /\ (target'.reset => devHandle')
    BY <1>1 DEF RInv, At
  <2>2. Pending(todo')
    BY <1>1, RestPending, ExitPending, QuietPending
  <2> QED
    BY <2>1, <2>2, OrdinaryStep
<1>2. CASE GetOpt
  <2>1. /\ status = "running" /\ status' = "running"
        /\ target' = target /\ devHandle' = devHandle
    BY <1>2 DEF GetOpt, bus
  <2>2. Good(todo') \/ todo' = ch_exit
    BY <1>2, GetOptStep
  <2>3. Pending(todo')
    BY <2>2, ExitPending, QuietPending DEF Good
  <2>4. target'.reset => devHandle'
    BY <2>1 DEF RInv
  <2> QED
    BY <2>1, <2>3, <2>4, OrdinaryStep
<1>3. CASE ch341_init
  BY <1>1, <1>3 DEF ch341_init
<1>4. CASE reset_on
  <2>1. /\ At("reset_on") /\ todo' = Rest /\ status' = status /\ devHandle' = devHandle
        /\ devHandle \/ target' = target
    BY <1>4 DEF reset_on, Transfer
  <2>2. status' = "running" /\ (target'.reset => devHandle')
    BY <2>1 DEF RInv, At
  <2>3. Pending(todo')
    BY <2>1, RestPending
  <2> QED
    BY <2>2, <2>3, OrdinaryStep
<1>5. CASE chip_prog_enable
  <2>1. /\ At("chip_prog_enable") /\ status' = status /\ devHandle' = devHandle
        /\ todo' = Rest \/ todo' = ch_exit
        /\ \/ target' = [target EXCEPT !.enabled = target.reset]
           \/ target' = target
    BY <1>5 DEF chip_prog_enable, SpiStream
  <2>2. target'.reset = target.reset
    BY <1>0, <2>1
  <2>3. status' = "running" /\ (target'.reset => devHandle')
    BY <2>1, <2>2 DEF RInv, At
  <2>4. Pending(todo')
    BY <2>1, RestPending, ExitPending
  <2> QED
    BY <2>3, <2>4, OrdinaryStep
<1>6. CASE read_sign
  <2>1. /\ At("read_sign") /\ status' = status /\ devHandle' = devHandle /\ todo' = Rest
        /\ target' = target
    BY <1>6 DEF read_sign, SpiStream, NoEffect
  <2> QED
    BY <1>1, <2>1
<1>7. CASE compare
  BY <1>1, <1>7 DEF compare, bus
<1>8. CASE read_flash
  BY <1>1, <1>8 DEF read_flash
<1>9. CASE read_fuses
  <2>1. /\ At("read_fuses") /\ status' = status /\ devHandle' = devHandle /\ todo' = Rest
        /\ target' = target
    BY <1>9 DEF read_fuses, SpiStream, NoEffect
  <2> QED
    BY <1>1, <2>1
<1>10. ASSUME NEW name, name # "reset_off", NEW op, Modify(name, op)
       PROVE  RInv'
  <2>1. /\ At(name) /\ status' = status /\ devHandle' = devHandle /\ todo' = Rest
        /\ target' = target
    BY <1>10 DEF Modify, SpiStream, Effect
  <2> QED
    BY <1>1, <1>10, <2>1
<1>11. CASE chip_erace \/ write_fuses \/ main_write_stream \/ write_eeprom
  BY <1>10, <1>11 DEF chip_erace, write_fuses, main_write_stream, write_eeprom
<1>12. CASE check_flash \/ check_flash_strict
  <2>1. Quiet(Do("exit"))
    BY DEF Quiet, Do
  <2> QED
    BY <1>1, <1>12, <2>1 DEF check_flash, check_flash_strict, Check, Parsed
<1> QED
  BY <1>2, <1>3, <1>4, <1>5, <1>6, <1>7, <1>8, <1>9, <1>11, <1>12

\* reset_off releases the line, or a transfer has failed.
LEMMA ResetOffStep ==
  ASSUME SInv, RInv, reset_off, MaxLost # 0
  PROVE  RInv'
<1>1. /\ At("reset_off") /\ status = "running" /\ status' = status /\ todo' = Rest
      /\ devHandle' = devHandle
  BY DEF reset_off, At
<1>2. target \in [sign : Signs, reset : BOOLEAN, enabled : BOOLEAN] /\ lost \in 0 .. MaxLost
  BY DEF SInv, TypeOK
<1>3. \/ target' = [target EXCEPT !.reset = FALSE, !.enabled = FALSE]
      \/ target' = target /\ Fail
  BY DEF reset_off, Transfer
<1>4. target'.reset => devHandle /\ target' = target /\ Fail
  BY <1>1, <1>2, <1>3 DEF RInv
<1>5. ASSUME target'.reset PROVE lost' > 0
  <2>1. lost' = IF lost < MaxLost THEN lost + 1 ELSE lost
    BY <1>4, <1>5 DEF Fail
  <2> QED
    BY <1>2, <2>1, SessionAssumption
<1>6. \A k \in 2 .. Len(Rest) : Rest[k].call = "release" => Rest[k - 1].call = "reset_off"
  BY <1>1, RestPending
<1>7. ASSUME NEW k \in 1 .. Len(todo'), todo'[k].call = "release"
      PROVE  IF k = 1 THEN target'.reset => lost' > 0 ELSE todo'[k - 1].call = "reset_off"
  <2>1. CASE k = 1
    BY <1>5, <2>1
  <2>2. CASE k # 1
    <3>1. k \in 2 .. Len(Rest) /\ Rest[k].call = "release"
      BY <1>1, <1>7, <2>2
    <3> QED
      BY <1>1, <1>6, <2>2, <3>1
  <2> QED
    BY <2>1, <2>2
<1> QED
  BY <1>1, <1>4, <1>7 DEF RInv, TargetReleased

LEMMA LastStep ==
  ASSUME SInv, RInv, Crash \/ release \/ exit
  PROVE  RInv'
<1>1. CASE Crash \/ exit
  BY <1>1 DEF Crash, exit, RInv, TargetReleased
<1>2. CASE release
  <2>1. /\ status = "running" /\ todo # << >> /\ Head(todo).call = "release"
        /\ status' = "ch_exit" /\ target' = target /\ lost' = lost
    BY <1>2 DEF release, At
  <2>2. todo \in Seq(Call)
    BY <2>1 DEF SInv, Shape
  <2>3. 1 \in 1 .. Len(todo) /\ todo[1].call = "release"
    BY <2>1, <2>2
  <2>4. target.reset => lost > 0
    BY <2>1, <2>3 DEF RInv
  <2> QED
    BY <2>1, <2>4 DEF RInv, TargetReleased
<1> QED
  BY <1>1, <1>2

\* TargetReleased, when at least one failure is counted: every way through
\* ch_exit lets the target leave reset, or a transfer has failed.
THEOREM TargetReleasedAtExit ==
  ASSUME MaxLost # 0
  PROVE  Spec => []TargetReleased
<1>1. Init => RInv
  <2> SUFFICES ASSUME Init PROVE RInv
    OBVIOUS
  <2>1. status = "running" /\ todo = << >> /\ target.reset = FALSE
    BY DEF Init
  <2> QED
    BY <2>1 DEF RInv, TargetReleased
<1>2. SInv /\ SInv' /\ RInv /\ [Next]_vars => RInv'
  <2> SUFFICES ASSUME SInv, SInv', RInv, [Next]_vars PROVE RInv'
    OBVIOUS
  <2>1. CASE UNCHANGED vars
    BY <2>1 DEF RInv, TargetReleased, vars, program, bus
  <2> QED
    BY <2>1, RunningStep, ResetOffStep, LastStep DEF Next
<1>3. RInv => TargetReleased
  BY DEF RInv
<1> QED
  BY <1>1, <1>2, <1>3, SessionInit, SessionStep, PTL DEF Spec

-----------------------------------------------------------------------------
(* The signature check *)

\* The signature of an AVR chip: the manufacturer, the size of the flash as
\* 16#90# and a power of two, and a part number that is none of the other bytes
\* which may be compared.
AvrSign(s) ==
  /\ s[1] = 30 /\ s[2] \in 144 .. 159
  /\ s[3] \notin {0, 30, 255} /\ s[3] \notin 144 .. 159

\* The third bytes that spi_data can have while a signature is read: of the answer
\* that enabled programming, of an idle line, or of the signature of the chip.
Carried == {0, 255, target.sign[1], target.sign[2], target.sign[3]}
Clean == {x \in Answers : x[3] \in Carried}
NoEcho == {x \in Answers : x[2] # SYNC}
NoZero == {x \in Answers : x[3] # 0}

\* Only the end of the process is left.
Leaving == todo = ch_exit \/ todo = Tail(ch_exit) \/ todo = Do("exit")
Working == \A k \in 1 .. Len(todo) : todo[k].call \notin InitNames
Zeros == \A k \in 1 .. Len(signature) : signature[k] = 0

\* The bytes that are compared come from this chip or are no bytes of a device, and
\* a signature of zeros has cost three exchanges: no answer waits and spi_data is new
\* when programming has been enabled, whatever fuses were read before, and the
\* answers that come later are not zero.
GateInv ==
  /\ target.sign \in Targets
  /\ device_sign = NoSign \/ \E d \in Devices : device_sign = confset[d]
  /\ signature \in Seq(Carried)
  /\ checked \in {NoSign, target.sign}
  /\ SignatureGate
  /\ status = "running" /\ ~Leaving =>
       /\ late \in Seq(NoEcho)
       /\ At("chip_prog_enable") => spi_data \in NoEcho
       /\ At("read_sign") \/ At("compare") =>
            /\ devHandle
            /\ spi_data \in Clean
            /\ late \in Seq(Clean) /\ late \in Seq(NoZero)
            /\ Zeros => lost >= Len(signature)
       /\ target.reset /\ target.enabled /\ Working => checked # NoSign \/ lost >= 3

\* The signatures of config.c are of that kind.
LEMMA ConfsetAvr == \A d \in DOMAIN confset : AvrSign(confset[d])
BY DEF confset, AvrSign

\* Of the signatures that can be asked for, only that of the chip, or none, can
\* be put together from such bytes.
LEMMA NoConfusion ==
  ASSUME \A t \in Targets : AvrSign(t), GateInv, signature = device_sign
  PROVE  device_sign \in {NoSign, target.sign}
<1> SUFFICES ASSUME NEW d \in Devices, device_sign = confset[d]
             PROVE  device_sign = target.sign
  BY DEF GateInv
<1> DEFINE s == device_sign
           t == target.sign
<1>1. t \in Signs /\ s \in Signs /\ AvrSign(t) /\ AvrSign(s)
  BY SessionAssumption, ConfsetType, ConfsetAvr DEF GateInv
<1>2. s[1] \in Carried /\ s[2] \in Carried /\ s[3] \in Carried
  <2>1. s \in Seq(Carried) /\ DOMAIN s = 1 .. 3
    BY <1>1 DEF GateInv, Signs
  <2>2. \A k \in DOMAIN s : s[k] \in Carried
    BY <2>1
  <2> QED
    BY <2>1, <2>2
<1>3. Carried = {0, 255, t[1], t[2], t[3]}
  BY DEF Carried
<1> HIDE DEF s, t
<1>4. s[1] = t[1] /\ s[2] = t[2] /\ s[3] = t[3]
  BY <1>1, <1>2, <1>3 DEF AvrSign
<1>5. \A k \in 1 .. 3 : s[k] = t[k]
  BY <1>4
<1>6. s = t
  BY <1>1, <1>5 DEF Signs
<1> QED
  BY <1>6 DEF s, t

LEMMA ExitCalls ==
  /\ ch_exit # << >> /\ Head(ch_exit).call = "reset_off"
  /\ Tail(ch_exit) # << >> /\ Head(Tail(ch_exit)).call = "release"
  /\ Do("exit") # << >> /\ Head(Do("exit")).call = "exit"
<1>1. ch_exit \in Seq(Call) /\ Len(ch_exit) = 2
  BY ExitShape DEF Shape
<1>2. /\ Head(ch_exit) = ch_exit[1] /\ ch_exit # << >>
      /\ Tail(ch_exit) \in Seq(Call) /\ Len(Tail(ch_exit)) = 1
      /\ \A k \in 1 .. 1 : Tail(ch_exit)[k] = ch_exit[k + 1]
  BY <1>1
<1>3. \A u \in Seq(Call) : Len(u) = 1 => u # << >> /\ Head(u) = u[1]
  BY SMTT(20)
<1>4. 1 \in 1 .. 1 /\ 1 + 1 = 2
  OBVIOUS
<1>5. Tail(ch_exit) # << >> /\ Head(Tail(ch_exit)) = ch_exit[2]
  BY <1>2, <1>3, <1>4
<1> QED
  BY <1>2, <1>5, ExitShape DEF Do

LEMMA LeavingCalls ==
  ASSUME Leaving, NEW name, At(name)
  PROVE  /\ name \in {"reset_off", "release", "exit"}
         /\ name = "reset_off" => todo = ch_exit
<1>1. Head(todo).call = name
  BY DEF At
<1> QED
  BY <1>1, ExitCalls DEF Leaving

LEMMA NotLeaving == todo = << >> => ~Leaving
BY ExitCalls DEF Leaving

\* The calls that come first, and whether there are calls of ch_init.
LEMMA FirstCall ==
  ASSUME NEW s, NEW m \in 1 .. 8, Shape(s, m)
  PROVE  /\ m < 8 => s # << >> /\ Head(s).call = InitName(m) /\ 1 \in 1 .. Len(s)
                     /\ s[1].call \in InitNames
         /\ m = 8 => \A k \in 1 .. Len(s) : s[k].call \notin InitNames
<1>1. \A name \in LaterNames : name \notin InitNames
  BY DEF LaterNames, WorkNames, InitNames
<1>2. ASSUME m < 8
      PROVE  s # << >> /\ Head(s).call = InitName(m) /\ 1 \in 1 .. Len(s)
             /\ s[1].call \in InitNames
  <2>1. s \in Seq(Call) /\ Len(s) \in Nat /\ Len(s) >= 1
    BY <1>2 DEF Shape
  <2>2. s # << >> /\ Head(s) = s[1]
    BY <2>1
  <2>3. Head(s).call = InitName(m)
    BY <1>2, <2>2, NextCall
  <2>4. InitName(m) \in InitNames
    BY DEF InitName, InitNames
  <2> QED
    BY <2>1, <2>2, <2>3, <2>4
<1>3. ASSUME m = 8 PROVE \A k \in 1 .. Len(s) : s[k].call \notin InitNames
  <2>1. \A k \in 1 .. Len(s) : s[k].call \in LaterNames
    BY <1>3 DEF Shape
  <2> QED
    BY <1>1, <2>1
<1> QED
  BY <1>2, <1>3

\* The calls of ch_init come one after the other.
LEMMA InitRest ==
  ASSUME SInv
  PROVE  /\ At("ch341_init") => Shape(Rest, 2)
         /\ At("reset_on") => Shape(Rest, 3)
         /\ At("chip_prog_enable") => Shape(Rest, 4) /\ Len(signature) = 0
         /\ At("read_sign") => \E m \in 4 .. 6 : Len(signature) = m - 4 /\ Shape(Rest, m + 1)
         /\ At("compare") => Shape(Rest, 8) /\ Len(signature) = 3
<1> SUFFICES ASSUME NEW name \in InitNames, At(name)
             PROVE  /\ name = "ch341_init" => Shape(Rest, 2)
                    /\ name = "reset_on" => Shape(Rest, 3)
                    /\ name = "chip_prog_enable" => Shape(Rest, 4) /\ Len(signature) = 0
                    /\ name = "read_sign" =>
                         \E m \in 4 .. 6 : Len(signature) = m - 4 /\ Shape(Rest, m + 1)
                    /\ name = "compare" => Shape(Rest, 8) /\ Len(signature) = 3
  BY DEF InitNames
<1>1. PICK m \in 1 .. 8 : /\ Len(signature) = BytesRead(m)
                          /\ m < 8 => name = InitName(m) /\ Shape(Rest, m + 1)
                          /\ m = 8 => name \in LaterNames /\ Shape(Rest, 8)
  BY Current
<1>2. m < 8 /\ name = InitName(m)
  BY <1>1 DEF InitNames, LaterNames, WorkNames
<1>3. /\ name = "ch341_init" => m = 1
      /\ name = "reset_on" => m = 2
      /\ name = "chip_prog_enable" => m = 3
      /\ name = "read_sign" => m \in 4 .. 6
      /\ name = "compare" => m = 7
  BY <1>2 DEF InitName
<1> QED
  BY <1>1, <1>2, <1>3 DEF BytesRead

\* What an exchange reads and leaves in the adapter is of the kind that was
\* there before.
LEMMA StreamIn ==
  ASSUME NEW S, late \in Seq(S), NEW answer \in S, NEW ACTION A, SpiStream(A, answer)
  PROVE  late' \in Seq(S) /\ (spi_data' \in S \/ (spi_data' = spi_data /\ Fail))
<1> DEFINE queue == Append(late, answer)
<1>1. /\ queue \in Seq(S) /\ Head(queue) \in S /\ Tail(queue) \in Seq(S)
  BY QueueType
<1> HIDE DEF queue
<1> QED
  BY <1>1 DEF SpiStream, queue

LEMMA LostGrows ==
  ASSUME SInv, Fail \/ UNCHANGED lost
  PROVE  lost' >= lost
BY SessionAssumption DEF SInv, TypeOK, Fail

LEMMA StreamLost ==
  ASSUME NEW answer, NEW ACTION A, SpiStream(A, answer)
  PROVE  Fail \/ UNCHANGED lost
BY DEF SpiStream

\* Where the target is not modified the gate stays as it is.
LEMMA GateFrame ==
  ASSUME SInv, SignatureGate, effects' = effects, target.sign' = target.sign, lost' >= lost,
         lost' \in 0 .. MaxLost
  PROVE  SignatureGate'
BY SessionAssumption DEF SInv, TypeOK, SignatureGate

LEMMA CarriedFrame ==
  ASSUME target'.sign = target.sign
  PROVE  Carried' = Carried /\ Clean' = Clean
BY DEF Carried, Clean

LEMMA GateInit == Init => GateInv
<1> SUFFICES ASSUME Init PROVE GateInv
  OBVIOUS
<1>1. /\ target.sign \in Targets /\ target.enabled = FALSE
      /\ device_sign = NoSign /\ checked = NoSign /\ effects = {}
      /\ spi_data = [b \in 2 .. 3 |-> 0] /\ late = << >> /\ signature = << >> /\ todo = << >>
  BY DEF Init
<1>3. late \in Seq(NoEcho) /\ signature \in Seq(Carried)
  BY <1>1
<1>4. \A name : ~At(name)
  BY <1>1 DEF At
<1> QED
  BY <1>1, <1>3, <1>4 DEF GateInv, SignatureGate

\* Behind the last call of ch_init none of its calls comes next.
LEMMA LaterNext ==
  ASSUME Shape(todo', 8)
  PROVE  Working' /\ \A name \in InitNames : ~At(name)'
<1>1. Working'
  BY FirstCall DEF Working
<1>2. ASSUME NEW name \in InitNames, At(name)' PROVE FALSE
  <2>1. todo' # << >> /\ Head(todo').call = name
    BY <1>2 DEF At
  <2>2. Head(todo').call \in LaterNames
    BY <2>1, NextCall
  <2> QED
    BY <2>1, <2>2 DEF InitNames, LaterNames, WorkNames
<1> QED
  BY <1>1, <1>2

\* Which call of ch_init comes next.
LEMMA InitNext ==
  ASSUME NEW m \in 1 .. 7, Shape(todo', m)
  PROVE  ~Working' /\ \A name : At(name)' => name = InitName(m)
<1>1. Head(todo').call = InitName(m) /\ 1 \in 1 .. Len(todo') /\ todo'[1].call \in InitNames
  BY FirstCall
<1> QED
  BY <1>1 DEF Working, At

LEMMA LaterWorking ==
  ASSUME SInv, NEW name \in LaterNames, At(name)
  PROVE  Working
<1>1. PICK m \in 1 .. 8 : Shape(todo, m)
  BY DEF SInv, At
<1>2. todo # << >> /\ Head(todo).call = name
  BY DEF At
<1>3. \A n \in 1 .. 7 : InitName(n) \notin LaterNames
  BY DEF InitName, LaterNames, WorkNames
<1>4. m = 8
  BY <1>1, <1>2, <1>3, FirstCall
<1> QED
  BY <1>1, <1>4, FirstCall DEF Working

\* What the steps behind ch_init have in common.
LEMMA GateLater ==
  ASSUME SInv, SInv', GateInv, NEW name \in LaterNames, At(name),
         status' = status, Leaving' \/ Shape(todo', 8), Leaving => Leaving',
         target'.sign = target.sign,
         target'.reset /\ target'.enabled => target.reset /\ target.enabled,
         late \in Seq(NoEcho) => late' \in Seq(NoEcho),
         lost' >= lost, SignatureGate',
         UNCHANGED <<device_sign, signature, checked>>
  PROVE  GateInv'
<1>1. Carried' = Carried /\ NoEcho' = NoEcho
  BY CarriedFrame DEF NoEcho
<1>2. /\ target'.sign \in Targets
      /\ device_sign' = NoSign \/ \E d \in Devices : device_sign' = confset[d]
      /\ signature' \in Seq(Carried')
      /\ checked' \in {NoSign, target'.sign}
  BY <1>1 DEF GateInv
<1>3. ASSUME ~Leaving', status' = "running"
      PROVE  /\ late' \in Seq(NoEcho')
             /\ \A n \in InitNames : ~At(n)'
             /\ target'.reset /\ target'.enabled /\ Working' => checked' # NoSign \/ lost' >= 3
  <2>1. ~Leaving /\ status = "running" /\ Working
    BY <1>3, LaterWorking
  <2>2. late \in Seq(NoEcho) /\ (target.reset /\ target.enabled => checked # NoSign \/ lost >= 3)
    BY <2>1 DEF GateInv
  <2>3. \A n \in InitNames : ~At(n)'
    BY <1>3, LaterNext
  <2>4. lost >= 3 => lost' >= 3
    <3>1. lost \in Int /\ lost' \in Int /\ lost' >= lost
      BY SessionAssumption DEF SInv, TypeOK
    <3> QED
      BY <3>1
  <2> QED
    BY <1>1, <2>2, <2>3, <2>4
<1>4. {"chip_prog_enable", "read_sign", "compare"} \subseteq InitNames
  BY DEF InitNames
<1> QED
  BY <1>2, <1>3, <1>4 DEF GateInv

LEMMA GateOpt ==
  ASSUME SInv, GateInv, GetOpt
  PROVE  GateInv'
<1>1. /\ status = "running" /\ todo = << >>
      /\ UNCHANGED <<status, signature, checked, devHandle, spi_data, target, effects, late, lost>>
  BY DEF GetOpt, bus
<1>2. ~Leaving /\ Working
  BY <1>1, NotLeaving DEF Working
<1>3. device_sign' = NoSign \/ \E d \in Devices : device_sign' = confset[d]
  <2>1. ASSUME NEW k \in 1 .. Len(argv), Option(k)
        PROVE  device_sign' = device_sign \/ \E d \in Devices : device_sign' = confset[d]
    BY <2>1 DEF Option
  <2>2. device_sign' = device_sign \/ \E d \in Devices : device_sign' = confset[d]
    BY <2>1 DEF GetOpt
  <2> QED
    BY <2>2 DEF GateInv
<1>4. Carried' = Carried /\ Clean' = Clean /\ NoEcho' = NoEcho
  BY <1>1, CarriedFrame DEF NoEcho
<1>5. SignatureGate'
  BY <1>1 DEF SignatureGate, GateInv
<1>6. ASSUME ~Leaving'
      PROVE  ~At("chip_prog_enable")' /\ ~At("read_sign")' /\ ~At("compare")'
  <2>1. todo' # ch_exit
    BY <1>6 DEF Leaving
  <2>2. PICK m \in {1, 8} : Shape(todo', m)
    BY <2>1, GetOptStep DEF Good
  <2>3. CASE m = 8
    BY <2>2, <2>3, LaterNext DEF InitNames
  <2>4. CASE m = 1
    <3>1. m \in 1 .. 7 /\ InitName(m) = "ch341_init"
      BY <2>4 DEF InitName
    <3> QED
      BY <2>2, <3>1, InitNext
  <2> QED
    BY <2>3, <2>4
<1> QED
  BY <1>1, <1>2, <1>3, <1>4, <1>5, <1>6 DEF GateInv

LEMMA GateInitCalls ==
  ASSUME SInv, SInv', GateInv, ch341_init \/ reset_on
  PROVE  GateInv'
<1>1. /\ UNCHANGED <<status, device_sign, signature, checked, effects, late>>
      /\ todo' = Rest /\ status = "running"
      /\ target'.sign = target.sign
      /\ Fail \/ UNCHANGED lost
  <2>1. CASE ch341_init
    BY <2>1 DEF ch341_init, At
  <2>2. CASE reset_on
    <3>1. target \in [sign : Signs, reset : BOOLEAN, enabled : BOOLEAN]
      BY DEF SInv, TypeOK
    <3>2. target' = target \/ target' = [target EXCEPT !.reset = TRUE]
      BY <2>2 DEF reset_on, Transfer
    <3>3. target'.sign = target.sign
      BY <3>1, <3>2
    <3> QED
      BY <2>2, <3>3 DEF reset_on, Transfer, At
  <2> QED
    BY <2>1, <2>2
<1>2. ~Leaving
  BY LeavingCalls DEF ch341_init, reset_on
<1>3. PICK m \in 2 .. 3 : /\ Shape(todo', m)
                          /\ m = 2 => ch341_init
                          /\ m = 3 => reset_on
  BY <1>1, InitRest DEF ch341_init, reset_on
<1>4. ~Working' /\ \A name : At(name)' => name = InitName(m)
  BY <1>3, InitNext
<1>5. Carried' = Carried /\ Clean' = Clean /\ NoEcho' = NoEcho
  BY <1>1, CarriedFrame DEF NoEcho
<1>6. lost' >= lost /\ lost' \in 0 .. MaxLost
  BY <1>1, LostGrows DEF SInv, TypeOK
<1>7. SignatureGate'
  BY <1>1, <1>6, GateFrame DEF GateInv
<1>8. m = 3 => spi_data' \in NoEcho
  <2> SUFFICES ASSUME m = 3 PROVE spi_data' \in NoEcho
    OBVIOUS
  <2>1. spi_data \in Answers /\ spi_data' = [spi_data EXCEPT ![2] = 127, ![3] = 32]
    BY <1>3 DEF reset_on, SInv, TypeOK, Answers
  <2>2. spi_data'[2] = 127
    BY <2>1 DEF Answers
  <2>3. spi_data' \in Answers
    BY DEF SInv, TypeOK, Answers
  <2> QED
    BY <2>2, <2>3 DEF NoEcho, SYNC
<1>9. InitName(m) # "read_sign" /\ InitName(m) # "compare" /\ (InitName(m) = "chip_prog_enable" => m = 3)
  BY DEF InitName
<1> QED
  BY <1>1, <1>2, <1>4, <1>5, <1>7, <1>8, <1>9 DEF GateInv

\* The answer to an instruction.
LEMMA AnswerIn ==
  ASSUME NEW b \in 0 .. 255
  PROVE  /\ Answer(b) \in NoEcho /\ (b # 0 => Answer(b) \in NoZero)
         /\ b \in Carried => Answer(b) \in Clean
<1>1. Answer(b) \in Answers
  BY AnswerType
<1>2. Answer(b)[2] \in {0, 255} /\ Answer(b)[3] \in {b, 255}
  BY DEF Answer
<1> QED
  BY <1>1, <1>2 DEF Clean, NoEcho, NoZero, Carried, SYNC

\* With programming enabled the adapter is open and no answer waits.
LEMMA GateEnable ==
  ASSUME SInv, SInv', GateInv, chip_prog_enable
  PROVE  GateInv'
<1> DEFINE answer == [k \in 2 .. 3 |-> IF ~target.reset THEN 255 ELSE IF k = 2 THEN SYNC ELSE 0]
<1>1. /\ status = "running" /\ At("chip_prog_enable")
      /\ UNCHANGED <<status, device_sign, signature, checked, devHandle>>
      /\ SpiStream(target' = [target EXCEPT !.enabled = target.reset] /\ UNCHANGED effects, answer)
      /\ todo' = IF spi_data'[2] = SYNC THEN Rest ELSE ch_exit
  BY DEF chip_prog_enable, At
<1>2. answer \in Clean
  BY DEF SYNC, Answers, Clean, Carried
<1> HIDE DEF answer
<1>5. target'.sign = target.sign /\ effects' = effects
  <2>1. target \in [sign : Signs, reset : BOOLEAN, enabled : BOOLEAN]
    BY DEF SInv, TypeOK
  <2>2. /\ effects' = effects
        /\ target' = target \/ target' = [target EXCEPT !.enabled = target.reset]
    BY <1>1 DEF SpiStream
  <2> QED
    BY <2>1, <2>2
<1>6. lost' >= lost /\ lost' \in 0 .. MaxLost
  BY <1>1, StreamLost, LostGrows DEF SInv, TypeOK
<1>7. SignatureGate'
  BY <1>5, <1>6, GateFrame DEF GateInv
<1>8. Carried' = Carried /\ Clean' = Clean /\ NoEcho' = NoEcho /\ NoZero' = NoZero
  BY <1>5, CarriedFrame DEF NoEcho, NoZero
<1>9. ~Leaving
  BY <1>1, LeavingCalls
<1>10. CASE spi_data'[2] # SYNC
  BY <1>1, <1>5, <1>7, <1>8, <1>10 DEF GateInv, Leaving
<1>11. CASE spi_data'[2] = SYNC
  <2>1. Shape(todo', 4) /\ Len(signature) = 0
    BY <1>1, <1>11, InitRest
  <2>2. late \in Seq(NoEcho) /\ spi_data[2] # SYNC
    BY <1>1, <1>9 DEF GateInv, NoEcho
  <2>3. /\ devHandle
        /\ spi_data' = Head(Append(late, answer)) /\ late' = Tail(Append(late, answer))
    BY <1>1, <1>11, <2>2 DEF SpiStream
  <2>4. late = << >>
    <3>1. SUFFICES ASSUME late # << >> PROVE FALSE
      OBVIOUS
    <3>2. Head(Append(late, answer)) = Head(late) /\ Head(late) \in NoEcho
      BY <2>2, <3>1
    <3> QED
      BY <1>11, <2>3, <3>2 DEF NoEcho
  <2>5. late' = << >>
    BY <2>3, <2>4
  <2>6. ~Working' /\ \A name : At(name)' => name = InitName(4)
    BY <2>1, InitNext
  <2>7. InitName(4) # "chip_prog_enable"
    BY DEF InitName
  <2>8. late' \in Seq(NoEcho) /\ late' \in Seq(NoZero) /\ late' \in Seq(Clean)
    BY <2>5
  <2>c. spi_data' \in Clean
    <3>1. Head(Append(<< >>, answer)) = answer
      OBVIOUS
    <3> QED
      BY <1>2, <2>3, <2>4, <3>1
  <2>9. lost' >= Len(signature')
    BY <1>1, <1>6, <2>1
  <2> QED
    BY <1>1, <1>5, <1>7, <1>8, <2>3, <2>6, <2>7, <2>8, <2>9, <2>c DEF GateInv
<1> QED
  BY <1>10, <1>11

\* A byte of the signature is not zero, or its exchange has failed.
LEMMA GateRead ==
  ASSUME \A t \in Targets : AvrSign(t), MaxLost >= 3, SInv, SInv', GateInv, read_sign
  PROVE  GateInv'
<1> DEFINE b == IF read_sign2 = 3 THEN Reserved ELSE target.sign[read_sign2 + 1]
<1>1. /\ status = "running" /\ At("read_sign")
      /\ UNCHANGED <<status, device_sign, checked, devHandle>>
      /\ SpiStream(NoEffect, Answer(b))
      /\ signature' = Append(signature, spi_data'[3])
      /\ todo' = Rest
  BY DEF read_sign, At
<1>2. b \in 0 .. 255 /\ b \in Carried /\ b # 0
  <2>1. read_sign2 \in 0 .. 3 /\ target.sign \in Signs /\ AvrSign(target.sign)
    BY DEF SInv, TypeOK, GateInv
  <2> DEFINE s == target.sign
  <2>4. s \in Signs /\ AvrSign(s)
    BY <2>1
  <2> HIDE DEF s
  <2>5. s[1] # 0 /\ s[2] # 0 /\ s[3] # 0
    BY <2>4 DEF AvrSign
  <2>6. \A k \in 1 .. 3 : s[k] \in 0 .. 255
    BY <2>4 DEF Signs
  <2>2. /\ target.sign[1] # 0 /\ target.sign[2] # 0 /\ target.sign[3] # 0
        /\ \A k \in 1 .. 3 : target.sign[k] \in 0 .. 255
    BY <2>5, <2>6 DEF s
  <2>3. read_sign2 \in {0, 1, 2, 3}
    BY <2>1
  <2>7. CASE read_sign2 = 3
    BY <2>7 DEF Carried, Reserved
  <2>8. CASE read_sign2 # 3
    <3>1. b = target.sign[1] \/ b = target.sign[2] \/ b = target.sign[3]
      BY <2>3, <2>8
    <3>2. \A k \in 1 .. 3 : target.sign[k] \in Carried
      BY DEF Carried
    <3> HIDE DEF b
    <3> QED
      BY <2>2, <3>1, <3>2
  <2> QED
    BY <2>7, <2>8
<1> HIDE DEF b
<1>3. Answer(b) \in Clean /\ Answer(b) \in NoEcho /\ Answer(b) \in NoZero
  BY <1>2, AnswerIn
<1>4. ~Leaving
  BY <1>1, LeavingCalls
<1>5. /\ devHandle /\ spi_data \in Clean /\ late \in Seq(Clean) /\ late \in Seq(NoEcho) /\ late \in Seq(NoZero)
      /\ Zeros => lost >= Len(signature)
  BY <1>1, <1>4 DEF GateInv
<1>6. late' \in Seq(Clean) /\ spi_data' \in Clean
  BY <1>1, <1>3, <1>5, StreamIn
<1>7. late' \in Seq(NoEcho) /\ late' \in Seq(NoZero) /\ (spi_data' \in NoZero \/ Fail)
  BY <1>1, <1>3, <1>5, StreamIn
<1>8. target' = target /\ effects' = effects
  BY <1>1 DEF SpiStream, NoEffect
<1>9. lost' >= lost /\ lost' \in 0 .. MaxLost /\ lost \in 0 .. MaxLost
  BY <1>1, StreamLost, LostGrows DEF SInv, TypeOK
<1>10. SignatureGate'
  BY <1>8, <1>9, GateFrame DEF GateInv
<1>11. Carried' = Carried /\ Clean' = Clean /\ NoEcho' = NoEcho /\ NoZero' = NoZero
  BY <1>8, CarriedFrame DEF NoEcho, NoZero
<1>12. PICK m \in 4 .. 6 : Len(signature) = m - 4 /\ Shape(todo', m + 1)
  BY <1>1, InitRest
<1>13. /\ signature' \in Seq(Carried) /\ Len(signature') = Len(signature) + 1
       /\ \A k \in 1 .. Len(signature) : signature'[k] = signature[k]
       /\ signature'[Len(signature')] = spi_data'[3]
  <2>1. signature \in Seq(Carried) /\ spi_data'[3] \in Carried
    BY <1>6 DEF GateInv, Clean
  <2> QED
    BY <1>1, <2>1
<1>14. ~Working' /\ \A name : At(name)' => name = InitName(m + 1)
  BY <1>12, InitNext
<1>15. InitName(m + 1) # "chip_prog_enable"
  BY DEF InitName
<1>16. Zeros' => lost' >= Len(signature')
  <2> SUFFICES ASSUME Zeros' PROVE lost' >= Len(signature')
    OBVIOUS
  <2>1. \A k \in 1 .. Len(signature) + 1 : signature'[k] = 0
    BY <1>13 DEF Zeros
  <2>2. Len(signature) \in Nat /\ Len(signature) <= 2
    BY <1>12
  <2>3. \A k \in 1 .. Len(signature) : signature[k] = 0
    BY <1>13, <2>1, <2>2
  <2>4. spi_data'[3] = 0
    BY <1>13, <2>1, <2>2
  <2>5. lost' = IF lost < MaxLost THEN lost + 1 ELSE lost
    BY <1>5, <1>7, <2>4 DEF NoZero, Fail
  <2>6. lost >= Len(signature)
    BY <1>5, <2>3 DEF Zeros
  <2> QED
    BY <1>9, <1>13, <2>2, <2>5, <2>6, SessionAssumption
<1> QED
  BY <1>1, <1>5, <1>6, <1>7, <1>8, <1>10, <1>11, <1>13, <1>14, <1>15, <1>16 DEF GateInv

\* The comparison passes for the signature of the chip, or for no signature.
LEMMA GateCompare ==
  ASSUME \A t \in Targets : AvrSign(t), SInv, SInv', GateInv, compare
  PROVE  GateInv'
<1>1. /\ status = "running" /\ At("compare") /\ signature' = << >>
      /\ UNCHANGED <<status, device_sign, devHandle, spi_data, target, effects, late, lost>>
      /\ IF signature = device_sign THEN todo' = Rest /\ checked' = device_sign
         ELSE todo' = ch_exit /\ checked' = checked
  BY DEF compare, At, bus
<1>2. ~Leaving
  BY <1>1, LeavingCalls
<1>3. /\ late \in Seq(NoEcho) /\ Len(signature) = 3 /\ Shape(Rest, 8)
      /\ Zeros => lost >= Len(signature)
  BY <1>1, <1>2, InitRest DEF GateInv
<1>4. Carried' = Carried /\ Clean' = Clean /\ NoEcho' = NoEcho
  BY <1>1, CarriedFrame DEF NoEcho
<1>5. SignatureGate'
  BY <1>1 DEF GateInv, SignatureGate
<1>6. signature' \in Seq(Carried)
  BY <1>1
<1>7. CASE signature = device_sign
  <2>1. checked' \in {NoSign, target.sign}
    BY <1>1, <1>7, NoConfusion
  <2>2. checked' = NoSign => lost >= 3
    <3> SUFFICES ASSUME checked' = NoSign PROVE lost >= 3
      OBVIOUS
    <3>1. signature = <<0, 0, 0>>
      BY <1>1, <1>7 DEF NoSign
    <3>2. Zeros
      BY <3>1 DEF Zeros
    <3> QED
      BY <1>3, <3>2
  <2>3. Working' /\ \A name \in InitNames : ~At(name)'
    BY <1>1, <1>3, <1>7, LaterNext
  <2> QED
    BY <1>1, <1>2, <1>3, <1>4, <1>5, <1>6, <2>1, <2>2, <2>3 DEF GateInv, InitNames
<1>8. CASE signature # device_sign
  <2>1. Leaving' /\ checked' = checked
    BY <1>1, <1>8 DEF Leaving
  <2> QED
    BY <1>1, <1>4, <1>5, <1>6, <2>1 DEF GateInv
<1> QED
  BY <1>7, <1>8

LEMMA ReadMemoryIn ==
  ASSUME SInv, ReadMemory
  PROVE  /\ \A S : late \in Seq(S) => late' \in Seq(S)
         /\ lost' >= lost
<1>1. late' = << >> \/ late' = late
  BY DEF ReadMemory
<1>2. \A S : << >> \in Seq(S)
  OBVIOUS
<1>3. Fail \/ UNCHANGED lost
  BY DEF ReadMemory
<1> QED
  BY <1>1, <1>2, <1>3, LostGrows

\* The steps behind ch_init: the memories are modified only in programming mode,
\* and then the signature has been accepted.
LEMMA GateWork ==
  ASSUME SInv, SInv', GateInv,
         \/ read_flash \/ read_fuses \/ chip_erace \/ write_fuses \/ main_write_stream
         \/ write_eeprom \/ check_flash \/ check_flash_strict \/ reset_off
  PROVE  GateInv'
<1>0. /\ SignatureGate
      /\ lost \in 0 .. MaxLost /\ lost' \in 0 .. MaxLost
      /\ target \in [sign : Signs, reset : BOOLEAN, enabled : BOOLEAN]
  BY DEF GateInv, SInv, TypeOK
<1>1. CASE read_flash
  <2>1. /\ At("read_flash") /\ "read_flash" \in LaterNames /\ ReadMemory /\ todo' = Rest
        /\ UNCHANGED <<status, device_sign, signature, checked, spi_data, target, effects>>
    BY <1>1 DEF read_flash, LaterNames, WorkNames
  <2>2. ~Leaving
    BY <2>1, LeavingCalls
  <2>3. Shape(todo', 8)
    BY <2>1, LaterCall
  <2>4. SignatureGate'
    BY <1>0, <2>1, ReadMemoryIn, GateFrame
  <2> QED
    BY <1>0, <2>1, <2>2, <2>3, <2>4, ReadMemoryIn, GateLater
<1>2. CASE read_fuses
  <2>1. PICK b \in FuseBytes : SpiStream(NoEffect, Answer(b))
    BY <1>2 DEF read_fuses
  <2>2. /\ At("read_fuses") /\ "read_fuses" \in LaterNames /\ todo' = Rest
        /\ UNCHANGED <<status, device_sign, signature, checked>>
        /\ target' = target /\ effects' = effects
    BY <1>2, <2>1 DEF read_fuses, SpiStream, NoEffect, LaterNames, WorkNames
  <2>3. ~Leaving /\ Shape(todo', 8)
    BY <2>2, LeavingCalls, LaterCall
  <2>4. Answer(b) \in NoEcho
    BY SessionAssumption, AnswerIn
  <2>6. late \in Seq(NoEcho) => late' \in Seq(NoEcho)
    BY <2>1, <2>4, StreamIn
  <2>7. lost' >= lost
    BY <2>1, StreamLost, LostGrows
  <2>8. SignatureGate'
    BY <1>0, <2>2, <2>7, GateFrame
  <2> QED
    BY <2>2, <2>3, <2>6, <2>7, <2>8, GateLater
<1>3. ASSUME NEW name \in LaterNames \ {"reset_off", "release", "exit"}, NEW op,
             Modify(name, op)
      PROVE  GateInv'
  <2>1. /\ At(name) /\ SpiStream(Effect(op), Answer(0)) /\ todo' = Rest
        /\ UNCHANGED <<status, device_sign, signature, checked>>
    BY <1>3 DEF Modify
  <2>2. /\ target' = target
        /\ \/ effects' = effects
           \/ /\ target.reset /\ target.enabled
              /\ effects' = effects \cup {[op |-> op, arg |-> Arg, checked |-> checked]}
    BY <2>1 DEF SpiStream, Effect
  <2>3. ~Leaving /\ Shape(todo', 8) /\ Working /\ status = "running"
    BY <1>3, <2>1, LeavingCalls, LaterCall, LaterWorking DEF At
  <2>4. Answer(0) \in NoEcho
    BY AnswerIn
  <2>6. late \in Seq(NoEcho) => late' \in Seq(NoEcho)
    BY <2>1, <2>4, StreamIn
  <2>7. lost' >= lost
    BY <2>1, StreamLost, LostGrows
  <2>8. SignatureGate'
    <3>1. CASE effects' = effects
      BY <1>0, <2>2, <2>7, <3>1, GateFrame
    <3>2. CASE /\ target.reset /\ target.enabled
               /\ effects' = effects \cup {[op |-> op, arg |-> Arg, checked |-> checked]}
      <4>1. checked = target.sign \/ (checked = NoSign /\ lost >= 3)
        BY <2>3, <3>2 DEF GateInv
      <4>2. lost >= 3 => lost' >= 3
        BY <1>0, <2>7, SessionAssumption
      <4>3. \A e \in effects' : \/ e.checked = target.sign
                                \/ e.checked = NoSign /\ lost' >= 3
        BY <1>0, <3>2, <4>1, <4>2 DEF SignatureGate
      <4> QED
        BY <2>2, <4>3 DEF SignatureGate
    <3> QED
      BY <2>2, <3>1, <3>2
  <2> QED
    BY <1>3, <2>1, <2>2, <2>3, <2>6, <2>7, <2>8, GateLater
<1>4. CASE chip_erace \/ write_fuses \/ main_write_stream \/ write_eeprom
  BY <1>3, <1>4 DEF chip_erace, write_fuses, main_write_stream, write_eeprom, LaterNames, WorkNames
<1>a. ASSUME NEW name \in LaterNames \ {"reset_off", "release", "exit"}, NEW otherwise,
             otherwise \in {ch_exit, Do("exit")}, Check(name, otherwise)
      PROVE  GateInv'
  <2>1. /\ At(name) /\ ReadMemory /\ todo' \in {Rest, otherwise}
        /\ UNCHANGED <<status, device_sign, signature, checked, spi_data, target, effects>>
    BY <1>a DEF Check, Parsed
  <2>2. ~Leaving
    BY <1>a, <2>1, LeavingCalls
  <2>3. Shape(todo', 8) \/ Leaving'
    <3>1. CASE todo' = Rest
      BY <1>a, <2>1, <3>1, LaterCall
    <3>2. CASE todo' = otherwise
      BY <1>a, <3>2 DEF Leaving
    <3> QED
      BY <2>1, <3>1, <3>2
  <2>4. SignatureGate'
    BY <1>0, <2>1, ReadMemoryIn, GateFrame
  <2>5. /\ lost' >= lost
        /\ late \in Seq(NoEcho) => late' \in Seq(NoEcho)
    BY <1>0, <2>1, ReadMemoryIn
  <2> QED
    BY <1>0, <1>a, <2>1, <2>2, <2>3, <2>4, <2>5, GateLater
<1>5. CASE check_flash \/ check_flash_strict
  BY <1>a, <1>5 DEF check_flash, check_flash_strict, LaterNames, WorkNames
<1>6. CASE reset_off
  <2>1. /\ At("reset_off") /\ "reset_off" \in LaterNames /\ todo' = Rest
        /\ UNCHANGED <<status, device_sign, signature, checked, effects, late>>
        /\ spi_data' = [spi_data EXCEPT ![2] = 32]
        /\ Fail \/ UNCHANGED lost
        /\ \/ target' = target
           \/ target' = [target EXCEPT !.reset = FALSE, !.enabled = FALSE]
    BY <1>6 DEF reset_off, Transfer, LaterNames
  <2>2. Leaving => Leaving'
    BY <2>1, LeavingCalls DEF Leaving, Rest
  <2>3. Shape(todo', 8)
    BY <2>1, LaterCall
  <2>4. target'.sign = target.sign /\ (target'.reset /\ target'.enabled => target.reset /\ target.enabled)
    BY <1>0, <2>1
  <2>5. lost' >= lost
    BY <2>1, LostGrows
  <2>6. SignatureGate'
    BY <1>0, <2>1, <2>4, <2>5, GateFrame
  <2> QED
    BY <1>0, <2>1, <2>2, <2>3, <2>4, <2>5, <2>6, GateLater
<1> QED
  BY <1>1, <1>2, <1>4, <1>5, <1>6

LEMMA GateLast ==
  ASSUME GateInv, Crash \/ release \/ exit
  PROVE  GateInv'
<1>1. /\ status' # "running"
      /\ UNCHANGED <<device_sign, signature, checked, spi_data, target, effects, late, lost>>
  BY DEF Crash, release, exit, bus
<1>2. Carried' = Carried /\ Clean' = Clean
  BY <1>1, CarriedFrame
<1> QED
  BY <1>1, <1>2 DEF GateInv, SignatureGate

\* SignatureGate, when the connected chips have signatures of AVR chips and three
\* failures are counted: for every command line, every chip of config.c that may
\* be asked for and every bus, the memories of a chip are modified only after its
\* own signature was the one asked for, or, without -d, after three failures.
\* Stale answers can never be taken for the signature of another chip.
THEOREM GateHolds ==
  ASSUME \A t \in Targets : AvrSign(t), MaxLost >= 3
  PROVE  Spec => []SignatureGate
<1>1. SInv /\ SInv' /\ GateInv /\ [Next]_vars => GateInv'
  <2> SUFFICES ASSUME SInv, SInv', GateInv, [Next]_vars PROVE GateInv'
    OBVIOUS
  <2>1. CASE UNCHANGED vars
    <3>1. UNCHANGED <<status, todo, devHandle, device_sign, signature, checked, spi_data,
                      target, effects, late, lost>>
      BY <2>1 DEF vars, program, bus
    <3> QED
      BY <3>1 DEF GateInv, SignatureGate, Carried, Clean, NoEcho, NoZero, Leaving, Working,
                  Zeros, At
  <2> QED
    BY <2>1, GateOpt, GateInitCalls, GateEnable, GateRead, GateCompare, GateWork, GateLast
       DEF Next
<1>2. GateInv => SignatureGate
  BY DEF GateInv
<1> QED
  BY <1>1, <1>2, GateInit, SessionInit, SessionStep, PTL DEF Spec

-----------------------------------------------------------------------------
(* The first signature check of a command line *)

NoOperationFrom(n) == \A k \in n .. Len(argv) : argv[k].opt \notin Operations

\* The check begins with the address that the first option finds, 0; programming
\* is enabled by a real echo, and every byte read is the one that was asked for.
FInv ==
  /\ argv \in CommandLines
  /\ OneOperation /\ lost = 0 /\ status = "running" =>
       /\ late = << >>
       /\ NoOperationFrom(optind) \/ (read_sign2 = 0 /\ Working)
       /\ At("ch341_init") \/ At("reset_on") \/ At("chip_prog_enable") => read_sign2 = 0
       /\ At("chip_prog_enable") => spi_data[2] # SYNC
       /\ At("read_sign") \/ At("compare") =>
            /\ devHandle /\ target.reset /\ target.enabled
            /\ read_sign2 = Len(signature)
            /\ \A k \in 1 .. Len(signature) : signature[k] = target.sign[k]

\* What is left of the calls when no operation is under way.
Idle(s) == s = << >> \/ s = Do("exit")

LEMMA IdleShape == \A s : Idle(s) => Shape(s, 8)
<1>1. Do("exit") = DoWith("exit", NoArg) /\ NoArg \in Args /\ "exit" \in LaterNames
  BY DEF Do, DoWith, Args, LaterNames, WorkNames
<1>2. /\ DoWith("exit", NoArg) \in Seq(Call) /\ Len(DoWith("exit", NoArg)) = 1
      /\ DoWith("exit", NoArg)[1].call = "exit"
  BY <1>1, OneCall
<1>3. Shape(Do("exit"), 8)
  BY <1>1, <1>2 DEF Shape
<1> QED
  BY <1>3, EmptyShape DEF Idle

\* Only an operation makes calls.
LEMMA HandlerIdle ==
  ASSUME NEW opt, opt \notin Operations, NEW arg,
         opt = "t" => ~file_exists(arg) /\ arg.letter # "s"
  PROVE  Idle(Handler(opt, arg))
<1>1. opt \notin {"r", "w", "e", "c", "a", "f", "l", "H", "x", "L", "p"}
  BY DEF Operations
<1>2. CASE opt = "t"
  <2>1. OptionA(arg) = << >>
    BY <1>2 DEF OptionA
  <2>2. Handler(opt, arg) = OptionA(arg)
    BY <1>2 DEF Handler
  <2> QED
    BY <2>1, <2>2 DEF Idle
<1>3. CASE opt # "t"
  BY <1>1, <1>3 DEF Handler, Idle
<1> QED
  BY <1>2, <1>3

\* The options of one step: an operation, of which there is one at most, or none.
LEMMA OptionCalls ==
  ASSUME TimeIsNumber, SInv, argv \in CommandLines, NEW k \in 1 .. Len(argv), Option(k)
  PROVE  /\ k \in optind .. Len(argv) /\ optind' > k
         /\ argv[k].opt \notin Operations => Idle(todo')
<1>1. argv \in Seq(Token) /\ Len(argv) \in Nat /\ optind \in Nat
  BY DEF SInv, TypeOK
<1>2. k \in optind .. Len(argv) /\ (optind' = k + 1 \/ optind' = k + 2)
  BY DEF Option, IsNext
<1>3. ASSUME argv[k].opt \notin Operations PROVE Idle(todo')
  <2>1. CASE argv[k].opt \notin WithArg
    <3>1. argv[k].opt # "t" /\ todo' = Handler(argv[k].opt, argv[k])
      BY <2>1 DEF Option, WithArg
    <3> QED
      BY <1>3, <3>1, HandlerIdle
  <2>2. CASE argv[k].opt \in WithArg /\ k # Len(argv) /\ argv[k].opt # "d"
    <3>1. todo' = Handler(argv[k].opt, argv[k + 1])
      BY <2>2 DEF Option
    <3>2. k \in 1 .. Len(argv) - 1
      BY <1>1, <2>2
    <3>3. argv[k].opt = "t" => ~file_exists(argv[k + 1]) /\ argv[k + 1].letter # "s"
      BY <3>2 DEF TimeIsNumber
    <3> QED
      BY <1>3, <3>1, <3>3, HandlerIdle
  <2>3. CASE argv[k].opt \in WithArg /\ (k = Len(argv) \/ argv[k].opt = "d")
    BY <2>3 DEF Option, Idle
  <2> QED
    BY <2>1, <2>2, <2>3
<1> QED
  BY <1>1, <1>2, <1>3

\* What an exchange does when none has failed.
LEMMA EmptyStream ==
  ASSUME MaxLost # 0, late = << >>, lost = 0, lost' = 0,
         NEW answer, NEW ACTION A, SpiStream(A, answer)
  PROVE  \/ devHandle /\ A /\ spi_data' = answer /\ late' = << >>
         \/ ~devHandle /\ UNCHANGED <<target, effects, spi_data, late>>
<1>1. devHandle => ~Fail
  BY SessionAssumption DEF Fail
<1>2. Head(Append(late, answer)) = answer /\ Tail(Append(late, answer)) = << >>
  <2>1. \A S : \A e \in S : Head(Append(<< >>, e)) = e /\ Tail(Append(<< >>, e)) = << >>
    OBVIOUS
  <2>2. answer \in {answer}
    OBVIOUS
  <2> QED
    BY <2>1, <2>2
<1> QED
  BY <1>1, <1>2 DEF SpiStream

LEMMA FirstInit == Init => FInv
<1> SUFFICES ASSUME Init PROVE FInv
  OBVIOUS
<1>1. argv \in CommandLines /\ todo = << >> /\ read_sign2 = 0 /\ late = << >>
  BY DEF Init
<1>2. Working /\ \A name : ~At(name)
  BY <1>1 DEF Working, At
<1> QED
  BY <1>1, <1>2 DEF FInv

\* No failure yet, if there is none after the step.
LEMMA NotLost ==
  ASSUME SInv, Fail \/ UNCHANGED lost, lost' = 0
  PROVE  lost = 0
BY SessionAssumption DEF SInv, TypeOK, Fail

LEMMA OperationFrame ==
  ASSUME UNCHANGED <<argv, optind>>
  PROVE  /\ OneOperation' = OneOperation
         /\ NoOperationFrom(optind)' = NoOperationFrom(optind)
BY DEF OneOperation, NoOperationFrom

LEMMA InitWorking ==
  ASSUME SInv, NEW name \in InitNames, At(name)
  PROVE  ~Working
<1>1. PICK n \in 1 .. 8 : Shape(todo, n)
  BY DEF SInv, At
<1>2. name \notin LaterNames
  BY DEF InitNames, LaterNames, WorkNames
<1>3. n # 8
  BY <1>1, <1>2, NextCall DEF At
<1> QED
  BY <1>1, <1>3, FirstCall DEF Working

\* The step to the next option.
LEMMA FirstOpt ==
  ASSUME TimeIsNumber, SInv, FInv, GetOpt
  PROVE  FInv'
<1>1. /\ status = "running" /\ todo = << >> /\ argv' = argv
      /\ UNCHANGED <<status, read_sign2, signature, devHandle, spi_data, target, late, lost>>
  BY DEF GetOpt, bus
<1>2. argv \in CommandLines /\ argv' \in CommandLines /\ Len(argv) \in Nat /\ optind \in Nat
  BY <1>1 DEF FInv, SInv, TypeOK
<1>3. SUFFICES ASSUME OneOperation, lost = 0
      PROVE  /\ NoOperationFrom(optind)' \/ (read_sign2 = 0 /\ Working')
             /\ \A name \in InitNames : At(name)' => name = "ch341_init" /\ read_sign2 = 0
  <2>1. OneOperation' = OneOperation
    BY <1>1 DEF OneOperation
  <2>2. late = << >> \/ ~OneOperation \/ lost # 0
    BY <1>1 DEF FInv
  <2> QED
    BY <1>1, <1>2, <1>3, <2>1, <2>2 DEF FInv, InitNames
<1>4. NoOperationFrom(optind) \/ read_sign2 = 0
  BY <1>1, <1>3 DEF FInv
<1>5. \A name \in InitNames : At(name)' => name = "ch341_init"
  <2>1. CASE todo' = ch_exit
    BY <2>1, ExitShape, LaterNext
  <2>2. CASE Good(todo')
    <3>1. PICK m \in {1, 8} : Shape(todo', m)
      BY <2>2 DEF Good
    <3>2. CASE m = 8
      BY <3>1, <3>2, LaterNext
    <3>3. CASE m = 1
      <4>1. m \in 1 .. 7 /\ InitName(m) = "ch341_init"
        BY <3>3 DEF InitName
      <4> QED
        BY <3>1, <4>1, InitNext
    <3> QED
      BY <3>1, <3>2, <3>3
  <2> QED
    BY <2>1, <2>2, GetOptStep
<1>6. ASSUME Shape(todo', 8), optind' > optind
      PROVE  /\ NoOperationFrom(optind)' \/ (read_sign2 = 0 /\ Working')
             /\ \A name \in InitNames : ~At(name)'
  <2>1. NoOperationFrom(optind) => NoOperationFrom(optind)'
    <3>1. optind' \in Nat
      BY GetOptStep DEF SInv, TypeOK
    <3>2. \A k \in optind' .. Len(argv) : k \in optind .. Len(argv)
      BY <1>2, <1>6, <3>1
    <3> QED
      BY <1>1, <3>2 DEF NoOperationFrom
  <2> QED
    BY <1>4, <1>6, <2>1, LaterNext
<1>7. ASSUME NEW k \in 1 .. Len(argv), Option(k)
      PROVE  /\ NoOperationFrom(optind)' \/ (read_sign2 = 0 /\ Working')
             /\ \A name \in InitNames : At(name)' => read_sign2 = 0
  <2>1. /\ k \in optind .. Len(argv) /\ optind' > k
        /\ argv[k].opt \notin Operations => Idle(todo')
    BY <1>2, <1>7, OptionCalls
  <2>2. optind' \in Nat
    BY GetOptStep DEF SInv, TypeOK
  <2>3. CASE argv[k].opt \notin Operations
    <3>1. Shape(todo', 8) /\ optind' > optind
      BY <1>2, <2>1, <2>2, <2>3, IdleShape
    <3> QED
      BY <1>6, <3>1
  <2>4. CASE argv[k].opt \in Operations
    <3>1. read_sign2 = 0
      BY <1>4, <2>1, <2>4 DEF NoOperationFrom
    <3>2. \A n \in optind' .. Len(argv) : n \in 1 .. Len(argv) /\ n # k
      BY <1>2, <2>1, <2>2
    <3>3. \A n \in optind' .. Len(argv) : argv[n].opt \notin Operations
      BY <1>2, <1>3, <2>4, <3>2 DEF OneOperation
    <3> QED
      BY <1>1, <3>1, <3>3 DEF NoOperationFrom
  <2> QED
    BY <2>3, <2>4
<1>8. ASSUME optind' = Len(argv) + 1, todo' = IF argv = << >> THEN Do("exit") ELSE ch_exit
      PROVE  /\ NoOperationFrom(optind)'
             /\ \A name \in InitNames : ~At(name)'
  <2>1. Shape(todo', 8)
    BY <1>8, IdleShape, ExitShape DEF Idle
  <2>2. optind' .. Len(argv) = {}
    BY <1>2, <1>8
  <2> QED
    BY <1>1, <2>1, <2>2, LaterNext DEF NoOperationFrom
<1> QED
  BY <1>5, <1>7, <1>8 DEF GetOpt

\* ch_init up to the programming enable instruction.
LEMMA FirstInitCalls ==
  ASSUME SInv, SInv', FInv, ch341_init \/ reset_on
  PROVE  FInv'
<1>1. /\ status = "running" /\ todo' = Rest
      /\ UNCHANGED <<argv, optind, status, read_sign2, late>>
      /\ Fail \/ UNCHANGED lost
  BY DEF ch341_init, reset_on, Transfer, At
<1>2. PICK m \in 2 .. 3 : /\ Shape(todo', m)
                          /\ m = 2 => ch341_init
                          /\ m = 3 => reset_on
  BY <1>1, InitRest DEF ch341_init, reset_on
<1>3. ~Working' /\ \A name : At(name)' => name = InitName(m)
  BY <1>2, InitNext
<1>4. /\ InitName(m) # "read_sign" /\ InitName(m) # "compare"
      /\ InitName(m) = "chip_prog_enable" => m = 3
  BY DEF InitName
<1>5. ~Working
  BY InitWorking DEF ch341_init, reset_on, InitNames
<1>6. lost' = 0 => lost = 0
  BY <1>1, NotLost
<1>7. m = 3 => spi_data'[2] # SYNC
  <2>1. spi_data \in [2 .. 3 -> 0 .. 255]
    BY DEF SInv, TypeOK
  <2>2. m = 3 => spi_data' = [spi_data EXCEPT ![2] = 127, ![3] = 32]
    BY <1>2 DEF reset_on
  <2> QED
    BY <2>1, <2>2 DEF SYNC
<1>8. OneOperation' = OneOperation /\ NoOperationFrom(optind)' = NoOperationFrom(optind)
  BY <1>1, OperationFrame
<1>9. At("ch341_init") \/ At("reset_on")
  BY DEF ch341_init, reset_on
<1> QED
  BY <1>1, <1>3, <1>4, <1>5, <1>6, <1>7, <1>8, <1>9 DEF FInv

\* An echo is the answer to this instruction: the target is held in reset and
\* programming is enabled.
LEMMA FirstEnable ==
  ASSUME MaxLost # 0, SInv, SInv', FInv, chip_prog_enable
  PROVE  FInv'
<1> DEFINE answer == [k \in 2 .. 3 |-> IF ~target.reset THEN 255 ELSE IF k = 2 THEN SYNC ELSE 0]
           A == target' = [target EXCEPT !.enabled = target.reset] /\ UNCHANGED effects
<1>1. /\ status = "running" /\ At("chip_prog_enable")
      /\ UNCHANGED <<argv, optind, status, read_sign2, signature, devHandle>>
      /\ SpiStream(A, answer)
      /\ todo' = IF spi_data'[2] = SYNC THEN Rest ELSE ch_exit
  BY DEF chip_prog_enable, At
<1>2. answer[2] = IF target.reset THEN SYNC ELSE 255
  OBVIOUS
<1> HIDE DEF answer
<1>3. Fail \/ UNCHANGED lost
  BY <1>1, StreamLost
<1>4. argv' \in CommandLines
  BY <1>1 DEF FInv
<1> SUFFICES ASSUME OneOperation', lost' = 0
             PROVE  /\ late' = << >>
                    /\ NoOperationFrom(optind)' \/ (read_sign2' = 0 /\ Working')
                    /\ ~At("ch341_init")' /\ ~At("reset_on")' /\ ~At("chip_prog_enable")'
                    /\ At("read_sign")' \/ At("compare")' =>
                         /\ devHandle' /\ target'.reset /\ target'.enabled
                         /\ read_sign2' = Len(signature')
                         /\ \A k \in 1 .. Len(signature') : signature'[k] = target'.sign[k]
  BY <1>4 DEF FInv
<1>5. lost = 0 /\ OneOperation
  BY <1>1, <1>3, NotLost, OperationFrame
<1>6. late = << >> /\ read_sign2 = 0 /\ spi_data[2] # SYNC
  BY <1>1, <1>5 DEF FInv
<1>7. \/ devHandle /\ A /\ spi_data' = answer /\ late' = << >>
      \/ ~devHandle /\ UNCHANGED <<target, spi_data, late>>
  <2> HIDE DEF A
  <2> QED
    BY <1>1, <1>5, <1>6, EmptyStream
<1>8. ~Working
  BY <1>1, InitWorking DEF InitNames
<1>9. NoOperationFrom(optind)'
  BY <1>1, <1>5, <1>8, OperationFrame DEF FInv
<1>10. CASE spi_data'[2] # SYNC
  <2>1. Shape(todo', 8)
    BY <1>1, <1>10, ExitShape
  <2> QED
    BY <1>6, <1>7, <1>9, <2>1, LaterNext DEF InitNames
<1>11. CASE spi_data'[2] = SYNC
  <2>1. Shape(todo', 4) /\ Len(signature') = 0
    BY <1>1, <1>11, InitRest
  <2>2. \A name : At(name)' => name = InitName(4)
    BY <2>1, InitNext
  <2>3. InitName(4) = "read_sign"
    BY DEF InitName
  <2>4. devHandle' /\ target.reset /\ A /\ late' = << >>
    BY <1>1, <1>2, <1>6, <1>7, <1>11 DEF SYNC
  <2>5. target \in [sign : Signs, reset : BOOLEAN, enabled : BOOLEAN]
    BY DEF SInv, TypeOK
  <2>6. target'.reset /\ target'.enabled
    BY <2>4, <2>5
  <2>7. read_sign2' = Len(signature') /\ \A k \in 1 .. Len(signature') : FALSE
    BY <1>1, <1>6, <2>1
  <2> QED
    BY <1>9, <2>2, <2>3, <2>4, <2>6, <2>7
<1> QED
  BY <1>10, <1>11

\* A byte of the signature is the one at the address that was sent.
LEMMA FirstRead ==
  ASSUME MaxLost # 0, SInv, SInv', FInv, read_sign
  PROVE  FInv'
<1> DEFINE b == IF read_sign2 = 3 THEN Reserved ELSE target.sign[read_sign2 + 1]
<1>1. /\ status = "running" /\ At("read_sign")
      /\ UNCHANGED <<argv, optind, status, devHandle>>
      /\ SpiStream(NoEffect, Answer(b))
      /\ signature' = Append(signature, spi_data'[3])
      /\ read_sign2' = Len(signature')
      /\ todo' = Rest
  BY DEF read_sign, At
<1>2. target' = target
  BY <1>1 DEF SpiStream, NoEffect
<1>3. Fail \/ UNCHANGED lost
  BY <1>1, StreamLost
<1>4. argv' \in CommandLines
  BY <1>1 DEF FInv
<1>5. PICK m \in 4 .. 6 : Len(signature) = m - 4 /\ Shape(todo', m + 1)
  BY <1>1, InitRest
<1>6. ~Working' /\ \A name : At(name)' => name = InitName(m + 1)
  BY <1>5, InitNext
<1>7. InitName(m + 1) \notin {"ch341_init", "reset_on", "chip_prog_enable"}
  BY DEF InitName
<1> SUFFICES ASSUME OneOperation', lost' = 0
             PROVE  /\ late' = << >>
                    /\ NoOperationFrom(optind)'
                    /\ devHandle' /\ target'.reset /\ target'.enabled
                    /\ read_sign2' = Len(signature')
                    /\ \A k \in 1 .. Len(signature') : signature'[k] = target'.sign[k]
  BY <1>4, <1>6, <1>7 DEF FInv
<1>8. lost = 0 /\ OneOperation
  BY <1>1, <1>3, NotLost, OperationFrame
<1>9. /\ late = << >> /\ devHandle /\ target.reset /\ target.enabled
      /\ read_sign2 = Len(signature)
      /\ \A k \in 1 .. Len(signature) : signature[k] = target.sign[k]
  BY <1>1, <1>8 DEF FInv
<1>10. late' = << >> /\ spi_data' = Answer(b)
  <2> HIDE DEF b
  <2> QED
    BY <1>1, <1>8, <1>9, EmptyStream
<1>11. spi_data'[3] = target.sign[Len(signature) + 1]
  BY <1>5, <1>9, <1>10 DEF Answer
<1>12. \A k \in 1 .. Len(signature') : signature'[k] = target'.sign[k]
  <2>1. signature \in Seq(0 .. 255) /\ spi_data'[3] \in 0 .. 255 /\ Len(signature) \in Nat
    BY DEF SInv, TypeOK
  <2>2. /\ Len(signature') = Len(signature) + 1
        /\ \A k \in 1 .. Len(signature) : signature'[k] = signature[k]
        /\ signature'[Len(signature) + 1] = spi_data'[3]
    BY <1>1, <2>1
  <2>3. \A k \in 1 .. Len(signature) + 1 : k \in 1 .. Len(signature) \/ k = Len(signature) + 1
    BY <2>1
  <2> QED
    BY <1>2, <1>9, <1>11, <2>2, <2>3
<1>13. ~Working
  BY <1>1, InitWorking DEF InitNames
<1>14. NoOperationFrom(optind)'
  BY <1>1, <1>8, <1>13, OperationFrame DEF FInv
<1> QED
  BY <1>1, <1>2, <1>9, <1>10, <1>12, <1>14

\* What the steps behind the signature check, and the last ones, have in common.
LEMMA FirstLater ==
  ASSUME SInv, FInv, status = "running", Working \/ NoOperationFrom(optind),
         status' = "running" => Shape(todo', 8),
         UNCHANGED <<argv, optind>>,
         read_sign2 = read_sign2' \/ NoOperationFrom(optind),
         Fail \/ UNCHANGED lost, late = << >> /\ lost' = 0 => late' = << >>
  PROVE  FInv'
<1>1. lost' = 0 => lost = 0
  BY NotLost
<1>2. OneOperation' = OneOperation /\ NoOperationFrom(optind)' = NoOperationFrom(optind)
  BY OperationFrame
<1>3. status' = "running" => Working' /\ \A name \in InitNames : ~At(name)'
  BY LaterNext
<1> QED
  BY <1>1, <1>2, <1>3 DEF FInv, InitNames

LEMMA FirstWork ==
  ASSUME MaxLost # 0, SInv, SInv', FInv,
         \/ compare \/ read_flash \/ read_fuses \/ chip_erace \/ write_fuses
         \/ main_write_stream \/ write_eeprom \/ check_flash \/ check_flash_strict \/ Crash
         \/ reset_off \/ release \/ exit
  PROVE  FInv'
<1>1. CASE compare
  <2>1. /\ At("compare") /\ (todo' = Rest \/ todo' = ch_exit)
        /\ UNCHANGED <<argv, optind, status, read_sign2, late, lost>>
    BY <1>1 DEF compare, bus
  <2>2. Shape(todo', 8)
    BY <2>1, InitRest, ExitShape
  <2>6. ~Working
    BY <2>1, InitWorking DEF InitNames
  <2>7. CASE OneOperation /\ lost = 0
    <3>1. NoOperationFrom(optind)
      BY <2>1, <2>6, <2>7 DEF FInv, At
    <3> QED
      BY <2>1, <2>2, <3>1, FirstLater DEF At
  <2>8. CASE ~(OneOperation /\ lost = 0)
    BY <2>1, <2>8, OperationFrame DEF FInv
  <2> QED
    BY <2>7, <2>8
<1>2. ASSUME NEW name \in LaterNames, At(name), status' = "running" => Shape(todo', 8),
             UNCHANGED <<argv, optind, read_sign2>>,
             Fail \/ UNCHANGED lost, late = << >> /\ lost' = 0 => late' = << >>
      PROVE  FInv'
  <2>1. Working /\ status = "running"
    BY <1>2, LaterWorking DEF At
  <2> QED
    BY <1>2, <2>1, FirstLater
<1>3. {"main_write_stream", "write_eeprom", "check_flash", "check_flash_strict", "exit",
       "read_flash", "read_fuses", "chip_erace", "write_fuses", "reset_off", "release"} \subseteq LaterNames
  BY DEF LaterNames, WorkNames
<1>4. CASE read_flash
  <2>1. /\ At("read_flash") /\ todo' = Rest /\ UNCHANGED <<argv, optind, read_sign2>>
        /\ Fail \/ UNCHANGED lost
        /\ late = << >> /\ lost' = 0 => late' = << >>
    BY <1>4 DEF read_flash, ReadMemory
  <2> QED
    BY <1>2, <1>3, <2>1, LaterCall
<1>6. CASE read_fuses
  <2>1. PICK b \in FuseBytes : SpiStream(NoEffect, Answer(b))
    BY <1>6 DEF read_fuses
  <2>2. At("read_fuses") /\ todo' = Rest /\ UNCHANGED <<argv, optind, read_sign2>>
    BY <1>6 DEF read_fuses
  <2>3. Fail \/ UNCHANGED lost
    BY <2>1, StreamLost
  <2>4. late = << >> /\ lost' = 0 => late' = << >>
    BY <2>1, <2>3, NotLost, EmptyStream
  <2> QED
    BY <1>2, <1>3, <2>2, <2>3, <2>4, LaterCall
<1>7. ASSUME NEW name \in LaterNames, NEW op, Modify(name, op)
      PROVE  FInv'
  <2>1. /\ At(name) /\ todo' = Rest /\ UNCHANGED <<argv, optind, read_sign2>>
        /\ SpiStream(Effect(op), Answer(0))
    BY <1>7 DEF Modify
  <2>2. Fail \/ UNCHANGED lost
    BY <2>1, StreamLost
  <2>3. late = << >> /\ lost' = 0 => late' = << >>
    BY <2>1, <2>2, NotLost, EmptyStream
  <2> QED
    BY <1>2, <1>7, <2>1, <2>2, <2>3, LaterCall
<1>8. CASE chip_erace \/ write_fuses \/ main_write_stream \/ write_eeprom
  BY <1>3, <1>7, <1>8 DEF chip_erace, write_fuses, main_write_stream, write_eeprom
<1>9. ASSUME NEW name \in LaterNames, NEW otherwise \in {ch_exit, Do("exit")},
             Check(name, otherwise)
      PROVE  FInv'
  <2>1. /\ At(name) /\ (todo' = Rest \/ todo' = otherwise)
        /\ UNCHANGED <<argv, optind, read_sign2>>
        /\ Fail \/ UNCHANGED lost
        /\ late = << >> /\ lost' = 0 => late' = << >>
    BY <1>9 DEF Check, Parsed, ReadMemory
  <2>2. Shape(otherwise, 8)
    BY <1>9, ExitShape, IdleShape DEF Idle
  <2>3. Shape(todo', 8)
    BY <1>9, <2>1, <2>2, LaterCall
  <2> QED
    BY <1>2, <1>9, <2>1, <2>3
<1>10. CASE check_flash \/ check_flash_strict
  BY <1>3, <1>9, <1>10 DEF check_flash, check_flash_strict
<1>11. CASE Crash \/ exit \/ release
  <2>1. /\ status' # "running" /\ UNCHANGED argv
    BY <1>11 DEF Crash, exit, release
  <2> QED
    BY <2>1 DEF FInv
<1>12. CASE reset_off
  <2>1. /\ At("reset_off") /\ todo' = Rest /\ UNCHANGED <<argv, optind, read_sign2, late>>
        /\ Fail \/ UNCHANGED lost
    BY <1>12 DEF reset_off, Transfer
  <2> QED
    BY <1>2, <1>3, <2>1, LaterCall
<1> QED
  BY <1>1, <1>4, <1>6, <1>8, <1>10, <1>11, <1>12

LEMMA FirstStep ==
  ASSUME TimeIsNumber, MaxLost # 0, SInv, SInv', FInv, [Next]_vars
  PROVE  FInv'
<1>1. CASE UNCHANGED vars
  <2>1. UNCHANGED <<argv, optind, status, todo, devHandle, spi_data, read_sign2, signature,
                    target, late, lost>>
    BY <1>1 DEF vars, program, bus
  <2>2. OneOperation' = OneOperation /\ NoOperationFrom(optind)' = NoOperationFrom(optind)
    BY <2>1, OperationFrame
  <2> QED
    BY <2>1, <2>2 DEF FInv, Working, At
<1> QED
  BY <1>1, FirstOpt, FirstInitCalls, FirstEnable, FirstRead, FirstWork DEF Next

LEMMA ThreeOf ==
  ASSUME NEW S, NEW s \in Seq(S), Len(s) = 3
  PROVE  s \in [1 .. 3 -> S]
<1>1. s \in [1 .. Len(s) -> S]
  BY LenProperties, Zenon
<1> QED
  BY <1>1

\* What FInv says where the signatures are compared.
LEMMA FirstSignature ==
  ASSUME SInv, FInv, OneOperation, lost = 0, At("compare")
  PROVE  /\ signature = target.sign
         /\ devHandle /\ target.reset /\ target.enabled
<1>1. /\ devHandle /\ target.reset /\ target.enabled
      /\ \A k \in 1 .. Len(signature) : signature[k] = target.sign[k]
  BY DEF FInv, At
<1>2. Len(signature) = 3 /\ signature \in Seq(0 .. 255)
  BY InitRest DEF SInv, TypeOK
<1>3. target.sign \in Signs
  BY DEF SInv, TypeOK
<1>4. signature \in Signs
  BY <1>2, ThreeOf DEF Signs
<1>5. \A k \in 1 .. 3 : signature[k] = target.sign[k]
  BY <1>1, <1>2
<1>6. signature = target.sign
  BY <1>3, <1>4, <1>5 DEF Signs
<1> QED
  BY <1>1, <1>6

\* FirstCheckAccepts, when -t is given numbers and failures are counted: on a
\* command line with one operation the chip that was asked for is recognised if
\* no exchange has failed, on every chip and with every device of config.c; the
\* bytes compared are the signature of the chip.
THEOREM FirstCheckPasses ==
  ASSUME TimeIsNumber, MaxLost # 0
  PROVE  Spec => []FirstCheckAccepts
<1>1. SInv /\ FInv => FirstCheckAccepts
  BY FirstSignature DEF FirstCheckAccepts, RightChipAccepted
<1> QED
  BY <1>1, FirstInit, FirstStep, SessionInit, SessionStep, PTL DEF Spec

-----------------------------------------------------------------------------
(* What a command line does to the target *)

\* What a call makes the target do, and what the calls of s make it do.
Ops(name) ==
  IF name = "chip_erace" THEN {"erase"} ELSE IF name = "write_fuses" THEN {"fuse"}
  ELSE IF name = "main_write_stream" THEN {"write"}
  ELSE IF name = "write_eeprom" THEN {"eeprom"} ELSE {}
PendingOps(s) == UNION {Ops(s[k].call) : k \in 1 .. Len(s)}
Done == {e.op : e \in effects}
AllWanted == UNION {Wanted(k) : k \in DOMAIN argv}

\* A comparison that fails drops what is behind it: there is nothing.
Checks == {"check_flash", "check_flash_strict"}
CheckLast(s) == \A k \in 1 .. Len(s) : s[k].call \in Checks => k = Len(s)

\* Is the signature still to be compared.
Asks(s) == \E k \in 1 .. Len(s) : s[k].call = "compare"

\* The calls of s make the target do P if they compare the signature first.
Right(s, P) == CheckLast(s) /\ (Asks(s) => PendingOps(s) = P)

\* The calls of s make the target do P, and compare nothing with a file.
Makes(s, P) ==
  /\ s \in Seq(Call)
  /\ PendingOps(s) = P
  /\ \A k \in 1 .. Len(s) : s[k].call \notin Checks

LEMMA MakesRight ==
  ASSUME NEW s, NEW P, Makes(s, P)
  PROVE  Right(s, P)
BY DEF Makes, Right, CheckLast

\* A sequence of calls and one more.
LEMMA OpsMore ==
  ASSUME NEW s \in Seq(Call), NEW name \in InitNames \cup LaterNames, NEW arg \in Args
  PROVE  PendingOps(s \o DoWith(name, arg)) = PendingOps(s) \cup Ops(name)
<1> DEFINE t == s \o DoWith(name, arg)
<1>1. /\ t \in Seq(Call) /\ Len(t) = Len(s) + 1
      /\ \A k \in 1 .. Len(s) : t[k] = s[k]
      /\ t[Len(s) + 1].call = name
  BY OneMore
<1> HIDE DEF t
<1> SUFFICES PendingOps(t) = PendingOps(s) \cup Ops(name)
  BY DEF t
<1>2. Len(s) \in Nat
  OBVIOUS
<1>3. 1 .. Len(t) = 1 .. Len(s) \cup {Len(s) + 1}
  BY <1>1, <1>2
<1>4. \A op : op \in PendingOps(t) <=> \E k \in 1 .. Len(t) : op \in Ops(t[k].call)
  BY DEF PendingOps
<1>5. \A op : op \in PendingOps(s) <=> \E k \in 1 .. Len(s) : op \in Ops(s[k].call)
  BY DEF PendingOps
<1>6. \A op : op \in PendingOps(t) <=> op \in PendingOps(s) \/ op \in Ops(name)
  <2> TAKE op
  <2>1. ASSUME op \in PendingOps(t) PROVE op \in PendingOps(s) \/ op \in Ops(name)
    <3>1. PICK k \in 1 .. Len(t) : op \in Ops(t[k].call)
      BY <1>4, <2>1
    <3>2. k \in 1 .. Len(s) \/ k = Len(s) + 1
      BY <1>3
    <3> QED
      BY <1>1, <1>5, <3>1, <3>2
  <2>2. ASSUME op \in PendingOps(s) \/ op \in Ops(name) PROVE op \in PendingOps(t)
    <3>1. CASE op \in PendingOps(s)
      <4>1. PICK k \in 1 .. Len(s) : op \in Ops(s[k].call)
        BY <1>5, <3>1
      <4>2. k \in 1 .. Len(t) /\ t[k] = s[k]
        BY <1>1, <1>3
      <4> QED
        BY <1>4, <4>1, <4>2
    <3>2. CASE op \in Ops(name)
      <4>1. Len(s) + 1 \in 1 .. Len(t)
        BY <1>3
      <4> QED
        BY <1>1, <1>4, <3>2, <4>1
    <3> QED
      BY <2>2, <3>1, <3>2
  <2> QED
    BY <2>1, <2>2
<1> QED
  BY <1>6

LEMMA MakesMore ==
  ASSUME NEW s, NEW P, Makes(s, P), NEW name \in WorkNames \ Checks, NEW arg \in Args
  PROVE  Makes(s \o DoWith(name, arg), P \cup Ops(name))
<1> DEFINE t == s \o DoWith(name, arg)
<1>1. s \in Seq(Call) /\ name \in InitNames \cup LaterNames
  BY DEF Makes, LaterNames
<1>2. /\ t \in Seq(Call) /\ Len(t) = Len(s) + 1
      /\ \A k \in 1 .. Len(s) : t[k] = s[k]
      /\ t[Len(s) + 1].call = name
  BY <1>1, OneMore
<1>3. PendingOps(t) = P \cup Ops(name)
  BY <1>1, OpsMore DEF Makes
<1> HIDE DEF t
<1>4. \A k \in 1 .. Len(s) + 1 : k \in 1 .. Len(s) \/ k = Len(s) + 1
  BY <1>1
<1> QED
  BY <1>2, <1>3, <1>4 DEF Makes, t

LEMMA MakesCheck ==
  ASSUME NEW s, NEW P, Makes(s, P), NEW name \in Checks, NEW arg \in Args
  PROVE  Right(s \o DoWith(name, arg), P)
<1> DEFINE t == s \o DoWith(name, arg)
<1>1. s \in Seq(Call) /\ name \in InitNames \cup LaterNames
  BY DEF Makes, LaterNames, WorkNames, Checks
<1>2. /\ t \in Seq(Call) /\ Len(t) = Len(s) + 1
      /\ \A k \in 1 .. Len(s) : t[k] = s[k]
      /\ t[Len(s) + 1].call = name
  BY <1>1, OneMore
<1>3. PendingOps(t) = P
  <2>1. Ops(name) = {}
    BY DEF Checks, Ops
  <2>2. PendingOps(t) = PendingOps(s) \cup Ops(name)
    BY <1>1, OpsMore
  <2> QED
    BY <2>1, <2>2 DEF Makes
<1> HIDE DEF t
<1>4. \A k \in 1 .. Len(s) + 1 : k \in 1 .. Len(s) \/ k = Len(s) + 1
  BY <1>1
<1>5. CheckLast(t)
  BY <1>2, <1>4 DEF Makes, CheckLast
<1> QED
  BY <1>3, <1>5 DEF Right, t

LEMMA MakesInit == Makes(ch_init, {})
<1>1. /\ ch_init \in Seq(Call) /\ Len(ch_init) = 7
      /\ \A k \in 1 .. 7 : ch_init[k].call = InitName(k)
  BY InitShape DEF Started
<1>2. \A k \in 1 .. 7 : InitName(k) \notin Checks /\ Ops(InitName(k)) = {}
  BY DEF InitName, Checks, Ops
<1>3. PendingOps(ch_init) = {}
  BY <1>1, <1>2 DEF PendingOps
<1> QED
  BY <1>1, <1>2, <1>3 DEF Makes

\* Calls that do not compare the signature.
LEMMA RightAlone ==
  ASSUME NEW P
  PROVE  /\ Right(<< >>, P)
         /\ \A name \in LaterNames : \A arg : Right(DoWith(name, arg), P)
<1>1. Right(<< >>, P)
  BY DEF Right, CheckLast, Asks
<1>2. ASSUME NEW name \in LaterNames, NEW arg
      PROVE  Right(DoWith(name, arg), P)
  <2>1. Len(DoWith(name, arg)) = 1 /\ DoWith(name, arg)[1].call = name
    BY DEF DoWith
  <2>2. name # "compare"
    BY DEF LaterNames, WorkNames
  <2> QED
    BY <2>1, <2>2 DEF Right, CheckLast, Asks
<1> QED
  BY <1>1, <1>2

\* What the README says of an option with an argument.
Wants(opt, arg) ==
  CASE opt = "e" -> {"erase"}
    [] opt = "w" -> {"write"}
    [] opt = "a" -> {"erase", "write"}
    [] opt \in {"l", "H", "x"} /\ arg.value \in 0 .. 255 -> {"fuse"}
    [] opt = "p" /\ arg.letter = "w" -> {"eeprom"}
    [] OTHER -> {}

\* Every operation that compares the signature makes the target do that.
LEMMA HandlerRight ==
  ASSUME argv \in Seq(Token), optind' \in Nat \ {0},
         NEW opt \in Operations, NEW arg \in Token
  PROVE  Right(Handler(opt, arg), Wants(opt, arg))
<1>1. arg \in Args /\ NoArg \in Args /\ (NextArg => argv[optind'] \in Args)
  BY DEF Args, NextArg
<1>2. /\ {"read_flash", "main_write_stream", "chip_erace", "read_fuses", "write_fuses"}
           \subseteq WorkNames \ Checks
      /\ Checks = {"check_flash", "check_flash_strict"}
      /\ "write_eeprom" \in LaterNames
  BY DEF LaterNames, WorkNames, Checks
<1>3. \A name : Do(name) = DoWith(name, NoArg)
  BY DoIsDoWith
<1>4. CASE opt = "r"
  <2>1. Makes(ch_init \o Do("read_flash"), {} \cup Ops("read_flash"))
    BY <1>1, <1>2, <1>3, MakesInit, MakesMore
  <2>2. Wants(opt, arg) = {} /\ {} \cup Ops("read_flash") = {}
    BY <1>4 DEF Wants, Ops
  <2>3. Handler(opt, arg) = IF arg.letter = "f" /\ ~NextArg THEN << >> ELSE ch_init \o Do("read_flash")
    BY <1>4 DEF Handler
  <2> QED
    BY <2>1, <2>2, <2>3, MakesRight, RightAlone
<1>5. CASE opt = "w"
  <2>1. Makes(ch_init \o DoWith("main_write_stream", arg), {} \cup Ops("main_write_stream"))
    BY <1>1, <1>2, MakesInit, MakesMore
  <2>2. Wants(opt, arg) = {"write"} /\ {} \cup Ops("main_write_stream") = {"write"}
    BY <1>5 DEF Wants, Ops
  <2>3. Handler(opt, arg)
          = IF file_exists(arg) THEN ch_init \o DoWith("main_write_stream", arg) ELSE << >>
    BY <1>5 DEF Handler
  <2> QED
    BY <2>1, <2>2, <2>3, MakesRight, RightAlone
<1>6. CASE opt = "e"
  <2>1. Makes(ch_init \o Do("chip_erace"), {} \cup Ops("chip_erace"))
    BY <1>1, <1>2, <1>3, MakesInit, MakesMore
  <2>2. Wants(opt, arg) = {"erase"} /\ {} \cup Ops("chip_erace") = {"erase"}
    BY <1>6 DEF Wants, Ops
  <2>3. Handler(opt, arg) = ch_init \o Do("chip_erace")
    BY <1>6 DEF Handler
  <2> QED
    BY <2>1, <2>2, <2>3, MakesRight
<1>7. CASE opt = "c"
  <2>1. Right(ch_init \o DoWith("check_flash_strict", arg), {})
    BY <1>1, <1>2, MakesInit, MakesCheck
  <2>2. Wants(opt, arg) = {}
    BY <1>7 DEF Wants
  <2>3. Handler(opt, arg)
          = IF file_exists(arg) THEN ch_init \o DoWith("check_flash_strict", arg) ELSE << >>
    BY <1>7 DEF Handler
  <2> QED
    BY <2>1, <2>2, <2>3, RightAlone
<1>8. CASE opt = "a"
  <2>1. Makes(ch_init \o Do("chip_erace"), {} \cup Ops("chip_erace"))
    BY <1>1, <1>2, <1>3, MakesInit, MakesMore
  <2>2. ASSUME NEW word \in Args, NEW name \in Checks
        PROVE  Right(ch_init \o Do("chip_erace") \o DoWith("main_write_stream", word)
                       \o DoWith(name, word), {"erase", "write"})
    <3>1. Makes(ch_init \o Do("chip_erace") \o DoWith("main_write_stream", word),
                ({} \cup Ops("chip_erace")) \cup Ops("main_write_stream"))
      BY <1>2, <2>1, MakesMore
    <3>2. ({} \cup Ops("chip_erace")) \cup Ops("main_write_stream") = {"erase", "write"}
      BY DEF Ops
    <3> QED
      BY <3>1, <3>2, MakesCheck
  <2>3. Wants(opt, arg) = {"erase", "write"} /\ Handler(opt, arg) = OptionA(arg)
    BY <1>8 DEF Wants, Handler
  <2>4. "check_flash" \in Checks /\ "check_flash_strict" \in Checks
    BY DEF Checks
  <2> QED
    BY <1>1, <2>2, <2>3, <2>4, RightAlone DEF OptionA
<1>9. CASE opt \in {"f", "L"}
  <2>1. Makes(ch_init \o Do("read_fuses"), {} \cup Ops("read_fuses"))
    BY <1>1, <1>2, <1>3, MakesInit, MakesMore
  <2>2. Makes(ch_init \o Do("read_fuses") \o Do("read_fuses"),
              ({} \cup Ops("read_fuses")) \cup Ops("read_fuses"))
    BY <1>1, <1>2, <1>3, <2>1, MakesMore
  <2>3. Makes(ch_init \o Do("read_fuses") \o Do("read_fuses") \o Do("read_fuses"),
              (({} \cup Ops("read_fuses")) \cup Ops("read_fuses")) \cup Ops("read_fuses"))
    BY <1>1, <1>2, <1>3, <2>2, MakesMore
  <2>4. Wants(opt, arg) = {} /\ Ops("read_fuses") = {}
    BY <1>9 DEF Wants, Ops
  <2>5. Handler(opt, arg)
          = IF opt = "f"
            THEN ch_init \o Do("read_fuses") \o Do("read_fuses") \o Do("read_fuses")
            ELSE ch_init \o Do("read_fuses")
    BY <1>9 DEF Handler
  <2> QED
    BY <2>1, <2>3, <2>4, <2>5, MakesRight
<1>10. CASE opt \in {"l", "H", "x"}
  <2>1. Handler(opt, arg) = ch_init \o write_fuse(arg)
    BY <1>10 DEF Handler
  <2>2. CASE arg.value \in 0 .. 255
    <3>1. Makes(ch_init \o DoWith("write_fuses", arg), {} \cup Ops("write_fuses"))
      BY <1>1, <1>2, MakesInit, MakesMore
    <3>2. Wants(opt, arg) = {"fuse"} /\ {} \cup Ops("write_fuses") = {"fuse"}
      BY <1>10, <2>2 DEF Wants, Ops
    <3> QED
      BY <2>1, <2>2, <3>1, <3>2, MakesRight DEF write_fuse
  <2>3. CASE arg.value \notin 0 .. 255
    <3>1. ch_init \o << >> = ch_init
      BY InitShape, ConcatEmptySeq DEF Shape
    <3>2. Wants(opt, arg) = {}
      BY <1>10, <2>3 DEF Wants
    <3> QED
      BY <2>1, <2>3, <3>1, <3>2, MakesInit, MakesRight DEF write_fuse
  <2> QED
    BY <2>2, <2>3
<1>11. CASE opt = "p"
  <2>1. Makes(ch_init \o Do("read_flash"), {} \cup Ops("read_flash"))
    BY <1>1, <1>2, <1>3, MakesInit, MakesMore
  <2>2. /\ arg.letter = "r" => Wants(opt, arg) = {}
        /\ {} \cup Ops("read_flash") = {}
        /\ Handler(opt, arg) = OptionP(arg)
    BY <1>11 DEF Wants, Ops, Handler
  <2> QED
    BY <1>2, <2>1, <2>2, MakesRight, RightAlone DEF OptionP
<1> QED
  BY <1>4, <1>5, <1>6, <1>7, <1>8, <1>9, <1>10, <1>11 DEF Operations

LEMMA WantedIs ==
  ASSUME SInv, OneOperation, NEW k \in 1 .. Len(argv), argv[k].opt \in Operations
  PROVE  AllWanted = Wants(argv[k].opt, argv[k + 1])
<1>1. DOMAIN argv = 1 .. Len(argv)
  BY DEF SInv, TypeOK
<1>2. \A n \in DOMAIN argv : n # k => Wanted(n) = {}
  BY <1>1 DEF OneOperation, Operations, Wanted
<1>3. AllWanted = Wanted(k)
  BY <1>1, <1>2 DEF AllWanted
<1> QED
  BY <1>3 DEF Wanted, Wants

\* What the option that is an operation makes the target do, if it compares the
\* signature.
LEMMA OptionRight ==
  ASSUME SInv, SInv', OneOperation, NEW k \in 1 .. Len(argv), argv[k].opt \in Operations, Option(k)
  PROVE  Right(todo', AllWanted)
<1>1. argv \in Seq(Token) /\ Len(argv) \in Nat /\ optind' \in Nat \ {0}
  <2>1. argv \in Seq(Token) /\ Len(argv) \in Nat
    BY DEF SInv, TypeOK
  <2>2. optind' = k + 1 \/ optind' = k + 2
    BY DEF Option
  <2> QED
    BY <2>1, <2>2
<1>2. AllWanted = Wants(argv[k].opt, argv[k + 1])
  BY WantedIs
<1>3. argv[k] \in Token /\ (k # Len(argv) => argv[k + 1] \in Token)
  BY <1>1
<1>4. CASE argv[k].opt \notin WithArg
  <2>1. todo' = Handler(argv[k].opt, argv[k])
    BY <1>4 DEF Option
  <2>2. argv[k].opt \in {"e", "f", "L"}
    BY <1>4 DEF Operations, WithArg
  <2>3. Wants(argv[k].opt, argv[k]) = Wants(argv[k].opt, argv[k + 1])
    BY <2>2 DEF Wants
  <2> QED
    BY <1>1, <1>2, <1>3, <2>1, <2>3, HandlerRight
<1>5. CASE argv[k].opt \in WithArg /\ k = Len(argv)
  <2>1. todo' = DoWith("exit", NoArg)
    BY <1>5, DoIsDoWith DEF Option
  <2> QED
    BY <2>1, RightAlone DEF LaterNames, WorkNames
<1>6. CASE argv[k].opt \in WithArg /\ k # Len(argv)
  <2>1. argv[k].opt # "d"
    BY DEF Operations
  <2>2. todo' = Handler(argv[k].opt, argv[k + 1])
    BY <1>6, <2>1 DEF Option
  <2> QED
    BY <1>1, <1>2, <1>3, <1>6, <2>2, HandlerRight
<1> QED
  BY <1>4, <1>5, <1>6

\* The next call and the rest.
LEMMA OpsRest ==
  ASSUME NEW s \in Seq(Call), s # << >>
  PROVE  /\ PendingOps(s) = Ops(Head(s).call) \cup PendingOps(Tail(s))
         /\ CheckLast(s) => CheckLast(Tail(s)) /\ (Head(s).call \in Checks => Tail(s) = << >>)
         /\ Asks(Tail(s)) => Asks(s)
         /\ Head(s).call = "compare" => Asks(s)
         /\ Quiet(s) => Quiet(Tail(s)) /\ Head(s).call # "reset_off" /\ Head(s).call # "release"
<1> DEFINE t == Tail(s)
<1>1. /\ t \in Seq(Call) /\ Len(s) \in Nat \ {0} /\ Len(t) = Len(s) - 1 /\ Head(s) = s[1]
      /\ \A k \in 1 .. Len(s) - 1 : t[k] = s[k + 1]
  OBVIOUS
<1> HIDE DEF t
<1>2. \A k \in 1 .. Len(t) : k + 1 \in 1 .. Len(s) /\ t[k] = s[k + 1]
  BY <1>1
<1>3. \A k \in 1 .. Len(s) : k = 1 \/ (k - 1 \in 1 .. Len(t) /\ t[k - 1] = s[k])
  BY <1>1
<1>4. 1 \in 1 .. Len(s)
  BY <1>1
<1>5. PendingOps(s) = Ops(Head(s).call) \cup PendingOps(t)
  <2>1. \A op : op \in PendingOps(s) <=> \E k \in 1 .. Len(s) : op \in Ops(s[k].call)
    BY DEF PendingOps
  <2>2. \A op : op \in PendingOps(t) <=> \E k \in 1 .. Len(t) : op \in Ops(t[k].call)
    BY DEF PendingOps
  <2>3. \A op : op \in PendingOps(s) => op \in Ops(s[1].call) \/ op \in PendingOps(t)
    BY <1>3, <2>1, <2>2
  <2>4. \A op : op \in Ops(s[1].call) \/ op \in PendingOps(t) => op \in PendingOps(s)
    BY <1>2, <1>4, <2>1, <2>2
  <2> QED
    BY <1>1, <2>3, <2>4
<1>6. ASSUME CheckLast(s)
      PROVE  CheckLast(t) /\ (Head(s).call \in Checks => t = << >>)
  <2>1. ASSUME NEW k \in 1 .. Len(t), t[k].call \in Checks PROVE k = Len(t)
    <3>1. k + 1 = Len(s)
      BY <1>2, <1>6, <2>1 DEF CheckLast
    <3> QED
      BY <1>1, <3>1
  <2>2. Head(s).call \in Checks => Len(s) = 1
    BY <1>1, <1>4, <1>6 DEF CheckLast
  <2> QED
    BY <1>1, <2>1, <2>2 DEF CheckLast
<1>7. Asks(t) => Asks(s)
  BY <1>2 DEF Asks
<1>8. Head(s).call = "compare" => Asks(s)
  BY <1>1, <1>4 DEF Asks
<1>9. Quiet(s) => Quiet(t) /\ Head(s).call # "reset_off" /\ Head(s).call # "release"
  BY <1>1, <1>2, <1>4 DEF Quiet
<1> QED
  BY <1>5, <1>6, <1>7, <1>8, <1>9 DEF t

\* The calls that end the process, and those that no option makes.
LEMMA LeavingRight ==
  ASSUME NEW s, s \in {<< >>, ch_exit, Tail(ch_exit), Do("exit")}
  PROVE  Shape(s, 8) /\ CheckLast(s) /\ ~Asks(s) /\ PendingOps(s) = {}
<1>1. Shape(s, 8)
  <2>1. Shape(Tail(ch_exit), 8)
    BY ExitShape, ExitCalls, NextCall
  <2> QED
    BY <2>1, ExitShape, IdleShape, EmptyShape DEF Idle
<1>2. \A k \in 1 .. Len(s) : s[k].call \in {"reset_off", "release", "exit"}
  <2>1. ch_exit \in Seq(Call) /\ Len(ch_exit) = 2
    BY ExitShape DEF Shape
  <2>2. Len(Tail(ch_exit)) = 1 /\ Tail(ch_exit)[1] = ch_exit[2]
    BY <2>1, SMTT(20)
  <2>3. Len(Do("exit")) = 1 /\ Do("exit")[1].call = "exit"
    BY DEF Do
  <2>4. \A k \in 1 .. 2 : k = 1 \/ k = 2
    OBVIOUS
  <2>5. \A k \in 1 .. 1 : k = 1
    OBVIOUS
  <2>6. CASE s = << >>
    BY <2>6
  <2>7. CASE s = ch_exit
    BY <2>4, <2>7, ExitShape
  <2>8. CASE s = Tail(ch_exit)
    BY <2>2, <2>5, <2>8, ExitShape
  <2>9. CASE s = Do("exit")
    BY <2>3, <2>5, <2>9
  <2> QED
    BY <2>6, <2>7, <2>8, <2>9
<1>3. \A name \in {"reset_off", "release", "exit"} :
        name \notin Checks /\ name # "compare" /\ Ops(name) = {}
  BY DEF Checks, Ops
<1>4. PendingOps(s) = {}
  BY <1>2, <1>3 DEF PendingOps
<1> QED
  BY <1>1, <1>2, <1>3, <1>4 DEF CheckLast, Asks

LEMMA LaterAsks == \A s : Shape(s, 8) => ~Asks(s)
BY FirstCall DEF Asks, InitNames

\* Nothing is done to the target before its signature is accepted; from there on
\* what is done and what the calls left will do is what the option says, and the
\* target stays in programming mode until all of it is done.
Orderly ==
  /\ checked = NoSign => effects = {}
  /\ checked \in {NoSign, target.sign}
  /\ status = "ch_exit" /\ checked = target.sign => Done = AllWanted
  /\ status = "running" =>
       /\ CheckLast(todo)
       /\ Leaving \/ Quiet(todo)
       /\ NoOperationFrom(optind) \/ (checked = NoSign /\ Working /\ PendingOps(todo) = {})
       /\ Asks(todo) => checked = NoSign /\ PendingOps(todo) = AllWanted
       /\ checked = NoSign /\ Working /\ ~Leaving => ~target.enabled
       /\ checked = target.sign =>
            /\ Working
            /\ Done \cup PendingOps(todo) = AllWanted
            /\ PendingOps(todo) # {} => devHandle /\ target.reset /\ target.enabled

DoneInv ==
  /\ target.sign \in Targets
  /\ OneOperation /\ lost = 0 => Orderly

LEMMA DoneInit == NoSign \notin Targets /\ Init => DoneInv
<1> SUFFICES ASSUME NoSign \notin Targets, Init PROVE DoneInv
  OBVIOUS
<1>1. /\ target.sign \in Targets /\ target.enabled = FALSE /\ checked = NoSign
      /\ effects = {} /\ todo = << >> /\ status = "running"
  BY DEF Init
<1>2. /\ CheckLast(todo) /\ Quiet(todo) /\ ~Asks(todo) /\ PendingOps(todo) = {} /\ Working
  BY <1>1, LeavingRight, EmptyShape DEF Working
<1> QED
  BY <1>1, <1>2 DEF DoneInv, Orderly

LEMMA WantedFrame == UNCHANGED argv => AllWanted' = AllWanted
BY DEF AllWanted, Wanted

LEMMA DoneFrame == UNCHANGED effects => Done' = Done
BY DEF Done

\* The step to the next option.
LEMMA DoneOpt ==
  ASSUME TimeIsNumber, NoSign \notin Targets, SInv, SInv', FInv, DoneInv, GetOpt
  PROVE  DoneInv'
<1>1. /\ status = "running" /\ todo = << >>
      /\ UNCHANGED <<argv, status, checked, devHandle, target, effects, lost>>
  BY DEF GetOpt, bus
<1>2. argv \in CommandLines /\ Len(argv) \in Nat /\ optind \in Nat /\ optind' \in Nat
  BY <1>1 DEF FInv, SInv, TypeOK
<1>3. SUFFICES ASSUME OneOperation, lost = 0 PROVE Orderly'
  <2>1. OneOperation' = OneOperation
    BY <1>1 DEF OneOperation
  <2> QED
    BY <1>1, <1>3, <2>1 DEF DoneInv
<1>4. Orderly /\ target.sign # NoSign
  BY <1>3 DEF DoneInv
<1>5. Working /\ ~Leaving /\ PendingOps(todo) = {}
  BY <1>1, NotLeaving, LeavingRight DEF Working
<1>6. AllWanted' = AllWanted /\ Done' = Done
  BY <1>1, WantedFrame, DoneFrame
<1>7. checked = NoSign => ~target.enabled
  BY <1>1, <1>4, <1>5 DEF Orderly
<1>8. ASSUME CheckLast(todo'), ~Asks(todo'), PendingOps(todo') = {}, Shape(todo', 8),
             Leaving' \/ Quiet(todo'), optind' > optind \/ optind' > Len(argv)
      PROVE  Orderly'
  <2>1. NoOperationFrom(optind) => NoOperationFrom(optind)'
    <3>1. \A k \in optind' .. Len(argv) : k \in optind .. Len(argv)
      BY <1>2, <1>8
    <3> QED
      BY <1>1, <3>1 DEF NoOperationFrom
  <2>2. Working'
    BY <1>8, LaterNext
  <2> QED
    BY <1>1, <1>4, <1>5, <1>6, <1>7, <1>8, <2>1, <2>2 DEF Orderly
<1>9. ASSUME todo' = ch_exit \/ Idle(todo'), optind' > optind \/ optind' > Len(argv)
      PROVE  Orderly'
  <2>1. todo' \in {<< >>, ch_exit, Tail(ch_exit), Do("exit")}
    BY <1>9 DEF Idle
  <2>2. Leaving' \/ Quiet(todo')
    BY <1>9, EmptyShape DEF Leaving, Idle
  <2> QED
    BY <1>8, <1>9, <2>1, <2>2, LeavingRight
<1>10. ASSUME NEW k \in 1 .. Len(argv), Option(k)
       PROVE  Orderly'
  <2>1. /\ k \in optind .. Len(argv) /\ optind' > k
        /\ argv[k].opt \notin Operations => Idle(todo')
    BY <1>2, <1>10, OptionCalls
  <2>2. CASE argv[k].opt \notin Operations
    <3>1. optind' > optind
      BY <1>2, <2>1
    <3> QED
      BY <1>9, <2>1, <2>2, <3>1
  <2>3. CASE argv[k].opt \in Operations
    <3>1. checked = NoSign
      BY <1>1, <1>4, <2>1, <2>3 DEF Orderly, NoOperationFrom
    <3>2. Right(todo', AllWanted)
      BY <1>3, <1>10, <2>3, OptionRight
    <3>3. NoOperationFrom(optind)'
      <4>1. \A n \in optind' .. Len(argv) : n \in 1 .. Len(argv) /\ n # k
        BY <1>2, <2>1
      <4>2. \A n \in optind' .. Len(argv) : argv[n].opt \notin Operations
        BY <1>2, <1>3, <2>3, <4>1 DEF OneOperation
      <4> QED
        BY <1>1, <4>2 DEF NoOperationFrom
    <3>4. Leaving' \/ Quiet(todo')
      BY GetOptStep DEF Good, Leaving
    <3> QED
      BY <1>1, <1>4, <1>6, <1>7, <3>1, <3>2, <3>3, <3>4 DEF Orderly, Right
  <2> QED
    BY <2>2, <2>3
<1>11. ASSUME optind' = Len(argv) + 1, todo' = IF argv = << >> THEN Do("exit") ELSE ch_exit
       PROVE  Orderly'
  <2>1. optind' > Len(argv)
    BY <1>2, <1>11
  <2> QED
    BY <1>9, <1>11, <2>1 DEF Idle
<1> QED
  BY <1>10, <1>11 DEF GetOpt

\* What holds at a call: a part of Orderly, and what is behind the call.
LEMMA OrderlyAt ==
  ASSUME SInv, Orderly, NEW name, At(name)
  PROVE  /\ PendingOps(todo) = Ops(name) \cup PendingOps(Rest)
         /\ CheckLast(Rest) /\ (name \in Checks => Rest = << >>)
         /\ Asks(Rest) => Asks(todo)
         /\ name = "compare" => Asks(todo)
         /\ ~Leaving => Quiet(Rest) /\ name # "reset_off" /\ name # "release"
<1>1. todo # << >> /\ Head(todo).call = name /\ todo \in Seq(Call)
  BY DEF At, SInv, Shape
<1>2. CheckLast(todo) /\ (Leaving \/ Quiet(todo))
  BY DEF Orderly, At
<1> QED
  BY <1>1, <1>2, OpsRest DEF Rest

\* A step that leaves: nothing more is done.
LEMMA OrderlyLeaving ==
  ASSUME Leaving', checked' = NoSign => effects' = {}, checked' \in {NoSign, target'.sign},
         status' = "running", NoOperationFrom(optind)' \/ checked' = NoSign,
         checked' = target'.sign => Done' = AllWanted'
  PROVE  Orderly'
<1>1. todo' \in {ch_exit, Tail(ch_exit), Do("exit")}
  BY DEF Leaving
<1>2. CheckLast(todo') /\ ~Asks(todo') /\ PendingOps(todo') = {} /\ Shape(todo', 8)
  BY <1>1, LeavingRight
<1>3. Working'
  BY <1>2, LaterNext
<1> QED
  BY <1>2, <1>3 DEF Orderly

\* The calls of ch_init before the comparison.
LEMMA DoneInitCalls ==
  ASSUME NoSign \notin Targets, SInv, SInv', FInv, DoneInv,
         ch341_init \/ reset_on \/ chip_prog_enable \/ read_sign
  PROVE  DoneInv'
<1>1. /\ status = "running" /\ UNCHANGED <<argv, optind, status, checked, effects>>
      /\ todo' = Rest \/ todo' = ch_exit
      /\ Fail \/ UNCHANGED lost
      /\ target'.sign = target.sign
  <2>1. target \in [sign : Signs, reset : BOOLEAN, enabled : BOOLEAN]
    BY DEF SInv, TypeOK
  <2>2. CASE ch341_init
    BY <2>2 DEF ch341_init, At
  <2>3. CASE reset_on
    <3>1. /\ status = "running" /\ UNCHANGED <<argv, optind, status, checked, effects>>
          /\ todo' = Rest
          /\ Fail \/ UNCHANGED lost
          /\ target' = target \/ target' = [target EXCEPT !.reset = TRUE]
      BY <2>3 DEF reset_on, Transfer, At
    <3> QED
      BY <2>1, <3>1
  <2>4. CASE chip_prog_enable
    <3>1. /\ status = "running" /\ UNCHANGED <<argv, optind, status, checked, effects>>
          /\ todo' = Rest \/ todo' = ch_exit
          /\ Fail \/ UNCHANGED lost
          /\ target' = target \/ target' = [target EXCEPT !.enabled = target.reset]
      BY <2>4 DEF chip_prog_enable, SpiStream, At
    <3> QED
      BY <2>1, <3>1
  <2>5. CASE read_sign
    BY <2>5 DEF read_sign, SpiStream, NoEffect, At
  <2> QED
    BY <2>2, <2>3, <2>4, <2>5
<1>2. SUFFICES ASSUME OneOperation, lost = 0 PROVE Orderly'
  <2>1. OneOperation' = OneOperation /\ (lost' = 0 => lost = 0)
    BY <1>1, OperationFrame, NotLost
  <2> QED
    BY <1>1, <1>2, <2>1 DEF DoneInv
<1>3. Orderly /\ target.sign # NoSign
  BY <1>2 DEF DoneInv
<1>4. PICK name \in {"ch341_init", "reset_on", "chip_prog_enable", "read_sign"} : At(name)
  BY DEF ch341_init, reset_on, chip_prog_enable, read_sign
<1>5. ~Working /\ ~Leaving
  BY <1>4, InitWorking, LeavingCalls DEF InitNames
<1>6. checked = NoSign /\ effects = {} /\ NoOperationFrom(optind)
  BY <1>1, <1>3, <1>5 DEF Orderly
<1>7. NoOperationFrom(optind)'
  BY <1>1, <1>6, OperationFrame
<1>8. CASE todo' = ch_exit
  <2>1. Leaving'
    BY <1>8 DEF Leaving
  <2> QED
    BY <1>1, <1>3, <1>6, <1>7, <2>1, OrderlyLeaving
<1>9. CASE todo' = Rest
  <2>1. Ops(name) = {}
    BY <1>4 DEF Ops
  <2>2. /\ PendingOps(todo') = PendingOps(todo) /\ CheckLast(todo') /\ Quiet(todo')
        /\ Asks(todo') => Asks(todo)
    BY <1>3, <1>4, <1>5, <1>9, <2>1, OrderlyAt
  <2>3. Asks(todo') => PendingOps(todo') = AllWanted
    BY <1>1, <1>3, <2>2 DEF Orderly
  <2>4. AllWanted' = AllWanted
    BY <1>1, WantedFrame
  <2>5. ~Working'
    <3>1. \E m \in 2 .. 7 : Shape(Rest, m)
      BY <1>4, InitRest
    <3> QED
      BY <1>9, <3>1, InitNext
  <2> QED
    BY <1>1, <1>3, <1>6, <1>7, <2>2, <2>3, <2>4, <2>5 DEF Orderly
<1> QED
  BY <1>1, <1>8, <1>9

\* The comparison: from here on the target is the one that was asked for.
LEMMA DoneCompare ==
  ASSUME NoSign \notin Targets, SInv, SInv', FInv, DoneInv, compare
  PROVE  DoneInv'
<1>1. /\ status = "running" /\ At("compare")
      /\ UNCHANGED <<argv, optind, status, devHandle, target, effects, lost>>
      /\ IF signature = device_sign THEN todo' = Rest /\ checked' = device_sign
         ELSE todo' = ch_exit /\ checked' = checked
  BY DEF compare, At, bus
<1>2. SUFFICES ASSUME OneOperation, lost = 0 PROVE Orderly'
  <2>1. OneOperation' = OneOperation
    BY <1>1, OperationFrame
  <2> QED
    BY <1>1, <1>2, <2>1 DEF DoneInv
<1>3. Orderly /\ target.sign # NoSign
  BY <1>2 DEF DoneInv
<1>4. ~Working /\ ~Leaving
  BY <1>1, InitWorking, LeavingCalls DEF InitNames
<1>5. checked = NoSign /\ effects = {} /\ NoOperationFrom(optind)
  BY <1>1, <1>3, <1>4 DEF Orderly
<1>6. NoOperationFrom(optind)'
  BY <1>1, <1>5, OperationFrame
<1>7. CASE signature = device_sign
  <2>1. /\ checked' = target.sign /\ devHandle /\ target.reset /\ target.enabled
    BY <1>1, <1>2, <1>7, FirstSignature
  <2>2. Shape(todo', 8)
    BY <1>1, <1>7, InitRest
  <2>3. Working' /\ ~Asks(todo')
    BY <2>2, LaterNext, LaterAsks
  <2>4. Ops("compare") = {}
    BY DEF Ops
  <2>5. /\ PendingOps(todo') = PendingOps(todo) /\ CheckLast(todo') /\ Quiet(todo')
        /\ Asks(todo)
    BY <1>1, <1>3, <1>4, <1>7, <2>4, OrderlyAt
  <2>6. PendingOps(todo') = AllWanted
    BY <1>1, <1>3, <2>5 DEF Orderly
  <2>7. AllWanted' = AllWanted /\ Done' = {}
    BY <1>1, <1>5, WantedFrame DEF Done
  <2> QED
    BY <1>1, <1>3, <1>6, <2>1, <2>3, <2>5, <2>6, <2>7 DEF Orderly
<1>8. CASE signature # device_sign
  <2>1. Leaving' /\ checked' = checked
    BY <1>1, <1>8 DEF Leaving
  <2> QED
    BY <1>1, <1>3, <1>5, <1>6, <2>1, OrderlyLeaving
<1> QED
  BY <1>7, <1>8

\* A call behind the comparison that does nothing to the target, or the last
\* comparison with a file, which fails.
LEMMA DoneQuiet ==
  ASSUME NoSign \notin Targets, SInv, SInv', FInv, DoneInv,
         NEW name \in LaterNames \ {"reset_off", "release", "exit"}, At(name), Ops(name) = {},
         todo' = Rest \/ (name \in Checks /\ todo' \in {ch_exit, Do("exit")}),
         UNCHANGED <<argv, optind, status, checked, devHandle, target, effects>>,
         Fail \/ UNCHANGED lost
  PROVE  DoneInv'
<1>1. status = "running" /\ Working /\ ~Leaving
  BY LaterWorking, LeavingCalls DEF At
<1>2. SUFFICES ASSUME OneOperation, lost = 0 PROVE Orderly'
  <2>1. OneOperation' = OneOperation /\ (lost' = 0 => lost = 0)
    BY OperationFrame, NotLost
  <2> QED
    BY <1>2, <2>1 DEF DoneInv
<1>3. Orderly /\ target.sign # NoSign
  BY <1>2 DEF DoneInv
<1>4. /\ PendingOps(todo) = PendingOps(Rest)
      /\ CheckLast(Rest) /\ (name \in Checks => Rest = << >>) /\ Quiet(Rest)
  BY <1>1, <1>3, OrderlyAt
<1>5. AllWanted' = AllWanted /\ Done' = Done
  BY WantedFrame, DoneFrame
<1>6. NoOperationFrom(optind)' = NoOperationFrom(optind)
  BY OperationFrame
<1>7. CASE todo' = Rest
  <2>1. Shape(todo', 8)
    BY <1>7, LaterCall
  <2>2. Working' /\ ~Asks(todo')
    BY <2>1, LaterNext, LaterAsks
  <2> QED
    BY <1>1, <1>3, <1>4, <1>5, <1>6, <1>7, <2>2 DEF Orderly
<1>8. CASE name \in Checks /\ todo' \in {ch_exit, Do("exit")}
  <2>1. PendingOps(todo) = {}
    BY <1>4, <1>8, LeavingRight
  <2>2. Leaving'
    BY <1>8 DEF Leaving
  <2>3. checked' = target'.sign => Done' = AllWanted'
    BY <1>1, <1>3, <1>5, <2>1 DEF Orderly
  <2> QED
    BY <1>1, <1>3, <1>6, <2>2, <2>3, OrderlyLeaving DEF Orderly
<1> QED
  BY <1>7, <1>8

\* A call that modifies the target: it is done if the signature has been accepted.
LEMMA DoneModify ==
  ASSUME MaxLost # 0, NoSign \notin Targets, SInv, SInv', FInv, DoneInv,
         NEW name \in LaterNames \ {"reset_off", "release", "exit"}, NEW op,
         Ops(name) = {op}, Modify(name, op)
  PROVE  DoneInv'
<1>1. /\ At(name) /\ SpiStream(Effect(op), Answer(0)) /\ todo' = Rest
      /\ UNCHANGED <<argv, optind, status, checked, devHandle>>
  BY DEF Modify
<1>2. status = "running" /\ Working /\ ~Leaving
  BY <1>1, LaterWorking, LeavingCalls DEF At
<1>3. target' = target
  BY <1>1 DEF SpiStream, Effect
<1>4. SUFFICES ASSUME OneOperation, lost = 0, lost' = 0 PROVE Orderly'
  <2>1. Fail \/ UNCHANGED lost
    BY <1>1, StreamLost
  <2>2. OneOperation' = OneOperation /\ (lost' = 0 => lost = 0)
    BY <1>1, <2>1, OperationFrame, NotLost
  <2> QED
    BY <1>3, <1>4, <2>2 DEF DoneInv
<1>5. Orderly /\ target.sign # NoSign /\ late = << >>
  BY <1>2, <1>4 DEF DoneInv, FInv
<1>6. /\ PendingOps(todo) = {op} \cup PendingOps(todo')
      /\ CheckLast(todo') /\ Quiet(todo')
  BY <1>1, <1>2, <1>5, OrderlyAt
<1>7. Shape(todo', 8)
  BY <1>1, LaterCall
<1>8. Working' /\ ~Asks(todo')
  BY <1>7, LaterNext, LaterAsks
<1>9. AllWanted' = AllWanted /\ NoOperationFrom(optind)' = NoOperationFrom(optind)
  BY <1>1, WantedFrame, OperationFrame
<1>10. NoOperationFrom(optind)
  BY <1>2, <1>5, <1>6 DEF Orderly
<1>11. (devHandle /\ Effect(op)) \/ (~devHandle /\ effects' = effects)
  BY <1>1, <1>4, <1>5, EmptyStream
<1>12. CASE checked = NoSign
  <2>1. ~target.enabled /\ effects = {}
    BY <1>2, <1>5, <1>12 DEF Orderly
  <2>2. effects' = effects
    BY <1>11, <2>1 DEF Effect
  <2> QED
    BY <1>1, <1>2, <1>3, <1>5, <1>6, <1>8, <1>9, <1>10, <1>12, <2>1, <2>2 DEF Orderly
<1>13. CASE checked = target.sign
  <2>1. /\ devHandle /\ target.reset /\ target.enabled
        /\ Done \cup PendingOps(todo) = AllWanted
    BY <1>2, <1>5, <1>6, <1>13 DEF Orderly
  <2>2. effects' = effects \cup {[op |-> op, arg |-> Arg, checked |-> checked]}
    BY <1>11, <2>1 DEF Effect
  <2>3. Done' = Done \cup {op}
    <3> DEFINE new == [op |-> op, arg |-> Arg, checked |-> checked]
    <3>1. new.op = op /\ effects' = effects \cup {new}
      BY <2>2
    <3> HIDE DEF new
    <3> QED
      BY <3>1 DEF Done
  <2>4. Done' \cup PendingOps(todo') = AllWanted'
    BY <1>6, <1>9, <2>1, <2>3
  <2>5. checked' # NoSign /\ checked' = target'.sign /\ devHandle' /\ target'.reset /\ target'.enabled
    BY <1>1, <1>3, <1>5, <1>13, <2>1
  <2> QED
    BY <1>1, <1>2, <1>6, <1>8, <1>9, <1>10, <2>4, <2>5 DEF Orderly
<1> QED
  BY <1>5, <1>12, <1>13 DEF Orderly

LEMMA DoneWork ==
  ASSUME MaxLost # 0, NoSign \notin Targets, SInv, SInv', FInv, DoneInv,
         \/ read_flash \/ read_fuses \/ chip_erace \/ write_fuses
         \/ main_write_stream \/ write_eeprom \/ check_flash \/ check_flash_strict
  PROVE  DoneInv'
<1>1. {"main_write_stream", "write_eeprom", "check_flash", "check_flash_strict",
       "read_flash", "read_fuses", "chip_erace", "write_fuses"}
        \subseteq LaterNames \ {"reset_off", "release", "exit"}
  BY DEF LaterNames, WorkNames
<1>2. CASE read_flash
  <2>1. /\ At("read_flash") /\ todo' = Rest
        /\ UNCHANGED <<argv, optind, status, checked, devHandle, target, effects>>
        /\ Fail \/ UNCHANGED lost
    BY <1>2 DEF read_flash, ReadMemory
  <2>2. Ops("read_flash") = {}
    BY DEF Ops
  <2> QED
    BY <1>1, <2>1, <2>2, DoneQuiet
<1>3. CASE read_fuses
  <2>1. PICK b \in FuseBytes : SpiStream(NoEffect, Answer(b))
    BY <1>3 DEF read_fuses
  <2>2. /\ At("read_fuses") /\ todo' = Rest
        /\ UNCHANGED <<argv, optind, status, checked, devHandle, target, effects>>
    BY <1>3, <2>1 DEF read_fuses, SpiStream, NoEffect
  <2>3. Fail \/ UNCHANGED lost
    BY <2>1, StreamLost
  <2>4. Ops("read_fuses") = {}
    BY DEF Ops
  <2> QED
    BY <1>1, <2>2, <2>3, <2>4, DoneQuiet
<1>4. ASSUME NEW name \in {"check_flash", "check_flash_strict"},
             NEW otherwise \in {ch_exit, Do("exit")}, Check(name, otherwise)
      PROVE  DoneInv'
  <2>1. /\ At(name) /\ (todo' = Rest \/ todo' = otherwise)
        /\ UNCHANGED <<argv, optind, status, checked, devHandle, target, effects>>
        /\ Fail \/ UNCHANGED lost
    BY <1>4 DEF Check, Parsed, ReadMemory
  <2>2. Ops(name) = {} /\ name \in Checks
    BY DEF Ops, Checks
  <2> QED
    BY <1>1, <2>1, <2>2, DoneQuiet
<1>5. CASE check_flash \/ check_flash_strict
  BY <1>4, <1>5 DEF check_flash, check_flash_strict
<1>6. /\ Ops("chip_erace") = {"erase"} /\ Ops("write_fuses") = {"fuse"}
      /\ Ops("main_write_stream") = {"write"} /\ Ops("write_eeprom") = {"eeprom"}
  BY DEF Ops
<1>7. CASE chip_erace \/ write_fuses
  BY <1>1, <1>6, <1>7, DoneModify DEF chip_erace, write_fuses
<1>8. CASE main_write_stream \/ write_eeprom
  BY <1>1, <1>6, <1>8, DoneModify DEF main_write_stream, write_eeprom
<1> QED
  BY <1>2, <1>3, <1>5, <1>7, <1>8

\* The end of the process: all is done that is ever done.
LEMMA DoneLast ==
  ASSUME NoSign \notin Targets, SInv, SInv', FInv, DoneInv,
         reset_off \/ release \/ Crash \/ exit
  PROVE  DoneInv'
<1>1. /\ status = "running" /\ UNCHANGED <<argv, optind, checked, effects>>
      /\ Fail \/ UNCHANGED lost
      /\ target'.sign = target.sign
  <2>1. target \in [sign : Signs, reset : BOOLEAN, enabled : BOOLEAN]
    BY DEF SInv, TypeOK
  <2>2. CASE reset_off
    <3>1. /\ status = "running" /\ UNCHANGED <<argv, optind, checked, effects>>
          /\ Fail \/ UNCHANGED lost
          /\ \/ target' = target
             \/ target' = [target EXCEPT !.reset = FALSE, !.enabled = FALSE]
      BY <2>2 DEF reset_off, Transfer, At
    <3> QED
      BY <2>1, <3>1
  <2>3. CASE release \/ Crash \/ exit
    BY <2>3 DEF release, Crash, exit, At, bus
  <2> QED
    BY <2>2, <2>3
<1>2. SUFFICES ASSUME OneOperation, lost = 0 PROVE Orderly'
  <2>1. OneOperation' = OneOperation /\ (lost' = 0 => lost = 0)
    BY <1>1, OperationFrame, NotLost
  <2> QED
    BY <1>1, <1>2, <2>1 DEF DoneInv
<1>3. Orderly /\ target.sign # NoSign
  BY <1>2 DEF DoneInv
<1>4. AllWanted' = AllWanted /\ Done' = Done
  BY <1>1, WantedFrame, DoneFrame
<1>5. Leaving => PendingOps(todo) = {}
  BY LeavingRight DEF Leaving
<1>6. CASE reset_off
  <2>1. At("reset_off") /\ todo' = Rest /\ status' = status
    BY <1>6 DEF reset_off
  <2>2. Leaving
    BY <1>3, <2>1, OrderlyAt
  <2>3. Leaving'
    BY <2>1, <2>2, LeavingCalls DEF Leaving, Rest
  <2>4. NoOperationFrom(optind)' \/ checked' = NoSign
    BY <1>1, <1>3, OperationFrame DEF Orderly
  <2>5. checked' = target'.sign => Done' = AllWanted'
    BY <1>1, <1>3, <1>4, <1>5, <2>2 DEF Orderly
  <2> QED
    BY <1>1, <1>3, <2>1, <2>3, <2>4, <2>5, OrderlyLeaving DEF Orderly
<1>7. CASE release
  <2>1. At("release") /\ status' = "ch_exit"
    BY <1>7 DEF release
  <2>2. Leaving
    BY <1>3, <2>1, OrderlyAt
  <2> QED
    BY <1>1, <1>3, <1>4, <1>5, <2>1, <2>2 DEF Orderly
<1>8. CASE Crash \/ exit
  <2>1. status' \in {"crashed", "exit"}
    BY <1>8 DEF Crash, exit
  <2> QED
    BY <1>1, <1>3, <2>1 DEF Orderly
<1> QED
  BY <1>6, <1>7, <1>8

LEMMA DoneStep ==
  ASSUME TimeIsNumber, MaxLost # 0, NoSign \notin Targets, SInv, SInv', FInv, DoneInv,
         [Next]_vars
  PROVE  DoneInv'
<1>1. CASE UNCHANGED vars
  <2>1. UNCHANGED <<argv, optind, status, todo, devHandle, checked, target, effects, lost>>
    BY <1>1 DEF vars, program, bus
  <2>2. /\ OneOperation' = OneOperation /\ NoOperationFrom(optind)' = NoOperationFrom(optind)
        /\ AllWanted' = AllWanted /\ Done' = Done
    BY <2>1, OperationFrame, WantedFrame, DoneFrame
  <2> QED
    BY <2>1, <2>2 DEF DoneInv, Orderly, Leaving, Working
<1> QED
  BY <1>1, DoneOpt, DoneInitCalls, DoneCompare, DoneWork, DoneLast DEF Next

\* DocumentedEffects, when -t is given numbers, failures are counted and every
\* chip has a signature: a command line with one operation that ended in order
\* after the right signature was accepted, no exchange having failed, has done to
\* the memories of the target what the README says of the operation, no more and
\* no less, for every command line, chip and device of config.c.
THEOREM EffectsAsDocumented ==
  ASSUME TimeIsNumber, MaxLost # 0, NoSign \notin Targets
  PROVE  Spec => []DocumentedEffects
<1>1. DoneInv => DocumentedEffects
  BY DEF DoneInv, Orderly, DocumentedEffects, Done, AllWanted
<1> QED
  BY <1>1, DoneInit, DoneStep, FirstInit, FirstStep, SessionInit, SessionStep, PTL DEF Spec
=============================================================================
