------------------------------- MODULE Session -------------------------------
(***************************************************************************)
(* One run of the program: main takes the options of the command line one  *)
(* after the other, most of them begin with ch_init (open the adapter,     *)
(* hold the target in reset, enable programming, compare the signature),   *)
(* and what an option leaves behind in the static buffers, in the adapter  *)
(* and in the target is what the next one starts from.                     *)
(*                                                                         *)
(* An option is broken into the calls it makes, `todo'.  An operation on   *)
(* the memories of the target is one step here; FlashWriter and            *)
(* AutoProgram look inside.  Each exchange with the target may fail, and   *)
(* no caller asks: spi_data then keeps what an earlier one left in it.     *)
(***************************************************************************)
EXTENDS Integers, Sequences

CONSTANTS
  CommandLines,  \* the argument vectors, sequences of tokens
  Devices,       \* the names of confset that are used
  Targets,       \* signatures of the chips that may be connected
  FuseBytes,     \* what a fuse or the lock byte of a chip may be read as
  LossyBus,      \* may an exchange fail on an open adapter
  MaxLost,       \* bound: failed exchanges are counted up to it
  MaxLate        \* bound: answers that wait in the adapter

\* A token is an option letter or a word.  Of a word main sees the first
\* letter, the HEX file it names, its value as a number and the chip it names.
Token == [opt : STRING, letter : STRING, file : {"none", "hex", "bad"},
          value : Int, device : STRING]

VARIABLES
  argv,         \* the command line
  optind,       \* getopt: the token it looks at next
  todo,         \* the calls that the current option still makes
  status,       \* "running", or how the process ended
  devHandle,    \* is the adapter open
  device_sign,  \* the signature that -d asks for
  read_sign2,   \* read_sign[2], the address in the signature instruction
  spi_data,     \* bytes 2 and 3 of the last answer or of the last UIO packet
  signature,    \* the bytes that check_signature has read
  checked,      \* the device_sign that the last signature matched
  target,       \* the chip: its signature, its reset line, programming mode
  effects,      \* what the target has been made to do
  late,         \* answers that wait in the adapter, to be read by later exchanges
  lost          \* failed exchanges on an open adapter

program == <<argv, optind, todo, status, device_sign, read_sign2, signature, checked>>
bus == <<devHandle, spi_data, target, effects, late, lost>>
vars == <<program, bus>>

\* confset: the signatures of config.c.
confset ==
  [ mega328  |-> <<30, 149, 20>>,  mega328p |-> <<30, 149, 15>>,
    mega168  |-> <<30, 148, 6>>,   mega168p |-> <<30, 148, 11>>,
    mega8    |-> <<30, 147, 7>>,   mega88p  |-> <<30, 147, 15>>,
    mega32   |-> <<30, 149, 2>>,   mega32u4 |-> <<30, 149, 135>>,
    mega16u2 |-> <<30, 148, 137>>, tiny13   |-> <<30, 144, 7>>,
    tiny2313 |-> <<30, 145, 10>>,  tiny4313 |-> <<30, 145, 13>>,
    tiny24   |-> <<30, 145, 11>>,  tiny44   |-> <<30, 146, 7>>,
    tiny84   |-> <<30, 147, 12>>,  tiny25   |-> <<30, 145, 8>>,
    tiny45   |-> <<30, 146, 6>>,   tiny85   |-> <<30, 147, 11>>,
    tiny261a |-> <<30, 145, 12>>,  tiny461a |-> <<30, 146, 8>>,
    tiny861a |-> <<30, 147, 13>> ]

NoSign == <<0, 0, 0>>
Reserved == 255   \* what a chip answers to signature address 3
SYNC == 83        \* 0x53, the echo of the programming enable instruction
Signs == [1 .. 3 -> 0 .. 255]

ASSUME SessionAssumption ==
  /\ CommandLines \subseteq Seq(Token)
  /\ Devices \subseteq DOMAIN confset
  /\ Targets \subseteq Signs
  /\ FuseBytes \subseteq 0 .. 255
  /\ LossyBus \in BOOLEAN
  /\ MaxLost \in Nat
  /\ MaxLate \in Nat

TypeOK ==
  /\ argv \in Seq(Token)
  /\ optind \in 1 .. Len(argv) + 1
  /\ status \in {"running", "ch_exit", "exit", "crashed"}
  /\ devHandle \in BOOLEAN
  /\ device_sign \in Signs
  /\ read_sign2 \in 0 .. 3
  /\ spi_data \in [2 .. 3 -> 0 .. 255]
  /\ signature \in Seq(0 .. 255) /\ Len(signature) <= 3
  /\ checked \in Signs
  /\ target \in [sign : Signs, reset : BOOLEAN, enabled : BOOLEAN]
  /\ late \in Seq([2 .. 3 -> 0 .. 255]) /\ Len(late) <= MaxLate
  /\ lost \in 0 .. MaxLost

-----------------------------------------------------------------------------
(* The calls that an option makes. *)

NoArg == [opt |-> "word", letter |-> "", file |-> "none",
          value |-> 0, device |-> ""]
Do(name) == <<[call |-> name, arg |-> NoArg]>>
DoWith(name, arg) == <<[call |-> name, arg |-> arg]>>

ch_init ==
  Do("ch341_init") \o Do("reset_on") \o Do("chip_prog_enable")
    \o Do("read_sign") \o Do("read_sign") \o Do("read_sign") \o Do("compare")

\* A faulty ch_exit: the reset line is not released.
ch_exit_in_reset == Do("release")

ch_exit == Do("reset_off") \o Do("release")

file_exists(arg) == arg.file # "none"

\* argv[optind] # NULL
NextArg == optind' <= Len(argv)

\* The fuse is written if strtol's value is a byte.
write_fuse(arg) ==
  IF arg.value \in 0 .. 255 THEN DoWith("write_fuses", arg) ELSE << >>

\* A faulty OptionA: the flash is not erased first.
OptionAKeepsFlash(arg) ==
  IF ~NextArg
  THEN IF file_exists(arg)
       THEN ch_init \o DoWith("main_write_stream", arg) \o DoWith("check_flash", arg)
       ELSE << >>
  ELSE IF arg.letter = "s" /\ file_exists(argv[optind'])
  THEN ch_init \o DoWith("main_write_stream", argv[optind'])
         \o DoWith("check_flash_strict", argv[optind'])
  ELSE << >>

\* `-a HEX' wants nothing behind it, `-a s HEX' a file.  -t falls through.
OptionA(arg) ==
  IF ~NextArg
  THEN IF file_exists(arg)
       THEN ch_init \o Do("chip_erace") \o DoWith("main_write_stream", arg)
              \o DoWith("check_flash", arg)
       ELSE << >>
  ELSE IF arg.letter = "s" /\ file_exists(argv[optind'])
  THEN ch_init \o Do("chip_erace") \o DoWith("main_write_stream", argv[optind'])
         \o DoWith("check_flash_strict", argv[optind'])
  ELSE << >>

OptionP(arg) ==
  IF arg.letter = "r" THEN ch_init \o Do("read_flash")
  ELSE IF arg.letter = "w" /\ NextArg THEN DoWith("write_eeprom", argv[optind'])
  ELSE << >>

\* The cases of the switch in main; `d' is AssignCfg.
Handler(opt, arg) ==
  CASE opt = "r" -> IF arg.letter = "f" /\ ~NextArg THEN << >> ELSE ch_init \o Do("read_flash")
    [] opt = "w" -> IF file_exists(arg)
                    THEN ch_init \o DoWith("main_write_stream", arg) ELSE << >>
    [] opt = "e" -> ch_init \o Do("chip_erace")
    [] opt = "c" -> IF file_exists(arg)
                    THEN ch_init \o DoWith("check_flash_strict", arg) ELSE << >>
    [] opt \in {"a", "t"} -> OptionA(arg)
    [] opt = "f" -> ch_init \o Do("read_fuses") \o Do("read_fuses") \o Do("read_fuses")
    [] opt = "L" -> ch_init \o Do("read_fuses")
    [] opt \in {"l", "H", "x"} -> ch_init \o write_fuse(arg)
    [] opt = "p" -> OptionP(arg)
    [] OTHER -> Do("exit")

WithArg == {"d", "r", "w", "a", "c", "l", "H", "x", "t", "p"}

-----------------------------------------------------------------------------

Init ==
  /\ argv \in CommandLines
  /\ optind = 1
  /\ todo = << >>
  /\ status = "running"
  /\ devHandle = FALSE
  /\ device_sign = NoSign
  /\ read_sign2 = 0
  /\ spi_data = [b \in 2 .. 3 |-> 0]
  /\ signature = << >>
  /\ checked = NoSign
  /\ target \in [sign : Targets, reset : {FALSE}, enabled : {FALSE}]
  /\ effects = {}
  /\ late = << >>
  /\ lost = 0

IsNext(k) ==
  /\ k \in optind .. Len(argv)
  /\ argv[k].opt # "word"
  /\ \A m \in optind .. k - 1 : argv[m].opt = "word"

\* getopt returns the option at k; words before it are skipped.
Option(k) ==
  LET opt == argv[k].opt
      arg == argv[k + 1]
  IN /\ IsNext(k)
     /\ IF opt \notin WithArg
        THEN /\ optind' = k + 1
             /\ todo' = Handler(opt, argv[k])
             /\ UNCHANGED device_sign
        ELSE IF k = Len(argv)
        THEN /\ optind' = k + 1
             /\ todo' = Do("exit")
             /\ UNCHANGED device_sign
        ELSE /\ optind' = k + 2
             /\ IF opt # "d"
                THEN todo' = Handler(opt, arg) /\ UNCHANGED device_sign
                ELSE IF arg.device \in Devices
                THEN todo' = << >> /\ device_sign' = confset[arg.device]
                ELSE todo' = Do("exit") /\ UNCHANGED device_sign

\* The while loop of main: the next option, or ch_exit when there is none.  An
\* empty command line only gets the help text.
GetOpt ==
  /\ status = "running"
  /\ todo = << >>
  /\ \/ \E k \in 1 .. Len(argv) : Option(k)
     \/ /\ ~\E k \in 1 .. Len(argv) : IsNext(k)
        /\ optind' = Len(argv) + 1
        /\ todo' = IF argv = << >> THEN Do("exit") ELSE ch_exit
        /\ UNCHANGED device_sign
  /\ UNCHANGED <<argv, status, read_sign2, signature, checked, bus>>

\* The next call is `name'.
At(name) == status = "running" /\ todo # << >> /\ Head(todo).call = name
Arg == Head(todo).arg
Rest == Tail(todo)

Fail == lost' = IF devHandle /\ lost < MaxLost THEN lost + 1 ELSE lost

\* usbTransfer of a packet without an answer: the adapter gets it or not.
Transfer(effect) ==
  /\ \/ devHandle /\ effect /\ UNCHANGED lost
     \/ (~devHandle \/ LossyBus) /\ Fail /\ UNCHANGED <<target, effects>>
  /\ UNCHANGED late

\* ch341SpiStream of four bytes: the target executes the instruction and the
\* oldest answer that waits is read; or the read fails and the answer stays or
\* is lost; or the instruction does not arrive.
SpiStream(effect, answer) ==
  LET queue == Append(late, answer) IN
  \/ /\ devHandle /\ effect
     /\ spi_data' = Head(queue)
     /\ late' = Tail(queue)
     /\ UNCHANGED lost
  \/ /\ devHandle /\ LossyBus /\ effect /\ Fail
     /\ late' \in {late, queue} /\ Len(late') <= MaxLate
     /\ UNCHANGED spi_data
  \/ /\ ~devHandle \/ LossyBus
     /\ Fail
     /\ UNCHANGED <<target, effects, spi_data, late>>

\* A long ch341SpiStream into buffers of its own; what it finds waiting is read.
ReadMemory ==
  \/ devHandle /\ late' = << >> /\ UNCHANGED lost
  \/ (~devHandle \/ LossyBus) /\ Fail /\ UNCHANGED late

NoEffect == UNCHANGED <<target, effects>>

\* A target that is held in reset and programming enabled executes it.
Effect(op) ==
  /\ effects' = IF target.reset /\ target.enabled
                THEN effects \cup {[op |-> op, arg |-> Arg, checked |-> checked]}
                ELSE effects
  /\ UNCHANGED target

\* The answer to an instruction whose last byte is `b'; without a target in
\* programming mode the line is idle.
Answer(b) == [k \in 2 .. 3 |-> IF ~(target.reset /\ target.enabled) THEN 255
                               ELSE IF k = 3 THEN b ELSE 0]

-----------------------------------------------------------------------------

\* ch341Configure and ch341SetStream; an open adapter stays as it is.
ch341_init ==
  /\ At("ch341_init")
  /\ \/ devHandle' = TRUE
     \/ ~devHandle /\ devHandle' = FALSE
  /\ todo' = Rest
  /\ UNCHANGED <<argv, optind, status, device_sign, read_sign2, signature, checked,
                 spi_data, target, effects, late, lost>>

\* toggle_reset prepares its packet in spi_data.  Programming ends with reset.
reset_on ==
  /\ At("reset_on")
  /\ spi_data' = [spi_data EXCEPT ![2] = 127, ![3] = 32]
  /\ Transfer(target' = [target EXCEPT !.reset = TRUE] /\ UNCHANGED effects)
  /\ todo' = Rest
  /\ UNCHANGED <<argv, optind, status, device_sign, read_sign2, signature, checked,
                 devHandle>>

reset_off ==
  /\ At("reset_off")
  /\ spi_data' = [spi_data EXCEPT ![2] = 32]
  /\ Transfer(/\ target' = [target EXCEPT !.reset = FALSE, !.enabled = FALSE]
              /\ UNCHANGED effects)
  /\ todo' = Rest
  /\ UNCHANGED <<argv, optind, status, device_sign, read_sign2, signature, checked,
                 devHandle>>

chip_prog_enable ==
  /\ At("chip_prog_enable")
  /\ SpiStream(/\ target' = [target EXCEPT !.enabled = target.reset]
               /\ UNCHANGED effects,
               [k \in 2 .. 3 |-> IF ~target.reset THEN 255 ELSE IF k = 2 THEN SYNC ELSE 0])
  /\ todo' = IF spi_data'[2] = SYNC THEN Rest ELSE ch_exit
  /\ UNCHANGED <<argv, optind, status, device_sign, read_sign2, signature, checked,
                 devHandle>>

\* A faulty read_sign: the address of the byte is one read behind.
read_sign_late ==
  /\ At("read_sign")
  /\ SpiStream(NoEffect, Answer(IF read_sign2 = 3 THEN Reserved
                                ELSE target.sign[read_sign2 + 1]))
  /\ signature' = Append(signature, spi_data'[3])
  /\ read_sign2' = Len(signature)
  /\ todo' = Rest
  /\ UNCHANGED <<argv, optind, status, device_sign, checked, devHandle>>

\* One round of the first loop of check_signature.
read_sign ==
  /\ At("read_sign")
  /\ SpiStream(NoEffect, Answer(IF read_sign2 = 3 THEN Reserved
                                ELSE target.sign[read_sign2 + 1]))
  /\ signature' = Append(signature, spi_data'[3])
  /\ read_sign2' = Len(signature')
  /\ todo' = Rest
  /\ UNCHANGED <<argv, optind, status, device_sign, checked, devHandle>>

\* A faulty compare: the third byte is not compared.
compare_two ==
  /\ At("compare")
  /\ IF SubSeq(signature, 1, 2) = SubSeq(device_sign, 1, 2)
     THEN todo' = Rest /\ checked' = device_sign
     ELSE todo' = ch_exit /\ UNCHANGED checked
  /\ signature' = << >>
  /\ UNCHANGED <<argv, optind, status, device_sign, read_sign2, bus>>

\* A faulty compare: the bytes read are kept for the next call.
compare_static ==
  /\ At("compare")
  /\ IF signature = device_sign
     THEN todo' = Rest /\ checked' = device_sign
     ELSE todo' = ch_exit /\ UNCHANGED checked
  /\ UNCHANGED <<argv, optind, status, device_sign, read_sign2, signature, bus>>

\* Its comparison.
compare ==
  /\ At("compare")
  /\ IF signature = device_sign
     THEN todo' = Rest /\ checked' = device_sign
     ELSE todo' = ch_exit /\ UNCHANGED checked
  /\ signature' = << >>
  /\ UNCHANGED <<argv, optind, status, device_sign, read_sign2, bus>>

\* Reading the flash or the eeprom, into buffers of their own.
read_flash ==
  /\ At("read_flash")
  /\ ReadMemory
  /\ todo' = Rest
  /\ UNCHANGED <<argv, optind, status, device_sign, read_sign2, signature, checked,
                 devHandle, spi_data, target, effects>>

\* One round of the loop that reads the fuses, or the reading of the lock byte.
read_fuses ==
  /\ At("read_fuses")
  /\ \E b \in FuseBytes : SpiStream(NoEffect, Answer(b))
  /\ todo' = Rest
  /\ UNCHANGED <<argv, optind, status, device_sign, read_sign2, signature, checked,
                 devHandle>>

Modify(name, op) ==
  /\ At(name)
  /\ SpiStream(Effect(op), Answer(0))
  /\ todo' = Rest
  /\ UNCHANGED <<argv, optind, status, device_sign, read_sign2, signature, checked,
                 devHandle>>

chip_erace == Modify("chip_erace", "erase")
write_fuses == Modify("write_fuses", "fuse")

\* A file that the parser refuses is a NULL record set, used at once.
Crash ==
  /\ \/ At("main_write_stream")
     \/ At("write_eeprom")
     \/ At("check_flash")
     \/ At("check_flash_strict")
  /\ Arg.file # "hex"
  /\ status' = "crashed"
  /\ UNCHANGED <<argv, optind, todo, device_sign, read_sign2, signature, checked, bus>>

Parsed(name) == At(name) /\ Arg.file = "hex"
main_write_stream == Parsed("main_write_stream") /\ Modify("main_write_stream", "write")
write_eeprom == Parsed("write_eeprom") /\ Modify("write_eeprom", "eeprom")

\* The comparison may fail for any reason; what follows differs.
Check(name, otherwise) ==
  /\ Parsed(name)
  /\ ReadMemory
  /\ todo' \in {Rest, otherwise}
  /\ UNCHANGED <<argv, optind, status, device_sign, read_sign2, signature, checked,
                 devHandle, spi_data, target, effects>>

check_flash == Check("check_flash", ch_exit)
check_flash_strict == Check("check_flash_strict", Do("exit"))

\* A faulty release: the process goes on.
release_returns ==
  /\ At("release")
  /\ devHandle' = FALSE
  /\ todo' = Rest
  /\ UNCHANGED <<argv, optind, status, device_sign, read_sign2, signature, checked,
                 spi_data, target, effects, late, lost>>

\* ch341Release and exit, at the end of ch_exit.
release ==
  /\ At("release")
  /\ devHandle' = FALSE
  /\ status' = "ch_exit"
  /\ UNCHANGED <<argv, optind, todo, device_sign, read_sign2, signature, checked,
                 spi_data, target, effects, late, lost>>

\* exit(0) without ch_exit.
exit ==
  /\ At("exit")
  /\ status' = "exit"
  /\ UNCHANGED <<argv, optind, todo, device_sign, read_sign2, signature, checked, bus>>

Next ==
  \/ GetOpt
  \/ ch341_init \/ reset_on \/ chip_prog_enable \/ read_sign \/ compare
  \/ read_flash \/ read_fuses \/ chip_erace \/ write_fuses \/ main_write_stream \/ write_eeprom
  \/ check_flash \/ check_flash_strict \/ Crash
  \/ reset_off \/ release \/ exit

Spec == Init /\ [][Next]_vars

\* The process is never blocked for good: every transfer has a timeout.
FairSpec == Spec /\ WF_vars(Next)

-----------------------------------------------------------------------------
(* Properties *)

\* The signature check protects the target: whatever the bus loses and whatever
\* stale bytes are compared, the memories of a chip are modified only after its
\* own signature was the one asked for.  Without -d the expected signature is
\* 0 0 0, which it takes three failed reads to match.
SignatureGate ==
  \A e \in effects : \/ e.checked = target.sign
                     \/ e.checked = NoSign /\ lost >= 3

\* ch_exit lets the target run again unless a transfer failed; only exit(0) in
\* the middle of an option, and a crash, can leave it in reset.
TargetReleased ==
  status # "running" /\ target.reset => lost > 0 \/ status \in {"exit", "crashed"}

\* The chip asked for is recognised when the bus loses nothing: check_signature
\* refuses only a "signature mismatch".
RightChipAccepted ==
  At("compare") /\ lost = 0 /\ device_sign = target.sign => signature = device_sign

\* The argument of -t is a number, as the README asks: -t falls through to -a,
\* and with a file behind it would do what -a does.
TimeIsNumber ==
  \A c \in CommandLines : \A k \in 1 .. Len(c) - 1 :
    c[k].opt = "t" => ~file_exists(c[k + 1]) /\ c[k + 1].letter # "s"

\* The options that begin with ch_init.
Operations == {"r", "w", "e", "c", "a", "f", "l", "H", "x", "L", "p"}
OneOperation ==
  \A k, m \in DOMAIN argv :
    argv[k].opt \in Operations /\ argv[m].opt \in Operations => k = m

\* The same for command lines with one operation.
FirstCheckAccepts == OneOperation => RightChipAccepted

\* What the README says of an option with its arguments: what it does to the
\* memories of the target.
Wanted(k) ==
  LET opt == argv[k].opt IN
  CASE opt = "e" -> {"erase"}
    [] opt = "w" -> {"write"}
    [] opt = "a" -> {"erase", "write"}
    [] opt \in {"l", "H", "x"} /\ argv[k + 1].value \in 0 .. 255 -> {"fuse"}
    [] opt = "p" /\ argv[k + 1].letter = "w" -> {"eeprom"}
    [] OTHER -> {}

\* A command line with one operation that ended in order, after the signature of
\* the right chip was accepted and every exchange answered, has done what it
\* says and nothing else to the target.
DocumentedEffects ==
  OneOperation /\ status = "ch_exit" /\ lost = 0 /\ checked = target.sign =>
    {e.op : e \in effects} = UNION {Wanted(k) : k \in DOMAIN argv}

\* `-p w' writes the EEPROM, whatever comes before it.
EepromWritten ==
  status = "ch_exit" /\ lost = 0 =>
    \A k \in DOMAIN argv :
      Wanted(k) = {"eeprom"} => \E e \in effects : e.op = "eeprom"

\* The process ends.
Ends == <>(status # "running")
=============================================================================
