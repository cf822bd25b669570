------------------------------ MODULE MCSession ------------------------------
(* Command lines for Session.                                               *)
EXTENDS Session

Opt(letter) == [opt |-> letter, letter |-> "-", file |-> "none",
                value |-> 0, device |-> ""]
Word(letter) == [Opt("word") EXCEPT !.letter = letter]
Hex == [Word("h") EXCEPT !.file = "hex"]        \* firmware in a file that parses
Bad == [Word("h") EXCEPT !.file = "bad"]        \* a file that does not
None == Word("n")                               \* no such file
Chip(name) == [Word("m") EXCEPT !.device = name]
Num(v) == [Word("0") EXCEPT !.value = v]

\* One option with its arguments.
Units ==
  { <<Opt("e")>>, <<Opt("f")>>, <<Opt("L")>>, <<Opt("w"), Hex>>, <<Opt("w"), Bad>>,
    <<Opt("w"), None>>, <<Opt("c"), Hex>>, <<Opt("a"), Hex>>,
    <<Opt("a"), Word("s"), Hex>>, <<Opt("p"), Word("w"), Hex>>,
    <<Opt("p"), Word("r")>>, <<Opt("l"), Num(42)>>, <<Opt("H"), Num(300)>>,
    <<Opt("r"), Word("f"), Hex>>, <<Opt("t"), Num(12000)>>, <<Opt("z")>>,
    <<Opt("d"), Chip("mega168")>> }

Device == <<Opt("d"), Chip("mega328p")>>

AllLines ==
  {<< >>} \cup {u \o v : u \in Units \cup {Device}, v \in Units}
    \cup {Device \o u \o v : u, v \in Units}
    \cup {<<Opt("t"), Num(12000)>> \o Device \o u : u \in Units}

EraseThenWrite == {Device \o <<Opt("e")>> \o <<Opt("w"), Hex>>}
EepromLine == {Device \o <<Opt("p"), Word("w"), Hex>>}

MCDevices == {"mega328p", "mega168"}
RightTarget == {<<30, 149, 15>>}
MCTargets == {<<30, 149, 15>>, <<30, 148, 6>>, <<30, 149, 20>>}

\* The fuses hold bytes of the signature of a mega168.
MCFuseBytes == {30, 148, 6}

\* -t is given numbers in them.
ASSUME TimeIsNumber
=============================================================================
