-------------------------------- MODULE MCHex --------------------------------
(* Small instances: a buffer and an EEPROM of 16 bytes, records of up to     *)
(* seven bytes, their texts intact, with one wrong, missing or doubled       *)
(* character, and cut off anywhere.                                          *)
EXTENDS EepromWriter

DataRecord(a, l) ==
  [type |-> IHEX_DATA, address |-> a, data |-> [k \in 1 .. l |-> (70 * k + (a % 10)) % 256]]
Special(t, d) == [type |-> t, address |-> 0, data |-> d]
Eof == Special(IHEX_EOF, << >>)

Data == {DataRecord(0, 2), DataRecord(1, 3), DataRecord(4, 1), DataRecord(5, 2),
         DataRecord(9, 3), DataRecord(13, 3), DataRecord(14, 2), DataRecord(258, 1), DataRecord(4, 0)}
Others == {Special(IHEX_ESA, <<0, 0>>), Special(IHEX_ESA, <<1, 0>>),
           Special(IHEX_ELA, <<0, 0>>), Special(IHEX_ELA, <<0, 1>>),
           Special(IHEX_ELA, <<1>>), Special(IHEX_ELA, <<>>), Special(IHEX_SSA, <<0, 1, 2, 3>>),
           Special(6, <<>>), Eof}
Bases == {Special(IHEX_ESA, <<0, 0>>), Special(IHEX_ELA, <<0, 0>>),
          Special(IHEX_ELA, <<0, 1>>), Special(IHEX_SSA, <<0, 1, 2, 3>>)}

Sets ==
  {<<Eof>>, << >>}
    \cup {<<r, s>> : r \in Others, s \in {Eof, DataRecord(0, 2)}}
    \cup {<<r, s, Eof>> : r, s \in Data \cup Others}
    \cup {<<Special(IHEX_ELA, <<1, 255>>), DataRecord(65530, l), s, Eof>>
            : l \in {5, 6, 7}, s \in {DataRecord(4, 1), Special(IHEX_ELA, <<0, 0>>)}}
    \cup {<<x, r, y, s, Eof>> : r, s \in {DataRecord(0, 2), DataRecord(1, 3)}, x, y \in Bases}

Short == {<<DataRecord(0, 1), DataRecord(258, 2), Eof>>,
          <<Special(IHEX_ELA, <<0, 1>>), DataRecord(5, 2), Eof>>,
          <<Eof, Eof>>}
Eols == {<<LF>>, <<CR, LF>>}

IntactTexts == {<<rs, TextOf(rs, eol)>> : rs \in Sets, eol \in Eols}

Changed(t) == {[t EXCEPT ![k] = c] : k \in DOMAIN t, c \in Chars}
Cut(t) == {SubSeq(t, 1, k) : k \in 0 .. Len(t)}
Missing(t) == {RemoveAt(t, k) : k \in DOMAIN t}
Doubled(t) == {InsertAt(t, k, t[k]) : k \in DOMAIN t}

DamagedTexts ==
  UNION { {<<rs, d>> : d \in Changed(TextOf(rs, eol)) \cup Cut(TextOf(rs, eol))
                        \cup Missing(TextOf(rs, eol)) \cup Doubled(TextOf(rs, eol))}
          : rs \in Short, eol \in Eols}

MCSources == IntactTexts \cup DamagedTexts
MCHeap == {<<18, 18, 18>>, <<1, 18, 0>>}
=============================================================================
