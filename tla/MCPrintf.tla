------------------------------ MODULE MCPrintf ------------------------------
(* Formats of at most two items for TLC.  Numbers are 16 bits wide: bf needs 8
   bytes for "0x-8000" as it needs 12 for "0x-80000000" and "-2147483648". *)
EXTENDS Printf

Plain == [flag : {<<>>}, width : {<<>>}, length : {<<>>}, spec : {"d", "u", "x"},
          arg : {0, 9, 10, 100, 255, 4096, 32767, 32768, 65535}]
Decorated == [flag : {<<>>, <<"+">>, <<"0">>}, width : {<<>>, <<"1">>, <<"1", "0">>},
              length : {<<>>, <<"h">>, <<"h", "h">>, <<"l">>}, spec : {"i", "x"}, arg : {32768}]
Texts == [text : {"d", "5", "h"}]
Other(s, a) == [flag |-> <<>>, width |-> <<>>, length |-> <<>>, spec |-> s, arg |-> a]
Percent == Other("%", 0)
LongItem == [flag |-> <<>>, width |-> <<>>, length |-> <<"l", "l">>, spec |-> "d", arg |-> 1]

Items == Plain \cup Decorated \cup Texts
         \cup {Other("c", "h"), Other("s", <<>>), Other("s", <<"d", "5">>)}

MCFormats == {<<i>> : i \in Items \cup {LongItem}} \cup Items \X (Items \cup {Percent})

MCAlphabet == {"d", "5", "h"}
=============================================================================
