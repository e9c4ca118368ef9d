---------------------------- MODULE MCItemValues ----------------------------
(***************************************************************************)
(* ItemValues with integers of 2 and 4 bits: all that JSON can tell, and   *)
(* arrays of them, of other types and of arrays.                           *)
(***************************************************************************)
EXTENDS ItemValues

Num(n)  == <<"int", n>>
Arr(s)  == <<"array", s>>
S       == <<"string", "text">>
Null    == <<"null", 0>>
Elements == {Num(1), Num(15), S, Null}

MCWrites ==
    {Num(n) : n \in -8 .. 15}
    \cup {S, Null, <<"float", "1.5">>, <<"bool", TRUE>>, <<"object", <<"key", Num(1)>>>>}
    \cup {Arr(<<>>)} \cup {Arr(<<a>>) : a \in Elements} \cup {Arr(<<a, b>>) : a, b \in Elements}
    \cup {Arr(<<Arr(<<Num(1)>>), Arr(<<b>>)>>) : b \in {Num(0), S}}
    \cup {Arr(<<Arr(<<>>), Arr(<<S>>)>>), Arr(<<Null, Arr(<<Num(1)>>)>>)}

MCValues ==
    {<<"t", 15>>, <<"s", "secret">>, <<"a", <<>>, <<"i">>>>, <<"struct", 0>>,
     <<"dict", <<<<"s", "key">>, <<"i", 1>>>>>>, <<"dict", <<<<"i", 0>>, <<"i", 1>>>>>>}

MCUnknown == <<"Unknown", 0, <<>>>>

MCValueError == <<"ValueError">>

MCLimits == {<<"i", 0>>, <<"i", 1>>}

=============================================================================
