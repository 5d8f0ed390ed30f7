------------------------------- MODULE MCConsole -------------------------------
(* A parameter of every type, with a range and without, and the lines that   *)
(* set them to values at and beyond their limits (integers of 4 bits, floats *)
(* of 3 bits with exponents 3 to 6), some of them with tabs, zero bytes, or  *)
(* one key too long.                                                         *)
EXTENDS Console, TLC

Param(name, type, min, max, init) ==
  [name |-> name, type |-> type, min_val |-> min, max_val |-> max, init |-> init]

MCParameters ==
  << Param("u", "uint32", 1, 5, 1),   Param("free", "uint32", 0, 0, 15),
     Param("i", "int32", -3, 3, 0),   Param("f", "float", -320, 320, 320),
     Param("s", "string", 0, 2, <<>>), Param("none", "string", 0, 0, <<>>) >>

\* Numbers m * 2^e with 0 <= m <= 7, either sign, and the infinities.
MCFloats ==
  LET finite == {m * 2^e : m \in 0 .. 7, e \in 3 .. 6}
  IN finite \cup {-v : v \in finite} \cup {512, -512}

MCIntegerText ==
  ("-13" :> -13) @@ ("-8" :> -8) @@ ("-1" :> -1) @@ ("3" :> 3) @@ ("13" :> 13) @@ ("16" :> 16)
MCFloatText ==
  ("-0.57" :> -57) @@ ("3.46" :> 346) @@ ("16" :> 1600) @@ ("nan" :> NaN)

Texts == [u    |-> {"-13", "3", "16", "2.99"},
          free |-> {"16"},
          i    |-> {"-8", "13"},
          f    |-> DOMAIN MCFloatText]

MCLines ==
  UNION {{<<"set", " ", name, " ", text>> : text \in Texts[name]} : name \in DOMAIN Texts}
  \cup {<<"set", TAB, "i", " ", "-1">>, <<"set", " ", "u", " ", "3", " ", "3">>,
        <<"set", " ", "s", " ", "3", "3", NUL, "3">>,
        <<"set", " ", "none", " ", "3">>, <<"set", " ", "x", " ", "3">>, <<" ", " ", "get">>}

\* A uint32 without a range, and a line that sets it to its greatest value.
MCUnsigned == << Param("free", "uint32", 0, 0, 0) >>
MCSetUnsigned == {<<"set", " ", "free", " ", "16">>}
==============================================================================
