---------------------------- MODULE MCTypedQuery ----------------------------
(***************************************************************************)
(* The calls the model checker makes: every parameter once, every text at  *)
(* the edges of UTF-8 once, and the control of the call with few values.   *)
(***************************************************************************)
EXTENDS TypedQuery

Call(sql, params, max) == [sql |-> sql, params |-> params, max_rows |-> max]
Scenario(c, columns, table) == [call |-> c, schema |-> columns, rows |-> table]

\* Parameters.
Edges == {0, 1, Int32Max, Int32Max + 1, MAX_SAFE_INTEGER, MAX_SAFE_INTEGER + 1,
          Int64Max, Int64Max + 1}
Numbers == Edges \cup {-n : n \in Edges} \cup NaN .. Tiny
Unit == {0, 127, 128, 2047, 2048, 55295, 55296, 56319, 56320, 57343, 57344, 65535}
DecimalChar == {43, Minus, Zero, Zero + 1, Zero + 2, Zero + 7, Zero + 8}
HexChar == {48, 57, 65, 70, 71, 97, 102}
UpTo(set, n) == UNION {[1 .. k -> set] : k \in 0 .. n}

Parameters ==
    {Value("null", <<>>), Value("boolean", <<0>>), Value("boolean", <<1>>),
     Value("undefined", <<>>), Value("array", <<91, 93>>), Value("object", <<123, 55296>>)}
    \cup {Value("number", <<n>>) : n \in Numbers}
    \cup {Value("string", u) : u \in UpTo(Unit, 2)}
    \cup {Value("int64 of", t) : t \in UpTo(DecimalChar, 4)}
    \cup {Value("bytes of", t) : t \in UpTo(HexChar, 2)}

\* Texts in the database: by length, a lead byte that asks for it.
Byte == {127, 128, 143, 144, 159, 160, 191, 193, 194, 224, 237, 240, 244, 245}
TextBytes ==
    UpTo(Byte, 2) \cup {<<224 + k>> \o t : k \in {0, 1, 13, 15}, t \in [1 .. 2 -> Byte]}
    \cup {<<240 + k, second>> \o t :
            k \in {0, 1, 4, 5}, second \in Byte, t \in UpTo({127, 128, 191, 194}, 2)}

\* Columns: the name of one is too long for a reply, that of one ill-formed.
MCNameBytes ==
    [c \in {"a", "b", "c", "long", "odd", "?"} |->
        CASE c = "long" -> [i \in 1 .. 7 |-> 65]
          [] c = "odd" -> <<97, 255>>
          [] c = "?" -> <<63>>
          [] c = "b" -> <<195, 191>>
          [] OTHER -> <<97>>]

\* Tables of up to three rows, one text too long for the reply, one ill-formed.
Long == Value("text", <<65, 65, 65>>)
Bad == Value("text", <<255>>)
One == Value("integer", <<1>>)
Of(a, b) == [c \in {"a", "b", "c", "long", "odd"} |-> IF c = "a" THEN a ELSE b]
Tables == UpTo({Of(One, One), Of(Long, One), Of(One, Bad)}, 3)

MCScenarios ==
    {Scenario(Call("echo", <<p>>, 1), <<"a">>, <<>>) : p \in Parameters}
    \cup {Scenario(Call("select", <<>>, 1), <<"a">>, <<Of(Value("text", t), One)>>) : t \in TextBytes}
    \cup {Scenario(Call("select", <<>>, 1), <<"a">>, <<Of(v, One)>>) :
            v \in {Value("real", <<d>>) : d \in Numbers \ {NaN}}
                  \cup {Value("integer", <<n>>) : n \in {Int64Min, -1, 0, Int64Max}}
                  \cup {Value("blob", <<>>), Value("blob", <<0, 255>>), Value("null", <<>>)}}
    \cup {Scenario(Call(sql, params, max), <<"a", "b">>, table) :
            sql \in {"select", "returning", "insert", "update or fail", "ddl", "echo",
                     "two", "broken"},
            params \in {<<>>, <<Value("number", <<2>>)>>},
            max \in 0 .. 2, table \in Tables}
    \cup {Scenario(Call(sql, <<>>, 2), <<"a", column>>, table) :
            sql \in {"select", "returning"}, column \in {"long", "odd"}, table \in Tables}

MCSchemas == {<<"b", "c">>, <<"a", "b", "c">>, <<"b">>, <<"long">>, <<"a", "odd">>}
=============================================================================
