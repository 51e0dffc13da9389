----------------------------- MODULE ValueWire -----------------------------
(***************************************************************************)
(* The typed values of ESDB and every form one takes between a script and  *)
(* a SQLite column: the script's value, the text of the wire, the native   *)
(* esdb_value, the storage class.  Operators only, each a conversion of    *)
(* esdb_value.cpp, of the ExternalObject adapter, of esdb.jsx, or of the   *)
(* ORM example's wire header.                                              *)
(*                                                                         *)
(* Everything is a sequence of naturals: bytes, UTF-16 units, ASCII codes. *)
(* Integer types keep their wrap-around at a smaller width: Bytes32 and    *)
(* Bytes64 payload bytes of two bits.  A double is a number of its own:    *)
(* the integers stand for themselves, the names below for the rest.        *)
(***************************************************************************)
EXTENDS Integers, Sequences, SequencesExt

CONSTANTS
    Bytes32, Bytes64, \* payload bytes of INT32 and INT64, 4 and 8
    MAX_SAFE_INTEGER  \* of the script's numbers

LeBase == 4
Int32Max == LeBase ^ Bytes32 \div 2 - 1
Int64Max == LeBase ^ Bytes64 \div 2 - 1

ASSUME WidthAssumption ==
    /\ {Bytes32, Bytes64, MAX_SAFE_INTEGER} \subseteq Nat \ {0}
    /\ Int32Max < MAX_SAFE_INTEGER /\ MAX_SAFE_INTEGER < Int64Max
    /\ Int64Max < 900

Int32Min == -Int32Max - 1
Int64Min == -Int64Max - 1

\* Doubles that are no integer: NaN, the infinities, -0, a fraction whose 17
\* digits differ from the script's, the least subnormal.
NaN == 1001
Inf == 1002
NegInf == 1003
NegZero == 1004
Tenth == 1005
Tiny == 1006
Doubles == -900 .. 900 \cup NaN .. Tiny
IsInteger(d) == d \in -900 .. 900
IsFinite(d) == d \notin {NaN, Inf, NegInf}

\* A conversion that throws or returns an error.
Fail == [type |-> "fail", v |-> <<>>]
Value(type, v) == [type |-> type, v |-> v]

---------------------------------------------------------------------------
(* Decimal text.                                                           *)

Minus == 45
Zero == 48
Digit == 48 .. 57

\* i64_decimal, u64_decimal, std::to_string, String(n).
Decimal(n) ==
    LET digits[k \in Nat] ==
            IF k < 10 THEN <<Zero + k>> ELSE Append(digits[k \div 10], Zero + (k % 10))
    IN  IF n < 0 THEN <<Minus>> \o digits[-n] ELSE digits[n]

Magnitude(text) == IF text # <<>> /\ text[1] = Minus THEN Tail(text) ELSE text

\* The number strtoll reads from text of this syntax.
Number(text) ==
    LET m == FoldLeft(LAMBDA n, c : 10 * n + (c - Zero), 0, Magnitude(text))
    IN  IF text[1] = Minus THEN -m ELSE m

canonical_decimal_syntax(text, allow_negative) ==
    LET m == Magnitude(text) IN
    /\ m # <<>>
    /\ text # m => allow_negative
    /\ \A i \in DOMAIN m : m[i] \in Digit
    /\ m[1] = Zero => Len(m) = 1

parse_i64_decimal(text) ==
    /\ canonical_decimal_syntax(text, TRUE)
    /\ text # <<Minus, Zero>>
    /\ Number(text) \in Int64Min .. Int64Max

\* canonical_int64 of user_orm_wire.hpp.
orm_canonical_int64(text) ==
    LET m == Magnitude(text) IN
    /\ m # <<>>
    /\ \/ text = <<Zero>>
       \/ /\ m[1] \in Digit \ {Zero}
          /\ \A i \in DOMAIN m : m[i] \in Digit
          /\ Number(text) \in Int64Min .. Int64Max

\* text > max of script strings that have the same length.
TextAfter(text, max) ==
    \E i \in DOMAIN text : text[i] > max[i] /\ \A j \in 1 .. i - 1 : text[j] = max[j]

\* canonicalInt64 of esdb.jsx, which compares digits and not numbers.
canonicalInt64(text) ==
    LET m == Magnitude(text)
        max == IF text # m THEN Decimal(-Int64Min) ELSE Decimal(Int64Max)
    IN  IF ~canonical_decimal_syntax(text, TRUE) THEN Fail
        ELSE IF text = <<Minus, Zero>> THEN Value("int64", <<Zero>>)
        ELSE IF Len(m) > Len(max) \/ (Len(m) = Len(max) /\ TextAfter(m, max)) THEN Fail
        ELSE Value("int64", text)

\* Text of a double: double_decimal prints 17 digits, the script the shortest.
DoubleText(d, tenth) ==
    CASE IsInteger(d) -> Decimal(d)
      [] d = NegZero -> <<Minus, Zero>>
      [] d = NaN -> <<78>>
      [] d = Inf -> <<73>>
      [] d = NegInf -> <<Minus, 73>>
      [] d = Tenth -> tenth
      [] d = Tiny -> <<53, 101>>

double_decimal(d) == DoubleText(d, <<48, 46, 49, 48, 49>>)
patchNumberPayload(d) == DoubleText(d, <<48, 46, 49>>)

ReadDouble(text) == CHOOSE d \in Doubles : text \in {double_decimal(d), patchNumberPayload(d)}

\* parse_double_decimal: strtod reports ERANGE for a subnormal.
parse_double_decimal(text) ==
    IF text = <<>> \/ ReadDouble(text) = Tiny THEN Fail
    ELSE Value("DOUBLE", <<ReadDouble(text)>>)

---------------------------------------------------------------------------
(* Hex.                                                                    *)

hex_nibble(c) == IF c \in Digit THEN c - 48
                 ELSE IF c \in 65 .. 70 THEN c - 55
                 ELSE IF c \in 97 .. 102 THEN c - 87 ELSE -1

HexDigit(n) == IF n < 10 THEN 48 + n ELSE 55 + n

hex_encode(bytes) ==
    [i \in 1 .. 2 * Len(bytes) |->
        LET byte == bytes[(i + 1) \div 2]
        IN  HexDigit(IF i % 2 = 1 THEN byte \div 16 ELSE byte % 16)]

IsHex(text) == Len(text) % 2 = 0 /\ \A i \in DOMAIN text : hex_nibble(text[i]) >= 0

\* hex_decode, hexBytes: of text that IsHex.
HexBytes(text) ==
    [i \in 1 .. Len(text) \div 2 |->
        16 * hex_nibble(text[2 * i - 1]) + hex_nibble(text[2 * i])]

\* normalizeHex: upper case.
normalizeHex(text) == [i \in DOMAIN text |-> HexDigit(hex_nibble(text[i]))]

---------------------------------------------------------------------------
(* UTF-8, as checked natively, in the ORM example and in the script.       *)

Continuation(byte) == byte \in 128 .. 191

Lead(byte) ==
    CASE byte <= 127 -> [need |-> 0, code |-> byte]
      [] byte \in 194 .. 223 -> [need |-> 1, code |-> byte % 32]
      [] byte \in 224 .. 239 -> [need |-> 2, code |-> byte % 16]
      [] byte \in 240 .. 244 -> [need |-> 3, code |-> byte % 8]
      [] OTHER -> [need |-> -1, code |-> 0]

\* The code point of the need + 1 bytes from i on.
CodeAt(bytes, i) ==
    LET lead == Lead(bytes[i])
    IN  FoldLeft(LAMBDA code, byte : 64 * code + (byte % 64),
                 lead.code, SubSeq(bytes, i + 1, i + lead.need))

Complete(bytes, i) ==
    LET need == Lead(bytes[i]).need IN
    /\ need >= 0 /\ i + need <= Len(bytes)
    /\ \A j \in i + 1 .. i + need : Continuation(bytes[j])

\* Mutant of CodeAllowed: surrogates pass.
CodeAllowedSurrogates(need, code) ==
    /\ need = 2 => code >= 2048
    /\ need = 3 => code >= 65536
    /\ code <= 1114111

\* The checks of valid_utf8 after the continuation bytes.
CodeAllowed(need, code) ==
    /\ need = 2 => code >= 2048
    /\ need = 3 => code >= 65536
    /\ code \notin 55296 .. 57343
    /\ code <= 1114111

valid_utf8(bytes) ==
    LET ok[i \in 1 .. Len(bytes) + 1] ==
            \/ i > Len(bytes)
            \/ /\ Complete(bytes, i)
               /\ CodeAllowed(Lead(bytes[i]).need, CodeAt(bytes, i))
               /\ ok[i + Lead(bytes[i]).need + 1]
    IN  ok[1]

\* utf8_valid of user_orm_wire.hpp, which checks the surrogates of three bytes
\* and the limit of four.
orm_utf8_valid(bytes) ==
    LET ok[i \in 1 .. Len(bytes) + 1] ==
            \/ i > Len(bytes)
            \/ /\ Complete(bytes, i)
               /\ LET need == Lead(bytes[i]).need
                      code == CodeAt(bytes, i)
                  IN  /\ need = 2 => code >= 2048 /\ code \notin 55296 .. 57343
                      /\ need = 3 => code >= 65536 /\ code <= 1114111
                      /\ ok[i + need + 1]
    IN  ok[1]

\* The tests of utf8FromHex on the second byte.
SecondByteAllowed(b0, b1) ==
    /\ b0 = 224 => b1 >= 160
    /\ b0 = 237 => b1 < 160
    /\ b0 = 240 => b1 >= 144
    /\ b0 = 244 => b1 < 144

\* UTF-16 units of a code point.
Units(point) ==
    IF point < 65536 THEN <<point>>
    ELSE LET p == point - 65536
         IN  <<55296 + ((p \div 1024) % 1024), 56320 + (p % 1024)>>

utf8FromHex(text) ==
    LET bytes == HexBytes(text)
        rest[i \in 1 .. Len(bytes) + 1] ==
            IF i > Len(bytes) THEN Value("string", <<>>)
            ELSE IF /\ Complete(bytes, i)
                    /\ Len(bytes) > i => SecondByteAllowed(bytes[i], bytes[i + 1])
                 THEN LET tail == rest[i + Lead(bytes[i]).need + 1]
                      IN  IF tail = Fail THEN Fail
                          ELSE Value("string", Units(CodeAt(bytes, i)) \o tail.v)
                 ELSE Fail
    IN  IF IsHex(text) THEN rest[1] ELSE Fail

\* The bytes utf8ToHex makes of a code point below 2^16, or of a pair.
Utf8(point) ==
    LET bits(shift) == 128 + ((point \div shift) % 64) IN
    IF point <= 127 THEN <<point>>
    ELSE IF point <= 2047 THEN <<192 + point \div 64, bits(1)>>
    ELSE IF point <= 65535 THEN <<224 + point \div 4096, bits(64), bits(1)>>
    ELSE <<240 + point \div 262144, bits(4096), bits(64), bits(1)>>

High(unit) == unit \in 55296 .. 56319
Low(unit) == unit \in 56320 .. 57343

\* utf8ToHex, before the hex: bytes, or Fail for an unpaired surrogate.
utf8Bytes(units) ==
    LET rest[i \in 1 .. Len(units) + 1] ==
            IF i > Len(units) THEN Value("bytes", <<>>)
            ELSE IF Low(units[i]) THEN Fail
            ELSE IF High(units[i])
                 THEN IF i = Len(units) THEN Fail
                      ELSE IF ~Low(units[i + 1]) \/ rest[i + 2] = Fail THEN Fail
                      ELSE Value("bytes",
                              Utf8(65536 + (units[i] - 55296) * 1024 + units[i + 1] - 56320)
                              \o rest[i + 2].v)
            ELSE IF rest[i + 1] = Fail THEN Fail
            ELSE Value("bytes", Utf8(units[i]) \o rest[i + 1].v)
    IN  rest[1]

---------------------------------------------------------------------------
(* esdb_value: a type and its payload bytes.                               *)

DataTypes == {"UTF8", "BYTES", "ARRAY", "OBJECT"}

\* append_le32, append_le64 of the two's complement.
LittleEndian(n, size) == [i \in 1 .. size |-> (n \div LeBase ^ (i - 1)) % LeBase]

\* read_le32, read_le64 and the cast to the signed type.
Signed(payload) ==
    LET u == FoldRight(LAMBDA byte, n : LeBase * n + byte, payload, 0)
        wrap == LeBase ^ Len(payload)
    IN  IF u >= wrap \div 2 THEN u - wrap ELSE u

esdb_value_create_bool(b) == Value("BOOL", <<IF b # 0 THEN 1 ELSE 0>>)
esdb_value_create_int32(n) == Value("INT32", LittleEndian(n, Bytes32))
esdb_value_create_int64(n) == Value("INT64", LittleEndian(n, Bytes64))
esdb_value_create_double(d) == Value("DOUBLE", <<d>>)
esdb_value_create_bytes(bytes) == Value("BYTES", bytes)
esdb_value_create_text(type, bytes) ==
    IF valid_utf8(bytes) THEN Value(type, bytes) ELSE Fail

---------------------------------------------------------------------------
(* The adapter: numbers come as doubles or as text, the rest as text; a    *)
(* value leaves as its type and a text.                                    *)

make_number_value(type, d) ==
    CASE type = "BOOL" /\ d \in {0, 1} -> esdb_value_create_bool(d)
      [] type = "INT32" /\ IsInteger(d) /\ d \in Int32Min .. Int32Max
            -> esdb_value_create_int32(d)
      [] type = "INT32" /\ d = NegZero -> esdb_value_create_int32(0)
      [] type = "DOUBLE" -> esdb_value_create_double(d)
      [] OTHER -> Fail

make_text_value(type, text) ==
    CASE type = "NULL" -> IF text = <<>> THEN Value("NULL", <<>>) ELSE Fail
      [] type = "INT64" -> IF parse_i64_decimal(text)
                           THEN esdb_value_create_int64(Number(text)) ELSE Fail
      [] type = "BYTES" -> IF IsHex(text) THEN esdb_value_create_bytes(HexBytes(text)) ELSE Fail
      [] type \in DataTypes \ {"BYTES"} ->
            IF IsHex(text) THEN esdb_value_create_text(type, HexBytes(text)) ELSE Fail
      [] OTHER -> Fail

\* value_wire.
value_wire(value) ==
    Value(value.type,
        CASE value.type = "NULL" -> <<>>
          [] value.type = "BOOL" -> Decimal(value.v[1])
          [] value.type \in {"INT32", "INT64"} -> Decimal(Signed(value.v))
          [] value.type = "DOUBLE" -> double_decimal(value.v[1])
          [] value.type \in DataTypes -> hex_encode(value.v))

parse_query_value_wire(wire) ==
    CASE wire.type = "BOOL" -> IF wire.v \in {<<Zero>>, <<Zero + 1>>}
                               THEN esdb_value_create_bool(wire.v[1] - Zero) ELSE Fail
      [] wire.type = "INT32" ->
            IF /\ parse_i64_decimal(wire.v)
               /\ Number(wire.v) \in Int32Min .. Int32Max
            THEN esdb_value_create_int32(Number(wire.v)) ELSE Fail
      [] wire.type = "DOUBLE" -> parse_double_decimal(wire.v)
      [] OTHER -> make_text_value(wire.type, wire.v)

\* A value of storePatch: lane N is a number as text, lane T is as elsewhere.
patch_value(lane, wire) ==
    IF lane = "text" THEN make_text_value(wire.type, wire.v)
    ELSE LET d == parse_double_decimal(wire.v)
         IN  IF d = Fail THEN Fail ELSE make_number_value(wire.type, d.v[1])

---------------------------------------------------------------------------
(* SQLite's storage classes.                                               *)

\* Mutant of esdb_query_bind_value: a NaN is bound, which SQLite stores as NULL.
BindNaN(value) ==
    CASE value.type = "NULL" -> Value("null", <<>>)
      [] value.type = "BOOL" -> Value("integer", value.v)
      [] value.type \in {"INT32", "INT64"} -> Value("integer", <<Signed(value.v)>>)
      [] value.type = "DOUBLE" -> IF value.v[1] = NaN THEN Value("null", <<>>)
                                  ELSE Value("real", value.v)
      [] value.type = "BYTES" -> Value("blob", value.v)
      [] OTHER -> Value("text", value.v)

esdb_query_bind_value(value) ==
    CASE value.type = "NULL" -> Value("null", <<>>)
      [] value.type = "BOOL" -> Value("integer", value.v)
      [] value.type \in {"INT32", "INT64"} -> Value("integer", <<Signed(value.v)>>)
      [] value.type = "DOUBLE" -> IF value.v[1] = NaN THEN Fail ELSE Value("real", value.v)
      [] value.type = "BYTES" -> Value("blob", value.v)
      [] OTHER -> Value("text", value.v)

esdb_query_column_value(column) ==
    CASE column.type = "null" -> Value("NULL", <<>>)
      [] column.type = "integer" -> esdb_value_create_int64(column.v[1])
      [] column.type = "real" -> esdb_value_create_double(column.v[1])
      [] column.type = "text" -> esdb_value_create_text("UTF8", column.v)
      [] column.type = "blob" -> esdb_value_create_bytes(column.v)

---------------------------------------------------------------------------
(* The script.  Its values are null, boolean, number, string, Int64 (a     *)
(* canonical decimal) and Bytes (upper-case hex); "array" and "object"     *)
(* stand by the text the structured codec makes of them.                   *)

\* ESDB.int64(text) and ESDB.bytes(text).
Int64Value(text) == canonicalInt64(text)
BytesValue(text) == IF IsHex(text) THEN Value("bytes", normalizeHex(text)) ELSE Fail

TextWire(type, units) ==
    LET bytes == utf8Bytes(units)
    IN  IF bytes = Fail THEN Fail ELSE Value(type, hex_encode(bytes.v))

\* A number of encodeStoreValue.
StoreNumber(value) ==
    LET d == value.v[1]
    IN  IF IsInteger(d) /\ d \in Int32Min .. Int32Max
        THEN [lane |-> "number", wire |-> Value("INT32", value.v)]
        ELSE [lane |-> "number", wire |-> Value("DOUBLE", value.v)]

encodeStoreValue(value) ==
    CASE value.type = "null" -> [lane |-> "text", wire |-> Value("NULL", <<>>)]
      [] value.type = "int64" -> [lane |-> "text", wire |-> Value("INT64", value.v)]
      [] value.type = "bytes" -> [lane |-> "text", wire |-> Value("BYTES", value.v)]
      [] value.type = "boolean" -> [lane |-> "number", wire |-> Value("BOOL", value.v)]
      [] value.type = "number" -> StoreNumber(value)
      [] value.type = "string" -> [lane |-> "text", wire |-> TextWire("UTF8", value.v)]
      [] value.type = "array" -> [lane |-> "text", wire |-> TextWire("ARRAY", value.v)]
      [] value.type = "object" -> [lane |-> "text", wire |-> TextWire("OBJECT", value.v)]
      [] OTHER -> [lane |-> "text", wire |-> Fail]

encodeQueryParameter(value) ==
    CASE value.type = "null" -> Value("NULL", <<>>)
      [] value.type = "int64" -> Value("INT64", value.v)
      [] value.type = "bytes" -> Value("BYTES", value.v)
      [] value.type = "boolean" -> Value("BOOL", Decimal(value.v[1]))
      [] value.type = "number" ->
            LET d == value.v[1]
            IN  IF IsInteger(d) /\ d \in -MAX_SAFE_INTEGER .. MAX_SAFE_INTEGER
                THEN Value(IF d \in Int32Min .. Int32Max THEN "INT32" ELSE "INT64", Decimal(d))
                ELSE Value("DOUBLE", patchNumberPayload(d))
      [] value.type = "string" -> TextWire("UTF8", value.v)
      [] OTHER -> Fail

\* The constructor of Int64Value parses again; the codec's parse is the
\* inverse of its stringify.
decodeStoreValue(wire) ==
    CASE wire.type = "NULL" -> Value("null", <<>>)
      [] wire.type = "BOOL" -> IF wire.v = <<Zero>> THEN Value("boolean", <<0>>)
                               ELSE IF wire.v = <<Zero + 1>> THEN Value("boolean", <<1>>)
                               ELSE Fail
      [] wire.type = "INT32" ->
            IF /\ canonical_decimal_syntax(wire.v, TRUE)
               /\ Number(wire.v) \in Int32Min .. Int32Max
            THEN Value("number", <<Number(wire.v)>>) ELSE Fail
      [] wire.type = "INT64" -> Int64Value(wire.v)
      [] wire.type = "DOUBLE" -> Value("number", <<ReadDouble(wire.v)>>)
      [] wire.type = "BYTES" -> BytesValue(wire.v)
      [] wire.type = "UTF8" -> utf8FromHex(wire.v)
      [] wire.type \in {"ARRAY", "OBJECT"} ->
            LET text == utf8FromHex(wire.v)
            IN  IF text = Fail THEN Fail
                ELSE Value(IF wire.type = "ARRAY" THEN "array" ELSE "object", text.v)
=============================================================================
