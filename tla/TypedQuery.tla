----------------------------- MODULE TypedQuery -----------------------------
(***************************************************************************)
(* One typed SQL call from a script and back: Database.query of esdb.jsx,  *)
(* querySql of the ExternalObject adapter, esdb_query of the runtime.  The *)
(* slot of the database is locked for the whole native part, so the only   *)
(* other actor is another connection, which may change the columns of the  *)
(* table until the statement's first step.                                 *)
(***************************************************************************)
EXTENDS ValueWire

CONSTANTS
    Scenarios,     \* a call, and the table it finds
    Schemas,       \* column lists another connection may give the table
    NameBytes,     \* column to the bytes of its name, whatever they are
    MaxWire,       \* k_query_result_wire_max_bytes
    StaleChanges   \* what sqlite3_changes64 has from an earlier statement

ASSUME LimitAssumption == {MaxWire, StaleChanges} \subseteq Nat

\* Columns and rows come in order; the rows have all columns there may be,
\* and each column has a name ("?" is that of SELECT ?).
ASSUME ScenarioAssumption ==
    /\ Schemas \subseteq Seq(STRING)
    /\ "?" \in DOMAIN NameBytes
    /\ \A columns \in Schemas \cup {s.schema : s \in Scenarios} :
          {columns[j] : j \in DOMAIN columns} \subseteq DOMAIN NameBytes
    /\ \A s \in Scenarios :
          /\ s.call.max_rows \in Nat
          /\ s.call.params \in Seq([type: STRING, v: Seq(Int)])
          /\ s.schema \in Seq(STRING)
          /\ s.rows \in Seq({s.rows[i] : i \in DOMAIN s.rows})
          /\ \A i \in DOMAIN s.rows, columns \in Schemas \cup {s.schema} :
                {columns[j] : j \in DOMAIN columns} \subseteq DOMAIN s.rows[i]

VARIABLES
    call,      \* the script's arguments: sql, params, max_rows
    schema,    \* the table's columns, in order
    rows,      \* the table's rows: column to SQLite value
    pc,
    values,    \* the parameters as esdb_values
    bound,     \* the parameters as SQLite has them
    names,     \* columns of QueryWireContext::names, and column_count with it
    count,     \* column_count of esdb_query
    output,    \* rows SQLite has yet to produce
    context,   \* the rest of QueryWireContext, and the loop's variables;
               \* `size` is that of the names and the rows
    result,    \* what the script gets
    produced,  \* history: columns and rows the statement produced
    applied,   \* history: is the statement's change in the database?
    altered    \* history: have the columns changed during the call?

vars == <<call, schema, rows, pc, values, bound, names, count, output, context,
          result, produced, applied, altered>>

Nothing == [status |-> "none", names |-> <<>>, rows |-> <<>>, total |-> 0,
            changes |-> 0, truncated |-> FALSE]

NoContext == [rows |-> <<>>, size |-> 0, total |-> 0, deliver |-> TRUE,
              truncated |-> FALSE, failed |-> FALSE]

Init ==
    \E s \in Scenarios :
        /\ call = s.call
        /\ schema = s.schema
        /\ rows = s.rows
        /\ pc = "call"
        /\ values = <<>> /\ bound = <<>>
        /\ names = <<>> /\ count = 0
        /\ output = <<>>
        /\ context = NoContext
        /\ result = Nothing
        /\ produced = [columns |-> <<>>, rows |-> <<>>]
        /\ applied = FALSE /\ altered = FALSE

---------------------------------------------------------------------------
(* Statements.  "two" is a text of two statements, "broken" not SQL.       *)

Placeholders(sql) == IF sql \in {"echo", "insert"} THEN 1 ELSE 0
Readonly(sql) == sql \in {"select", "echo"}

\* Statements that stop at the row that fails and keep those before it: FAIL
\* as their conflict resolution, or as that of a constraint or a trigger.
KeepsRows(sql) == sql = "update or fail"

\* The columns of the result: SELECT * and UPDATE ... RETURNING * have the
\* table's, SELECT ? has one, the others have none.
Columns(sql, columns) ==
    CASE sql \in {"select", "returning", "two"} -> columns
      [] sql = "echo" -> <<"?">>
      [] OTHER -> <<>>

\* Rows the statement produces, and rows it changes.
Produces(sql, columns) ==
    CASE sql \in {"select", "returning"} ->
            [i \in DOMAIN rows |-> [j \in DOMAIN columns |-> rows[i][columns[j]]]]
      [] sql = "echo" -> <<bound>>
      [] OTHER -> <<>>

Changes(sql) ==
    CASE sql \in {"returning", "update or fail"} -> Len(rows)
      [] sql = "insert" -> 1
      [] OTHER -> 0

\* Another connection commits other columns.
Alter ==
    /\ pc \in {"metadata", "prepare", "step"} /\ ~altered
    /\ schema' \in Schemas \ {schema}
    /\ altered' = TRUE
    /\ UNCHANGED <<call, rows, pc, values, bound, names, count, output, context,
                   result, produced, applied>>

---------------------------------------------------------------------------
Returns(answer) == pc' = "done" /\ result' = answer

Refuse(status) ==
    /\ Returns([Nothing EXCEPT !.status = status])
    /\ UNCHANGED <<call, schema, rows, values, bound, names, count, output,
                   context, produced, applied, altered>>

\* The script's expression for a parameter: ESDB.int64 and ESDB.bytes may throw.
Given(p) ==
    CASE p.type = "int64 of" -> Int64Value(p.v)
      [] p.type = "bytes of" -> BytesValue(p.v)
      [] OTHER -> p

Encoded(p) == IF Given(p) = Fail THEN Fail ELSE encodeQueryParameter(Given(p))
Parsed(wire) == IF wire = Fail THEN Fail ELSE parse_query_value_wire(wire)

\* Database.query, queryParameterPacket, and querySql up to the lock: what is
\* wrong with the arguments throws in the script or is refused natively.
QuerySql ==
    /\ pc = "call"
    /\ LET parsed == [i \in DOMAIN call.params |-> Parsed(Encoded(call.params[i]))]
       IN  IF \E i \in DOMAIN parsed : parsed[i] = Fail
           THEN Refuse("thrown")
           ELSE /\ values' = parsed
                /\ pc' = "metadata"
                /\ UNCHANGED <<call, schema, rows, bound, names, count, output,
                               context, result, produced, applied, altered>>

\* The names line of a reply, and whether it leaves the rest below the limit.
NamesSize(columns) ==
    SumFunction([i \in DOMAIN columns |-> Len(hex_encode(NameBytes[columns[i]]))])

NamesFit(columns) == NamesSize(columns) <= MaxWire

\* The metadata statement and prime_query_column_names.  A text that cannot be
\* prepared leaves the names to the callback, which will not be called.  Names
\* that are too long make the reply an error, but esdb_query runs all the same.
Metadata ==
    /\ pc = "metadata"
    /\ LET columns == Columns(call.sql, schema)
       IN  \/ /\ NamesFit(columns)
              /\ names' = columns
              /\ context' = [context EXCEPT !.size = NamesSize(columns)]
           \/ /\ ~NamesFit(columns)
              /\ names' = <<>>
              /\ context' = [context EXCEPT !.failed = TRUE]
    /\ pc' = "prepare"
    /\ UNCHANGED <<call, schema, rows, values, bound, count, output, result,
                   produced, applied, altered>>

\* esdb_query up to its loop: one statement, as many parameters as it has
\* placeholders, each bound.
Prepare ==
    /\ pc = "prepare"
    /\ LET binds == [i \in DOMAIN values |-> esdb_query_bind_value(values[i])]
       IN  IF \/ call.sql \in {"broken", "two"}
              \/ Len(values) # Placeholders(call.sql)
              \/ \E i \in DOMAIN binds : binds[i] = Fail
           THEN Refuse("error")
           ELSE /\ bound' = binds
                /\ count' = Len(Columns(call.sql, schema))
                /\ pc' = "step"
                /\ UNCHANGED <<call, schema, rows, values, names, output, context,
                               result, produced, applied, altered>>

\* The first sqlite3_step prepares the statement again if the columns have
\* changed, and runs it: the rows of a RETURNING come after all the changes.
FirstStep ==
    /\ pc = "step"
    /\ output' = Produces(call.sql, schema)
    /\ produced' = [columns |-> Columns(call.sql, schema), rows |-> output']
    /\ applied' = ~Readonly(call.sql)
    /\ pc' = "rows"
    /\ UNCHANGED <<call, schema, rows, values, bound, names, count, context,
                   result, altered>>

\* A step fails, the first or a later one: SQLite rolls the statement back,
\* or keeps the rows before the one that failed.
StepFails ==
    /\ pc \in {"step", "rows"}
    /\ Returns([Nothing EXCEPT !.status = "error"])
    /\ applied' \in {FALSE, KeepsRows(call.sql)}
    /\ UNCHANGED <<call, schema, rows, values, bound, names, count, output,
                   context, produced, altered>>

---------------------------------------------------------------------------
(* The rows.                                                               *)

\* Column i of a row, by the count esdb_query has; past the statement's own
\* columns SQLite answers NULL.
Column(row, i) == IF i \in DOMAIN row THEN row[i] ELSE Value("null", <<>>)

Decoded(row) == [i \in 1 .. count |-> esdb_query_column_value(Column(row, i))]

RowSize(wires) == FoldLeft(LAMBDA n, w : n + Len(w.v), 1, wires)

\* Mutant of Appended: one row too many.
AppendedOneMore(wires) ==
    IF context.failed \/ Len(names) # count
    THEN [context EXCEPT !.failed = TRUE, !.deliver = FALSE]
    ELSE IF \/ Len(context.rows) > call.max_rows
            \/ context.size + RowSize(wires) > MaxWire
         THEN [context EXCEPT !.truncated = TRUE, !.deliver = FALSE]
         ELSE [context EXCEPT !.rows = Append(@, wires), !.size = @ + RowSize(wires)]

\* Mutant of Appended: a full page is an encoding failure.
AppendedOrFailed(wires) ==
    IF \/ context.failed \/ Len(names) # count
       \/ Len(context.rows) >= call.max_rows
       \/ context.size + RowSize(wires) > MaxWire
    THEN [context EXCEPT !.failed = TRUE, !.deliver = FALSE]
    ELSE [context EXCEPT !.rows = Append(@, wires), !.size = @ + RowSize(wires)]

\* append_query_row_wire: a non-zero return ends the delivery.  Where the
\* names could not be primed it tries those it is given, and fails again (or,
\* if the columns have changed, may go on: the reply is an error either way).
Appended(wires) ==
    IF context.failed \/ Len(names) # count
    THEN [context EXCEPT !.failed = TRUE, !.deliver = FALSE]
    ELSE IF /\ Len(context.rows) < call.max_rows
            /\ context.size + RowSize(wires) <= MaxWire
         THEN [context EXCEPT !.rows = Append(@, wires), !.size = @ + RowSize(wires)]
         ELSE [context EXCEPT !.truncated = TRUE, !.deliver = FALSE]

\* ++rows.
Counted(c) == [c EXCEPT !.total = @ + 1]

\* A row is counted, and delivered if it is wanted and can be decoded.  One
\* that cannot ends the call with an error; finalizing the statement then
\* commits what it did.
Row ==
    /\ pc = "rows" /\ output # <<>>
    /\ LET decoded == Decoded(Head(output))
       IN  IF context.deliver /\ \E i \in DOMAIN decoded : decoded[i] = Fail
           THEN Refuse("error")
           ELSE /\ output' = Tail(output)
                /\ context' =
                     Counted(IF context.deliver
                             THEN Appended([i \in DOMAIN decoded |-> value_wire(decoded[i])])
                             ELSE context)
                /\ UNCHANGED <<call, schema, rows, pc, values, bound, names, count,
                               result, produced, applied, altered>>

\* out_change_count: sqlite3_changes64 of a statement that is not read-only;
\* CREATE TABLE does not set it.
ChangeCount ==
    IF Readonly(call.sql) THEN 0
    ELSE IF call.sql = "ddl" THEN StaleChanges ELSE Changes(call.sql)

\* The reply of querySql.
Reply ==
    [status |-> "ok", names |-> names, rows |-> context.rows,
     total |-> context.total, changes |-> ChangeCount,
     truncated |-> context.truncated \/ context.total > Len(context.rows)]

\* What the script reads of a column's name.
ColumnName(column) == utf8FromHex(hex_encode(NameBytes[column]))

\* parseQueryResultWire: the shape of the reply is checked, and every name and
\* every field is decoded.
parseQueryResultWire(reply) ==
    LET named == [i \in DOMAIN reply.names |-> ColumnName(reply.names[i])]
        decoded == [i \in DOMAIN reply.rows |->
                        [j \in DOMAIN reply.rows[i] |-> decodeStoreValue(reply.rows[i][j])]]
    IN  IF \/ \E i \in DOMAIN named : named[i] = Fail
           \/ \E i \in DOMAIN decoded :
                 \/ Len(decoded[i]) # Len(reply.names)
                 \/ \E j \in DOMAIN decoded[i] : decoded[i][j] = Fail
        THEN [Nothing EXCEPT !.status = "thrown"]
        ELSE [reply EXCEPT !.names = named, !.rows = decoded]

\* SQLITE_DONE, the rest of esdb_query and querySql, and the script's parse.
Done ==
    /\ pc = "rows" /\ output = <<>>
    /\ Returns(IF context.failed THEN [Nothing EXCEPT !.status = "error"]
               ELSE parseQueryResultWire(Reply))
    /\ UNCHANGED <<call, schema, rows, values, bound, names, count, output,
                   context, produced, applied, altered>>

Next ==
    \/ QuerySql \/ Metadata \/ Prepare \/ FirstStep \/ StepFails \/ Row \/ Done
    \/ Alter

Spec == Init /\ [][Next]_vars

---------------------------------------------------------------------------
(* What the conversions are for, stated without them.                      *)

Tail8 == 128 .. 191

\* Table 3-7 of the Unicode Standard: the well-formed byte sequences.
Table37 == {
    <<0 .. 127>>, <<194 .. 223, Tail8>>,
    <<{224}, 160 .. 191, Tail8>>, <<225 .. 236, Tail8, Tail8>>,
    <<{237}, 128 .. 159, Tail8>>, <<238 .. 239, Tail8, Tail8>>,
    <<{240}, 144 .. 191, Tail8, Tail8>>, <<241 .. 243, Tail8, Tail8, Tail8>>,
    <<{244}, 128 .. 143, Tail8, Tail8>>}

WellFormed(bytes) ==
    LET from[i \in 1 .. Len(bytes) + 1] ==
            \/ i > Len(bytes)
            \/ \E line \in Table37 :
                  /\ i + Len(line) <= Len(bytes) + 1
                  /\ \A j \in DOMAIN line : bytes[i + j - 1] \in line[j]
                  /\ from[i + Len(line)]
    IN  from[1]

\* The SQLite value a script value stands for.
Meaning(p) ==
    CASE p.type = "null" -> p
      [] p.type = "boolean" -> Value("integer", p.v)
      [] p.type = "int64" -> Value("integer", <<Number(p.v)>>)
      [] p.type = "number" ->
            IF p.v[1] \in -MAX_SAFE_INTEGER .. MAX_SAFE_INTEGER
            THEN Value("integer", p.v) ELSE Value("real", p.v)
      [] p.type = "string" -> Value("text", utf8Bytes(p.v).v)
      [] p.type = "bytes" -> Value("blob", HexBytes(p.v))

\* The SQLite value a script value was read from: only Int64 is an integer.
Source(v) == IF v.type = "number" THEN Value("real", v.v) ELSE Meaning(v)

IllFormed(row) == \E i \in DOMAIN row : row[i].type = "text" /\ ~WellFormed(row[i].v)

Texts == UNION {{rows[i][c].v : c \in {d \in DOMAIN rows[i] : rows[i][d].type = "text"}} :
                i \in DOMAIN rows}

---------------------------------------------------------------------------
(* Properties.                                                             *)

\* Type invariant.
TypeOK ==
    /\ pc \in {"call", "metadata", "prepare", "step", "rows", "done"}
    /\ result.status \in {"none", "ok", "error", "thrown"}
    /\ (result.status = "none") = (pc # "done")
    /\ count \in Nat /\ context.total \in Nat
    /\ Len(context.rows) <= call.max_rows /\ context.size <= MaxWire
    /\ applied \in BOOLEAN /\ altered \in BOOLEAN

\* A row value that reaches the script is the value of that row and column,
\* through five conversions: rows come in order and none is left out between
\* two that are delivered, also past the row and the byte limit.
RowsExact ==
    result.status = "ok" =>
        \A i \in DOMAIN result.rows : \A j \in DOMAIN result.rows[i] :
            Source(result.rows[i][j]) = Column(produced.rows[i], j)

\* The reply says of itself whether rows are missing, and how many rows there
\* were, whichever limit ended the delivery.
TruncationReported ==
    result.status = "ok" =>
        /\ result.total = Len(produced.rows)
        /\ result.truncated <=> Len(result.rows) < Len(produced.rows)

\* What is bound is what the script gave: through the wire no parameter is
\* rounded, wrapped, or turned into NULL.
ParametersExact ==
    \A i \in DOMAIN bound : bound[i] = Meaning(Given(call.params[i]))

\* Values are exact in both directions.
ValuesExact == ParametersExact /\ RowsExact

\* The names are, byte by byte, those of the rows, and are there when no row
\* is, unless the columns changed during the call (the names are read by a
\* statement of their own).
NamesOfTheRows ==
    result.status = "ok" /\ ~altered =>
        /\ DOMAIN result.names = DOMAIN produced.columns
        /\ \A i \in DOMAIN result.names :
              utf8Bytes(result.names[i].v) = Value("bytes", NameBytes[produced.columns[i]])

\* A call that fails has changed nothing, but for five that look refused and
\* are not: the columns changed meanwhile, their names are longer than a reply
\* or not UTF-8, a returned text is not UTF-8, or the statement itself keeps
\* what it did before it failed.  No number and no size of the rows does that.
FailureChangesNothing ==
    result.status \in {"error", "thrown"} /\ applied =>
        \/ altered
        \/ ~NamesFit(produced.columns)
        \/ \E i \in DOMAIN produced.columns : ~WellFormed(NameBytes[produced.columns[i]])
        \/ \E i \in DOMAIN produced.rows : IllFormed(produced.rows[i])
        \/ KeepsRows(call.sql)

\* The change count is that of this statement (of CREATE TABLE and the like it
\* is that of an earlier one, as esdb.h says: "sqlite3_changes64() for mutating
\* statements").
ChangesAreOwn ==
    result.status = "ok" => call.sql = "ddl" \/ result.changes = Changes(call.sql)

\* What a call says of itself is true: the names and the number of its rows,
\* whether some are missing, how much it changed, and, if it failed, that it
\* changed nothing, with the exceptions named above.
OutcomeTruthful ==
    TruncationReported /\ NamesOfTheRows /\ ChangesAreOwn /\ FailureChangesNothing

\* valid_utf8, the ORM example's utf8_valid and utf8FromHex accept exactly the
\* well-formed sequences, and the script's text encodes to the same bytes.
Utf8Agreed ==
    pc = "call" => \A bytes \in Texts :
        LET text == utf8FromHex(hex_encode(bytes)) IN
        /\ valid_utf8(bytes) = WellFormed(bytes)
        /\ orm_utf8_valid(bytes) = WellFormed(bytes)
        /\ (text # Fail) = WellFormed(bytes)
        /\ text # Fail => utf8Bytes(text.v) = Value("bytes", bytes)

\* ESDB.int64, parse_i64_decimal and the ORM example's canonical_int64 accept
\* exactly what is printed for an integer in range; ESDB.int64 reads -0 as 0.
DecimalsAgreed ==
    pc = "call" => \A i \in {k \in DOMAIN call.params : call.params[k].type = "int64 of"} :
        LET text == call.params[i].v
            printed == \E n \in Int64Min .. Int64Max : Decimal(n) = text
        IN  /\ parse_i64_decimal(text) = printed
            /\ orm_canonical_int64(text) = printed
            /\ Int64Value(text) =
                   IF printed THEN Value("int64", text)
                   ELSE IF text = <<Minus, Zero>> THEN Value("int64", <<Zero>>) ELSE Fail

\* What comes back of a value that is stored by set or in a patch.
Stored(p) ==
    LET e == encodeStoreValue(p)
        v == IF e.wire = Fail THEN Fail
             ELSE IF e.lane = "text" THEN make_text_value(e.wire.type, e.wire.v)
             ELSE make_number_value(e.wire.type, e.wire.v[1])
    IN  IF v = Fail THEN Fail ELSE decodeStoreValue(value_wire(v))

Patched(p) ==
    LET e == encodeStoreValue(p)
        v == IF e.wire = Fail THEN Fail
             ELSE IF e.lane = "text" THEN patch_value("text", e.wire)
             ELSE patch_value("number", Value(e.wire.type, patchNumberPayload(e.wire.v[1])))
    IN  IF v = Fail THEN Fail ELSE decodeStoreValue(value_wire(v))

\* A value of a Store comes back as itself, with its type: NaN, the infinities,
\* -0, the ends of the integer types, empty text and bytes.  A patch stores
\* the same as set, but refuses a subnormal number.
StoreRoundTrip ==
    pc = "call" => \A i \in DOMAIN call.params :
        LET p == Given(call.params[i])
            storable == /\ p.type \notin {"fail", "undefined"}
                        /\ p.type \in {"string", "array", "object"} => utf8Bytes(p.v) # Fail
        IN  /\ Stored(p) = IF storable THEN p ELSE Fail
            /\ Patched(p) = IF storable /\ p # Value("number", <<Tiny>>) THEN p ELSE Fail

\* A column that is read reaches the script as its value, or is text that is
\* not UTF-8.
ReadExactly(x) ==
    LET v == esdb_query_column_value(x)
        s == decodeStoreValue(value_wire(v))
    IN  IF v = Fail THEN x.type = "text" /\ ~WellFormed(x.v)
        ELSE s # Fail /\ Source(s) = x

\* A parameter is refused, or bound as its value and readable.
BoundExactly(p) ==
    LET v == Parsed(Encoded(p))
        b == esdb_query_bind_value(v)
    IN  v = Fail \/ b = Fail \/ (b = Meaning(Given(p)) /\ ReadExactly(b))

\* A column's name reaches the script as it is, or is not UTF-8.
NamedExactly(column) ==
    LET text == ColumnName(column)
    IN  IF text = Fail THEN ~WellFormed(NameBytes[column])
        ELSE utf8Bytes(text.v) = Value("bytes", NameBytes[column])

\* One value at a time, a query gives and takes values and names as they are.
QueryRoundTrip ==
    pc = "call" =>
        /\ \A column \in DOMAIN NameBytes : NamedExactly(column)
        /\ \A i \in DOMAIN call.params : BoundExactly(call.params[i])
        /\ \A i \in DOMAIN rows : \A c \in DOMAIN rows[i] : ReadExactly(rows[i][c])

\* The parsers and printers of the layers, written by hand in two languages,
\* agree on every text and number.
CodecsAgree == Utf8Agreed /\ DecimalsAgreed /\ StoreRoundTrip /\ QueryRoundTrip
=============================================================================
