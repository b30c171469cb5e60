----------------------------- MODULE TextFormats -----------------------------
(* The text formats of the batch interface: the writers of src/src/batch/format.rs
   and the readers of csv.rs, tsv.rs and json_compact_each_row.rs.

   A text is a sequence of characters.  Numbers are written in base two, so
   that a few digits reach both ends of the Int64 range; a Float64 is a whole
   number of halves, and one beyond F64Max is infinite.  "nul" and "bs" stand
   for two control characters, "wide" for a character of two UTF-8 bytes. *)
EXTENDS Integers, Sequences, SequencesExt

CONSTANTS
    I64Min, I64Max,   \* the range of Int64
    F64Max,           \* the largest finite Float64, in halves
    SqlNull           \* Value::Null

LF == "\n"
CR == "\r"
Tab == "\t"
Quote == "\""
Backslash == "\\"
Control == {"nul", "bs", LF, CR, Tab}
Utf8Len(text) == FoldLeft(LAMBDA n, c : n + (IF c = "wide" THEN 2 ELSE 1), 0, text)

At(text, k) == IF k \in DOMAIN text THEN text[k] ELSE "end"
First(text, S) == SelectInSeq(text, LAMBDA c : c \in S)     \* 0 if there is none
Has(text, S) == First(text, S) # 0

(* The pieces between the separators: always at least one. *)
Split(text, separator) ==
    LET cuts == SetToSortSeq({0, Len(text) + 1} \cup {k \in DOMAIN text : text[k] = separator}, <)
    IN  [k \in 1 .. Len(cuts) - 1 |-> SubSeq(text, cuts[k] + 1, cuts[k + 1] - 1)]

(* str::split_inclusive: every piece keeps its separator, and there is no
   empty piece at the end. *)
SplitInclusive(text, separator) ==
    LET pieces == Split(text, separator)
        ended == [k \in 1 .. Len(pieces) - 1 |-> Append(pieces[k], separator)]
    IN  IF Last(pieces) = <<>> THEN ended ELSE Append(ended, Last(pieces))

Separated(separator, pieces) ==
    FlattenSeq([k \in DOMAIN pieces |->
        IF k = 1 THEN pieces[k] ELSE <<separator>> \o pieces[k]])
Lines(pieces) == FlattenSeq([k \in DOMAIN pieces |-> Append(pieces[k], LF)])

Ok(v) == [status |-> "ok", value |-> v]
Err(kind) == [status |-> kind, value |-> <<>>]
IsOk(r) == r.status = "ok"
(* All the values, or the first error: collect of an iterator of Results. *)
Collect(results) ==
    LET bad == SelectInSeq(results, LAMBDA r : ~IsOk(r))
    IN  IF bad # 0 THEN results[bad] ELSE Ok([k \in DOMAIN results |-> results[k].value])

-----------------------------------------------------------------------------
(* Scalars and their text. *)
Digits == {"0", "1"}
AllDigits(text) == \A k \in DOMAIN text : text[k] \in Digits
DigitsValue(text) == FoldLeft(LAMBDA n, d : 2 * n + (IF d = "1" THEN 1 ELSE 0), 0, text)
Binary[n \in Nat] ==
    LET digit == <<IF n % 2 = 1 THEN "1" ELSE "0">>
    IN  IF n < 2 THEN digit ELSE Binary[n \div 2] \o digit
Signed(n, text) == IF n < 0 THEN <<"-">> \o text ELSE text
Magnitude(n) == IF n < 0 THEN -n ELSE n

KwNULL == <<"N", "U", "L", "L">>
KwNull == <<"n", "u", "l", "l">>
KwTrue == <<"t", "r", "u", "e">>
KwFalse == <<"f", "a", "l", "s", "e">>

(* Value::as_display_string; format_float adds ".0" to a whole number. *)
DisplayString(type, v) ==
    CASE v = SqlNull -> KwNULL
      [] type = "Int64" -> Signed(v, Binary[Magnitude(v)])
      [] type = "Float64" -> Signed(v, Binary[Magnitude(v) \div 2] \o <<".">> \o Binary[Magnitude(v) % 2])
      [] type = "Bool" -> (IF v THEN KwTrue ELSE KwFalse)
      [] type = "String" -> v

Unsigned(text, signs) == IF At(text, 1) \in signs THEN Tail(text) ELSE text
Sign(text) == IF At(text, 1) = "-" THEN -1 ELSE 1

(* str::parse::<i64> *)
ParseInt64(text) ==
    LET body == Unsigned(text, {"+", "-"})
        n == Sign(text) * DigitsValue(body)
    IN  IF body = <<>> \/ ~AllDigits(body) \/ n \notin I64Min .. I64Max
        THEN Err("value") ELSE Ok(n)

(* str::parse::<f64>, and is_finite: an infinity, spelled or reached by the
   exponent, is an error like any other text. *)
Until(text, S) == IF Has(text, S) THEN SubSeq(text, 1, First(text, S) - 1) ELSE text
After(text, S) == IF Has(text, S) THEN SubSeq(text, First(text, S) + 1, Len(text)) ELSE <<>>
FloatOf(sign, int, frac, exponent) ==
    LET power == Unsigned(exponent, {"+", "-"})
        shift == 1 + Sign(exponent) * DigitsValue(power) - Len(frac)
        number == DigitsValue(int \o frac)
        halves == IF shift >= 0 THEN number * 2 ^ shift ELSE number \div 2 ^ (-shift)
    IN  IF \/ int \o frac = <<>> \/ ~AllDigits(int \o frac)
           \/ power = <<>> \/ ~AllDigits(power)
           \/ halves > F64Max
        THEN Err("value") ELSE Ok(sign * halves)
ParseFloat64(text) ==
    LET body == Unsigned(text, {"+", "-"})
        mantissa == Until(body, {"e", "E"})
    IN  FloatOf(Sign(text), Until(mantissa, {"."}), After(mantissa, {"."}),
                IF Has(body, {"e", "E"}) THEN After(body, {"e", "E"}) ELSE <<"0">>)

ParseValue(type, text) ==
    CASE type = "Int64" -> ParseInt64(text)
      [] type = "Float64" -> ParseFloat64(text)
      [] type = "Bool" -> (IF text = KwTrue THEN Ok(TRUE)
                           ELSE IF text = KwFalse THEN Ok(FALSE) ELSE Err("value"))
      [] type = "String" -> Ok(text)

-----------------------------------------------------------------------------
(* Writers.  A result has columns, of a name and a type, and rows. *)
Cells(result, row, Field(_, _)) ==
    [k \in DOMAIN row |-> Field(result.columns[k].type, row[k])]
Names(result, Field(_)) == [k \in DOMAIN result.columns |-> Field(result.columns[k].name)]
Escaped(text, Escape(_)) == FlattenSeq([k \in DOMAIN text |-> Escape(text[k])])

CsvField(text) ==
    IF ~Has(text, {",", Quote, LF, CR}) THEN text
    ELSE <<Quote>> \o Escaped(text, LAMBDA c : IF c = Quote THEN <<c, c>> ELSE <<c>>) \o <<Quote>>
CsvValue(type, v) == IF v = SqlNull THEN KwNULL ELSE CsvField(DisplayString(type, v))
WriteCsvRows(result) ==
    Lines([r \in DOMAIN result.rows |-> Separated(",", Cells(result, result.rows[r], CsvValue))])
WriteCsv(result) == Lines(<<Separated(",", Names(result, CsvField))>>) \o WriteCsvRows(result)

TsvEscape(c) ==
    CASE c = Backslash -> <<Backslash, Backslash>>
      [] c = Tab -> <<Backslash, "t">>
      [] c = CR -> <<Backslash, "r">>
      [] c = LF -> <<Backslash, "n">>
      [] c = "nul" -> <<Backslash, "0">>
      [] c = "bs" -> <<Backslash, "b">>
      [] OTHER -> <<c>>
TsvValue(type, v) ==
    CASE v = SqlNull -> <<Backslash, "N">>
      [] type = "String" -> Escaped(v, TsvEscape)
      [] OTHER -> DisplayString(type, v)
WriteTsvRows(result) ==
    Lines([r \in DOMAIN result.rows |-> Separated(Tab, Cells(result, result.rows[r], TsvValue))])
WriteTsv(result) ==
    Lines(<<Separated(Tab, Names(result, LAMBDA n : Escaped(n, TsvEscape)))>>) \o WriteTsvRows(result)

HexCode(c) == IF c = "nul" THEN <<"0", "0", "0", "0">> ELSE <<"0", "0", "0", "8">>
JsonEscape(c) ==
    CASE c \in {Quote, Backslash} -> <<Backslash, c>>
      [] c = "bs" -> <<Backslash, "b">>
      [] c = LF -> <<Backslash, "n">>
      [] c = CR -> <<Backslash, "r">>
      [] c = Tab -> <<Backslash, "t">>
      [] c = "nul" -> <<Backslash, "u">> \o HexCode(c)
      [] OTHER -> <<c>>
JsonString(text) == <<Quote>> \o Escaped(text, JsonEscape) \o <<Quote>>
JsonValue(type, v) ==
    CASE v = SqlNull -> KwNull
      [] type = "String" -> JsonString(v)
      [] OTHER -> DisplayString(type, v)
JsonArray(result, row) == <<"[">> \o Separated(",", Cells(result, row, JsonValue)) \o <<"]">>
WriteJsonCompactEachRow(result) ==
    Lines([r \in DOMAIN result.rows |-> JsonArray(result, result.rows[r])])
(* The object keys and brackets of write_json are one character each here;
   they carry no value. *)
WriteJson(result) ==
    <<"{">> \o Separated(",", [k \in DOMAIN result.columns |->
                 JsonString(result.columns[k].name) \o <<":">> \o JsonString(<<result.columns[k].type>>)])
            \o <<"[">> \o Separated(",", [r \in DOMAIN result.rows |-> JsonArray(result, result.rows[r])])
            \o <<"]", "}">>

(* JSONEachRow and the padded table compute their size before they write the
   first byte; see RenderedBytes below. *)
JsonObject(result, row) ==
    <<"{">> \o Separated(",", [k \in DOMAIN row |->
                 JsonString(result.columns[k].name) \o <<":">> \o JsonValue(result.columns[k].type, row[k])])
            \o <<"}">>
JsonEachRowText(result) == Lines([r \in DOMAIN result.rows |-> JsonObject(result, result.rows[r])])

TableEscape(c) ==
    CASE c = Backslash -> <<c, c>>
      [] c = LF -> <<Backslash, "n">>
      [] c = CR -> <<Backslash, "r">>
      [] c = Tab -> <<Backslash, "t">>
      [] c \in {"nul", "bs"} -> <<Backslash, "u", "{">> \o HexCode(c) \o <<"}">>
      [] OTHER -> <<c>>
Repeated(c, n) == [k \in 1 .. n |-> c]
TableCell(text, width) ==
    LET escaped == Escaped(text, TableEscape)
    IN  <<" ">> \o escaped \o Repeated(" ", width - Len(escaped) + 1) \o <<"|">>
TableLine(texts, widths) ==
    <<"|">> \o FlattenSeq([k \in DOMAIN texts |-> TableCell(texts[k], widths[k])])
TableBorder(widths) ==
    <<"+">> \o FlattenSeq([k \in DOMAIN widths |-> Repeated("-", widths[k] + 2) \o <<"+">>])
TableRow(result, row) == Cells(result, row, DisplayString)

(* table_text_metrics: the characters and bytes of a text once escaped. *)
TextMetrics(text) ==
    FoldLeft(LAMBDA m, c :
                 CASE c \in {Backslash, LF, CR, Tab} -> [characters |-> m.characters + 2, bytes |-> m.bytes + 2]
                   [] c \in {"nul", "bs"} -> [characters |-> m.characters + 8, bytes |-> m.bytes + 8]
                   [] OTHER -> [characters |-> m.characters + 1, bytes |-> m.bytes + Utf8Len(<<c>>)],
             [characters |-> 0, bytes |-> 0], text)
TableWidths(result) ==
    [k \in DOMAIN result.columns |->
        Max({TextMetrics(result.columns[k].name).characters}
            \cup {TextMetrics(TableRow(result, result.rows[r])[k]).characters : r \in DOMAIN result.rows})]
TableText(result) ==
    LET widths == TableWidths(result)
    IN  Lines(<<TableBorder(widths), TableLine(Names(result, LAMBDA n : n), widths), TableBorder(widths)>>
              \o [r \in DOMAIN result.rows |-> TableLine(TableRow(result, result.rows[r]), widths)])
        \o TableBorder(widths)

Total(numbers) == FoldLeft(LAMBDA a, b : a + b, 0, numbers)
TableRowBytes(texts, widths) ==
    2 + Total([k \in DOMAIN texts |->
            LET m == TextMetrics(texts[k])
            IN  1 + m.bytes + (widths[k] - m.characters + 1) + 1])
TableBytes(result) ==
    LET widths == TableWidths(result)
        border == 1 + Total([k \in DOMAIN widths |-> widths[k] + 3])
    IN  3 * border + 2 + TableRowBytes(Names(result, LAMBDA n : n), widths)
        + Total([r \in DOMAIN result.rows |-> TableRowBytes(TableRow(result, result.rows[r]), widths)])

(* Fault: a control character is counted as one byte. *)
JsonStringBytes_Control(text) ==
    2 + Total([k \in DOMAIN text |-> IF text[k] \in {Quote, Backslash, LF, CR, Tab} THEN 2 ELSE Utf8Len(<<text[k]>>)])
JsonStringBytes(text) ==
    2 + Total([k \in DOMAIN text |->
            CASE text[k] \in {Quote, Backslash, "bs", LF, CR, Tab} -> 2
              [] text[k] = "nul" -> 6
              [] OTHER -> Utf8Len(<<text[k]>>)])
JsonValueBytes(type, v) ==
    CASE v = SqlNull -> 4
      [] type = "String" -> JsonStringBytes(v)
      [] OTHER -> Len(DisplayString(type, v))
JsonEachRowBytes(result) ==
    LET prefix == Total([k \in DOMAIN result.columns |->
                      (IF k > 1 THEN 1 ELSE 0) + JsonStringBytes(result.columns[k].name) + 1])
    IN  Total([r \in DOMAIN result.rows |->
                  3 + prefix + Total(Cells(result, result.rows[r], JsonValueBytes))])

-----------------------------------------------------------------------------
(* Readers.  A table has a schema, of names, types and nullability, its rows
   and a cap on them. *)
AcceptsNull(column) == column.type = "Int64" /\ column.nullable
Default(column) ==
    CASE AcceptsNull(column) -> SqlNull
      [] column.type \in {"Int64", "Float64"} -> 0
      [] column.type = "Bool" -> FALSE
      [] column.type = "String" -> <<>>

(* Table::prepare_projected_rows: each value at its column's place, the typed
   default in the others. *)
Project(table, indexes, rows) ==
    IF Len(table.rows) + Len(rows) > table.max_rows THEN Err("capacity")
    ELSE Ok([r \in DOMAIN rows |-> [c \in DOMAIN table.schema |->
              IF Contains(indexes, c)
              THEN rows[r][SelectInSeq(indexes, LAMBDA i : i = c)]
              ELSE Default(table.schema[c])]])

(* line_contents: LF or CRLF ends a line, a bare CR is refused. *)
LineContents(raw) ==
    LET noLf == IF raw # <<>> /\ Last(raw) = LF THEN Front(raw) ELSE raw
        contents == IF noLf # <<>> /\ Last(noLf) = CR THEN Front(noLf) ELSE noLf
    IN  IF Has(contents, {CR}) \/ (noLf = raw /\ contents # noLf)
        THEN Err("line_ending") ELSE Ok(contents)

(* Fault: the names are taken to be in schema order. *)
HeaderPlan_InOrder(table, fields) ==
    LET names == [c \in DOMAIN table.schema |-> table.schema[c].name]
    IN  IF fields = << <<>> >> \/ \E k \in DOMAIN fields : ~Contains(names, fields[k])
        THEN Err("header") ELSE Ok([k \in DOMAIN fields |-> k])

(* The columns a header selects: a nonempty subset of the schema's names, in
   any order, none twice. *)
HeaderPlan(table, fields) ==
    LET names == [c \in DOMAIN table.schema |-> table.schema[c].name]
    IN  IF \/ fields = << <<>> >> \/ Len(fields) > Len(names)
           \/ \E k \in DOMAIN fields : ~Contains(names, fields[k])
           \/ \E j, k \in DOMAIN fields : j # k /\ fields[j] = fields[k]
        THEN Err("header")
        ELSE Ok([k \in DOMAIN fields |-> SelectInSeq(names, LAMBDA n : n = fields[k])])

AllColumns(table) == [c \in DOMAIN table.schema |-> c]

(* The row and value limits, the arity of every record, and then the typed
   values: records is the sequence of the records' fields, or the error that
   cut it short.  Every record is held to the limits before a later one is
   looked at, but any error refuses the whole input, so that only whether
   there is one matters. *)
DataRows(table, indexes, records, limits, Field(_, _)) ==
    LET values == Total([r \in DOMAIN records.value |-> Len(records.value[r])])
        Checked(parsed) == IF IsOk(parsed) THEN Project(table, indexes, parsed.value) ELSE parsed
    IN  CASE ~IsOk(records) -> records
          [] Len(records.value) > limits.max_rows \/ values > limits.max_values -> Err("limit")
          [] \E r \in DOMAIN records.value : Len(records.value[r]) # Len(indexes) -> Err("arity")
          [] OTHER -> Checked(Collect([r \in DOMAIN records.value |->
                          Collect([k \in DOMAIN records.value[r] |->
                              Field(table.schema[indexes[k]], records.value[r][k])])]))

(* The header is the first physical line; Header decodes its fields. *)
WithNames(table, text, Header(_), Rows(_, _)) ==
    LET line == First(text, {LF})
        raw == IF line = 0 THEN text ELSE SubSeq(text, 1, line)
        contents == LineContents(raw)
        fields == Header(contents.value)
        plan == HeaderPlan(table, fields.value)
    IN  CASE text = <<>> -> Err("header")
          [] ~IsOk(contents) -> contents
          [] ~IsOk(fields) -> fields
          [] ~IsOk(plan) -> plan
          [] OTHER -> Rows(plan.value, SubSeq(text, Len(raw) + 1, Len(text)))

(* CSV.  DataRecords::next finds where the record that starts at start ends,
   [last, next]; a quote opens only at the beginning of a field.  next = 0 is
   a bare CR. *)
RECURSIVE RecordEnd(_, _, _, _)
RecordEnd(text, k, fieldStart, quoted) ==
    LET c == At(text, k)
        ends == IF c = CR THEN 2 ELSE 1
    IN  CASE c = "end" -> [last |-> k - 1, next |-> k]
          [] c = CR /\ At(text, k + 1) # LF -> [last |-> 0, next |-> 0]
          [] c \in {CR, LF} /\ quoted -> RecordEnd(text, k + ends, fieldStart, TRUE)
          [] c \in {CR, LF} /\ ~quoted -> [last |-> k - 1, next |-> k + ends]
          [] c = Quote /\ quoted /\ At(text, k + 1) = Quote -> RecordEnd(text, k + 2, fieldStart, TRUE)
          [] c = Quote /\ quoted /\ At(text, k + 1) # Quote -> RecordEnd(text, k + 1, fieldStart, FALSE)
          [] c = Quote /\ ~quoted /\ fieldStart -> RecordEnd(text, k + 1, FALSE, TRUE)
          [] c = "," /\ ~quoted -> RecordEnd(text, k + 1, TRUE, FALSE)
          [] OTHER -> RecordEnd(text, k + 1, quoted /\ fieldStart, quoted)

(* scan_record: the fields from start on, with the doubled quotes of a quoted
   field decoded. *)
RECURSIVE QuoteEnd(_, _)
QuoteEnd(record, k) ==      \* the closing quote from k on, 0 if there is none
    CASE At(record, k) = "end" -> 0
      [] At(record, k) = Quote /\ At(record, k + 1) = Quote -> QuoteEnd(record, k + 2)
      [] At(record, k) = Quote /\ At(record, k + 1) # Quote -> k
      [] OTHER -> QuoteEnd(record, k + 1)
RECURSIVE Undouble(_)
Undouble(text) ==           \* the quotes between the outer ones come in pairs
    IF text = <<>> THEN <<>>
    ELSE <<text[1]>> \o Undouble(SubSeq(text, IF text[1] = Quote THEN 3 ELSE 2, Len(text)))

RECURSIVE ScanRecord(_, _)
ScanRecord(record, start) ==
    LET quoted == At(record, start) = Quote
        close == QuoteEnd(record, start + 1)
        comma == SelectInSubSeq(record, start, Len(record), LAMBDA c : c = ",")
        after == IF quoted THEN close + 1 ELSE IF comma = 0 THEN Len(record) + 1 ELSE comma
        field == IF quoted THEN SubSeq(record, start + 1, close - 1)
                 ELSE SubSeq(record, start, after - 1)
        this == [text |-> IF quoted THEN Undouble(field) ELSE field, quoted |-> quoted]
        rest == ScanRecord(record, after + 1)
    IN  CASE quoted /\ (close = 0 \/ At(record, close + 1) \notin {",", "end"}) -> Err("quoting")
          [] ~quoted /\ Has(field, {Quote}) -> Err("quoting")
          [] after > Len(record) -> Ok(<<this>>)
          [] OTHER -> IF IsOk(rest) THEN Ok(<<this>> \o rest.value) ELSE rest

RECURSIVE CsvRecords(_)
CsvRecords(text) ==
    LET end == RecordEnd(text, 1, TRUE, FALSE)
        fields == ScanRecord(SubSeq(text, 1, end.last), 1)
        rest == CsvRecords(SubSeq(text, end.next, Len(text)))
    IN  CASE text = <<>> -> Ok(<<>>)
          [] end.next = 0 -> Err("line_ending")
          [] ~IsOk(fields) -> fields
          [] OTHER -> IF IsOk(rest) THEN Ok(<<fields.value>> \o rest.value) ELSE rest

CsvFieldValue(column, field) ==
    IF ~field.quoted /\ field.text = KwNULL /\ AcceptsNull(column) THEN Ok(SqlNull)
    ELSE ParseValue(column.type, field.text)

CsvRows(table, indexes, text, limits) ==
    DataRows(table, indexes, CsvRecords(text), limits, CsvFieldValue)
CsvHeader(line) == IF Has(line, {Quote}) THEN Err("quoting") ELSE Ok(Split(line, ","))

(* TabSeparated. *)
RECURSIVE TsvDecode(_)
TsvDecode(field) ==
    LET escape == At(field, 2)
        plain == [t |-> Tab, r |-> CR, n |-> LF, b |-> "bs"]
        c == CASE field[1] # Backslash -> field[1]
               [] escape = Backslash -> Backslash
               [] escape = "0" -> "nul"
               [] escape \in DOMAIN plain -> plain[escape]
               [] OTHER -> "bad"
        used == IF field[1] = Backslash THEN 2 ELSE 1
        rest == TsvDecode(SubSeq(field, used + 1, Len(field)))
    IN  CASE field = <<>> -> Ok(<<>>)
          [] c = "bad" -> Err("escape")
          [] OTHER -> IF IsOk(rest) THEN Ok(<<c>> \o rest.value) ELSE rest

TsvFieldValue(column, field) ==
    LET decoded == TsvDecode(field)
    IN  CASE field = <<Backslash, "N">> /\ AcceptsNull(column) -> Ok(SqlNull)
          [] IsOk(decoded) -> ParseValue(column.type, decoded.value)
          [] OTHER -> decoded

TsvRecords(text) ==
    LET lines == Collect([k \in DOMAIN SplitInclusive(text, LF) |->
                             LineContents(SplitInclusive(text, LF)[k])])
    IN  IF IsOk(lines) THEN Ok([k \in DOMAIN lines.value |-> Split(lines.value[k], Tab)]) ELSE lines
TsvRows(table, indexes, text, limits) ==
    DataRows(table, indexes, TsvRecords(text), limits, TsvFieldValue)
TsvHeader(line) == Collect([k \in DOMAIN Split(line, Tab) |-> TsvDecode(Split(line, Tab)[k])])

-----------------------------------------------------------------------------
(* JSONCompactEachRow: a lexer and a stack of frames, one line at a time. *)
Punctuation == {"[", "]", "{", "}", ":", ","}
Scalars == {"string", "int", "float", "true", "false", "null"}
HexDigits == Digits \cup {"8", "a", "e", "f"}

From(text, k, Test(_)) ==   \* the first position from k on that fails Test
    Min({j \in k .. Len(text) + 1 : j > Len(text) \/ ~Test(text[j])})

(* Where the parts of a number that starts at k end; 0 if one is malformed. *)
DigitsEnd(text, k) == IF At(text, k) \in Digits THEN From(text, k, LAMBDA c : c \in Digits) ELSE 0
IntEnd(text, k) == IF At(text, k) # "0" THEN DigitsEnd(text, k)
                   ELSE IF At(text, k + 1) \in Digits THEN 0 ELSE k + 1
FracEnd(text, k) == IF At(text, k) = "." THEN DigitsEnd(text, k + 1) ELSE k
ExpEnd(text, k) ==
    IF At(text, k) \notin {"e", "E"} THEN k
    ELSE DigitsEnd(text, IF At(text, k + 1) \in {"+", "-"} THEN k + 2 ELSE k + 1)
LexNumber(text, k) == ExpEnd(text, FracEnd(text, IntEnd(text, IF text[k] = "-" THEN k + 1 ELSE k)))

RECURSIVE StringEnd(_, _)
StringEnd(text, k) ==       \* past the closing quote, 0 if malformed
    LET escaped == At(text, k + 1)
        hex == SubSeq(text, k + 2, k + 5)
    IN  CASE At(text, k) \in Control \cup {"end"} -> 0
          [] At(text, k) = Quote -> k + 1
          [] At(text, k) # Backslash -> StringEnd(text, k + 1)
          [] escaped \in {Quote, Backslash, "/", "b", "f", "n", "r", "t"} -> StringEnd(text, k + 2)
          [] escaped = "u" /\ k + 5 <= Len(text) /\ \A j \in DOMAIN hex : hex[j] \in HexDigits ->
                 StringEnd(text, k + 6)
          [] OTHER -> 0

Keywords == [true |-> KwTrue, false |-> KwFalse, null |-> KwNull]

(* The token after the white space at k: its kind, its text and the next
   position. *)
Token(text, kind, start, next) ==
    IF next = 0 THEN [kind |-> "bad", text |-> <<>>, next |-> 0]
    ELSE [kind |-> kind, text |-> SubSeq(text, start, next - 1), next |-> next]
NumberToken(text, start, next) ==
    Token(text, IF Has(SubSeq(text, start, next - 1), {".", "e", "E"}) THEN "float" ELSE "int", start, next)
TokenAt(text, start) ==
    LET c == At(text, start)
        words == {w \in DOMAIN Keywords : IsPrefix(Keywords[w], SubSeq(text, start, Len(text)))}
    IN  CASE c = "end" -> Token(text, "end", start, start)
          [] c \in Punctuation -> Token(text, c, start, start + 1)
          [] c \in Digits \cup {"-"} -> NumberToken(text, start, LexNumber(text, start))
          [] c = Quote -> Token(text, "string", start, StringEnd(text, start + 1))
          [] OTHER -> IF words = {} THEN Token(text, "bad", start, 0)
                      ELSE LET w == CHOOSE w \in words : TRUE
                           IN  Token(text, w, start, start + Len(Keywords[w]))
NextToken(text, k) == TokenAt(text, From(text, k, LAMBDA c : c \in {" ", Tab, CR}))

RECURSIVE JsonTokens(_, _)
JsonTokens(line, k) ==      \* up to the end of the line or the first bad one
    LET token == NextToken(line, k)
    IN  IF token.kind \in {"end", "bad"} THEN <<token>> ELSE <<token>> \o JsonTokens(line, token.next)

Bad == <<"bad">>           \* a syntax error
Now(frames, state) == Append(Front(frames), state)

(* Fault: the parent frame of a nested value keeps waiting for a value. *)
BeginValue_Parent(frames, kind) ==
    CASE kind = "[" -> Append(frames, "value_or_end")
      [] kind = "{" -> Append(frames, "key_or_end")
      [] kind \in Scalars -> Now(frames, IF Last(frames) = "member" THEN "next_member" ELSE "next_value")
      [] OTHER -> Bad

(* One token in the innermost frame.  An array frame waits for a value or its
   end, a value, or a comma or its end; an object frame likewise for its keys,
   colons and members. *)
BeginValue(frames, kind) ==
    LET parent == Now(frames, IF Last(frames) = "member" THEN "next_member" ELSE "next_value")
    IN  CASE kind = "[" -> Append(parent, "value_or_end")
          [] kind = "{" -> Append(parent, "key_or_end")
          [] kind \in Scalars -> parent
          [] OTHER -> Bad

JsonStep(frames, kind) ==
    LET state == IF frames = <<>> THEN "closed" ELSE Last(frames)
    IN  CASE state = "closed" /\ kind = "end" -> frames
          [] state = "root" /\ kind = "[" -> <<"value_or_end">>
          [] \/ state = "value_or_end" /\ kind = "]"
             \/ state = "next_value" /\ kind = "]"
             \/ state = "key_or_end" /\ kind = "}"
             \/ state = "next_member" /\ kind = "}" -> Front(frames)
          [] state \in {"value_or_end", "value", "member"} -> BeginValue(frames, kind)
          [] state = "next_value" /\ kind = "," -> Now(frames, "value")
          [] state \in {"key_or_end", "key"} /\ kind = "string" -> Now(frames, "colon")
          [] state = "colon" /\ kind = ":" -> Now(frames, "member")
          [] state = "next_member" /\ kind = "," -> Now(frames, "key")
          [] OTHER -> Bad

(* parse_array: the values of the outermost array, by their first tokens.
   Lexing stops at the first syntax error, but any error refuses the line. *)
Consume(parse, token) ==
    [frames |-> JsonStep(parse.frames, token.kind),
     values |-> IF parse.frames \in {<<"value_or_end">>, <<"value">>} /\ token.kind # "]"
                THEN Append(parse.values, token) ELSE parse.values]
ParseArray(line) ==
    LET parse == FoldLeft(Consume, [frames |-> <<"root">>, values |-> <<>>], JsonTokens(line, 1))
    IN  IF parse.frames = <<>> THEN Ok(parse.values) ELSE Err("json")

JsonFieldValue(column, token) ==
    CASE column.type = "Int64" /\ token.kind = "int" -> ParseInt64(token.text)
      [] token.kind = "null" /\ AcceptsNull(column) -> Ok(SqlNull)
      [] column.type = "Float64" /\ token.kind \in {"int", "float"} -> ParseFloat64(token.text)
      [] OTHER -> Err("value")

JsonRecords(text) ==
    LET lines == SplitInclusive(text, LF)
    IN  Collect([k \in DOMAIN lines |->
                    ParseArray(IF Last(lines[k]) = LF THEN Front(lines[k]) ELSE lines[k])])
JsonRows(table, text, limits) == DataRows(table, <<1>>, JsonRecords(text), limits, JsonFieldValue)

-----------------------------------------------------------------------------
InputFormats == {"CSV", "CSVWithNames", "TSV", "TSVWithNames", "JSONCompactEachRow"}

(* The rows an input denotes for a table, or the error that refuses it. *)
ReadRows(format, table, text, limits) ==
    CASE Utf8Len(text) > limits.max_bytes -> Err("limit")
      [] format = "CSV" -> CsvRows(table, AllColumns(table), text, limits)
      [] format = "CSVWithNames" ->
             WithNames(table, text, CsvHeader, LAMBDA plan, data : CsvRows(table, plan, data, limits))
      [] format = "TSV" -> TsvRows(table, AllColumns(table), text, limits)
      [] format = "TSVWithNames" ->
             WithNames(table, text, TsvHeader, LAMBDA plan, data : TsvRows(table, plan, data, limits))
      [] format = "JSONCompactEachRow" ->
             IF Len(table.schema) # 1 \/ table.schema[1].type \notin {"Int64", "Float64"}
             THEN Err("schema")
             ELSE JsonRows(table, text, limits)

Write(format, result) ==
    CASE format = "CSV" -> WriteCsvRows(result)
      [] format = "CSVWithNames" -> WriteCsv(result)
      [] format = "TSV" -> WriteTsvRows(result)
      [] format = "TSVWithNames" -> WriteTsv(result)
      [] format = "JSONCompactEachRow" -> WriteJsonCompactEachRow(result)
=============================================================================
