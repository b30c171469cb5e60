----------------------------- MODULE TextIngest -----------------------------
(* Database::ingest_csv, ingest_csv_with_names, ingest_tsv,
   ingest_tsv_with_names and ingest_json_compact_each_row
   (src/src/batch/engine.rs): a table filled by INSERT or by an input of any
   pieces of text. *)
EXTENDS TextFormats

CONSTANTS MaxPieces   \* bound: pieces typed

VARIABLES
    table,     \* [schema, rows, max_rows]
    before,    \* its rows when the input came
    format,    \* of the input
    text,      \* the input
    typed,     \* pieces of it
    outcome    \* of the ingest: Ok(the rows it appended) or an error

textVars == <<table, before, format, text, typed, outcome>>

Column(n, t, nullable) == [name |-> <<n>>, type |-> t, nullable |-> nullable]
Schemas == {
    <<Column("a", "String", FALSE)>>,
    <<Column("a", "Int64", TRUE)>>,
    <<Column("a", "Float64", FALSE)>>,
    <<Column("a", "Int64", TRUE), Column("b", "String", FALSE)>>,
    <<Column("b", "Bool", FALSE), Column("a", "Int64", FALSE)>>}

Alphabet == {"N", ",", Quote, LF, CR, Tab, Backslash, "nul", "bs"}
Strings(n) == UNION {[1 .. k -> Alphabet] : k \in 0 .. n} \cup {KwNULL}

(* What INSERT stores: in the table of one String column, strings of two
   characters. *)
Stored(schema, c) ==
    LET column == schema[c]
    IN  CASE AcceptsNull(column) -> {SqlNull, I64Min, I64Max}
          [] column.type = "Int64" -> {I64Min, 0}
          [] column.type = "Float64" -> {-F64Max, -1, 0, 2, F64Max}
          [] column.type = "Bool" -> BOOLEAN
          [] column.type = "String" -> Strings(IF Len(schema) = 1 THEN 2 ELSE 1)
Rows(schema) ==
    IF Len(schema) = 1 THEN {<<v>> : v \in Stored(schema, 1)}
    ELSE {<<v, w>> : v \in Stored(schema, 1), w \in Stored(schema, 2)}

(* The pieces inputs are made of: what the reader of a format tells apart. *)
Pieces(f) ==
    CASE f = "CSV" -> {<<"a">>, <<"1">>, <<",">>, <<Quote>>, <<LF>>, <<CR>>, KwNULL}
      [] f = "CSVWithNames" -> {<<"a">>, <<"b">>, <<",">>, <<Quote>>, <<CR, LF>>, <<LF>>, KwTrue}
      [] f = "TSV" -> {<<"1">>, <<Tab>>, <<Backslash>>, <<"N">>, <<LF>>, <<CR>>}
      [] f = "TSVWithNames" -> {<<"a">>, <<"b">>, <<Tab>>, <<Backslash, "t">>, <<LF>>, <<"1">>}
      [] f = "JSONCompactEachRow" ->
             {<<"[">>, <<"]">>, <<"{", Quote, "a", Quote, ":">>, <<"}">>, <<",">>, KwNull, <<"0">>,
              <<".", "1">>, <<LF>>}

Idle == Err("none")
Init ==
    /\ table \in [schema : Schemas, rows : {<<>>}, max_rows : {2}]
    /\ before = <<>>
    /\ format \in InputFormats
    /\ format = "JSONCompactEachRow" => Len(table.schema) = 1
    /\ text = <<>> /\ typed = 0
    /\ outcome = Idle

(* The table is filled first; a third row would not fit. *)
Insert(row) ==
    /\ text = <<>> /\ outcome = Idle
    /\ format = "CSV"                    \* the table does not know the format
    /\ Len(table.rows) < table.max_rows
    /\ table' = [table EXCEPT !.rows = Append(@, row)]
    /\ before' = table'.rows
    /\ UNCHANGED <<format, text, typed, outcome>>

Type(piece) ==
    /\ outcome = Idle /\ table.rows = <<>>
    /\ typed < IF format = "JSONCompactEachRow" /\ table.schema[1].type = "Float64"
               THEN MaxPieces + 1 ELSE MaxPieces
    /\ text' = text \o piece
    /\ typed' = typed + 1
    /\ UNCHANGED <<table, before, format, outcome>>

LimitsOf(bytes, rows, values) == [max_bytes |-> bytes, max_rows |-> rows, max_values |-> values]
Limits == {LimitsOf(32, 3, 6), LimitsOf(32, 1, 6), LimitsOf(4, 3, 1)}

(* The text is read against the table, then the rows are logged, and only
   then appended. *)
Ingest(limits) ==
    /\ outcome = Idle
    /\ outcome' = ReadRows(format, table, text, limits)
    /\ table' = [table EXCEPT !.rows = @ \o outcome'.value]
    /\ UNCHANGED <<before, format, text, typed>>

(* log_prepared_int64_append fails: only a table of one Int64 column has a
   log, and JSONCompactEachRow logs no empty append. *)
LogFails(limits) ==
    /\ outcome = Idle
    /\ Len(table.schema) = 1 /\ table.schema[1].type = "Int64"
    /\ \E read \in {ReadRows(format, table, text, limits)} :
           IsOk(read) /\ (format = "JSONCompactEachRow" => read.value # <<>>)
    /\ outcome' = Err("log")
    /\ UNCHANGED <<table, before, format, text, typed>>

Next ==
    \/ \E row \in Rows(table.schema) : Insert(row)
    \/ \E piece \in Pieces(format) : Type(piece)
    \/ \E limits \in Limits : Ingest(limits) \/ LogFails(limits)

-----------------------------------------------------------------------------
(* SELECT of some of the columns, in some order, and what is left of a row
   that is read back from it. *)
Selections(t) == UNION {{s \in [1 .. n -> DOMAIN t.schema] : \A j, k \in 1 .. n : s[j] = s[k] => j = k} :
                           n \in DOMAIN t.schema}
Selected(t, s) ==
    [columns |-> [k \in DOMAIN s |-> t.schema[s[k]]],
     rows |-> [r \in DOMAIN t.rows |-> [k \in DOMAIN s |-> t.rows[r][s[k]]]]]
Kept(t, s) ==
    [r \in DOMAIN t.rows |-> [c \in DOMAIN t.schema |->
        IF Contains(s, c) THEN t.rows[r][c] ELSE Default(t.schema[c])]]
BareCR(result) ==
    \E r \in DOMAIN result.rows : \E k \in DOMAIN result.columns :
        /\ result.columns[k].type = "String"
        /\ \E j \in DOMAIN result.rows[r][k] :
               result.rows[r][k][j] = CR /\ At(result.rows[r][k], j + 1) # LF

(* What one of the writers wrote, the reader of the same format reads back as
   the same rows: separators, quotes, line endings, escapes, NULL and the text
   "NULL" in the values, the columns selected in any order and some left out.
   Only the CSV reader refuses a String with a bare carriage return, and only
   that, although write_csv wrote it. *)
FormatsRoundTrip ==
    text = <<>> /\ outcome = Idle =>
        \A f \in InputFormats : \A s \in Selections(table) :
            LET result == Selected(table, s)
                expected ==
                    CASE f \in {"CSV", "CSVWithNames"} /\ BareCR(result) -> Err("line_ending")
                      [] f = "JSONCompactEachRow" /\ (Len(table.schema) > 1 \/ table.schema[1].type = "String") ->
                             Err("schema")
                      [] OTHER -> Ok(Kept(table, s))
            IN  f \in {"CSVWithNames", "TSVWithNames"} \/ s = AllColumns(table) =>
                  ReadRows(f, [table EXCEPT !.rows = <<>>], Write(f, result), LimitsOf(64, 2, 4)) = expected

(* The grammar of CSV without a cursor: a position is inside quotes when an odd
   number of quotes is before it, and the separators that count are outside. *)
Outside(t, k) == Cardinality({j \in 1 .. k - 1 : t[j] = Quote}) % 2 = 0
CutAt(t, separator) ==
    LET cuts == SetToSortSeq({0, Len(t) + 1} \cup {k \in DOMAIN t : t[k] = separator /\ Outside(t, k)}, <)
    IN  [k \in 1 .. Len(cuts) - 1 |-> SubSeq(t, cuts[k] + 1, cuts[k + 1] - 1)]
WellQuoted(field) ==        \* no quotes, or two around runs of an even length
    LET inner == SubSeq(field, 2, Len(field) - 1)
        RunStarts == {k \in DOMAIN inner : inner[k] = Quote /\ At(inner, k - 1) # Quote}
        RunEnd(k) == From(inner, k, LAMBDA c : c = Quote)
    IN  Has(field, {Quote}) =>
            /\ Len(field) > 1 /\ field[1] = Quote /\ Last(field) = Quote
            /\ \A k \in RunStarts : (RunEnd(k) - k) % 2 = 0
Grammatical(t) ==
    LET all == CutAt(t, LF)
        lines == IF Last(all) = <<>> THEN Front(all) ELSE all
    IN  /\ \A k \in DOMAIN t : t[k] = CR => At(t, k + 1) = LF
        /\ \A r \in DOMAIN lines : \A f \in ToSet(CutAt(lines[r], ",")) :
              WellQuoted(IF f # <<>> /\ Last(f) = CR THEN Front(f) ELSE f)

(* The grammar of JSON over tokens. *)
RECURSIVE IsValue(_), Elements(_), Members(_)
IsValue(ts) ==
    LET inner == SubSeq(ts, 2, Len(ts) - 1)
    IN  \/ Len(ts) = 1 /\ ts[1] \in Scalars
        \/ /\ Len(ts) > 1 /\ ts[1] = "[" /\ Last(ts) = "]"
           /\ inner = <<>> \/ Elements(inner) # {}
        \/ /\ Len(ts) > 1 /\ ts[1] = "{" /\ Last(ts) = "}"
           /\ inner = <<>> \/ Members(inner)
Elements(ts) ==             \* how many values ts can be a list of
    (IF IsValue(ts) THEN {1} ELSE {})
    \cup UNION {{n + 1 : n \in Elements(SubSeq(ts, k + 1, Len(ts)))} :
                   k \in {j \in DOMAIN ts : ts[j] = "," /\ IsValue(SubSeq(ts, 1, j - 1))}}
Members(ts) ==
    /\ Len(ts) > 2 /\ ts[1] = "string" /\ ts[2] = ":"
    /\ \/ IsValue(SubSeq(ts, 3, Len(ts)))
       \/ \E k \in 4 .. Len(ts) - 1 :
             /\ ts[k] = "," /\ IsValue(SubSeq(ts, 3, k - 1))
             /\ Members(SubSeq(ts, k + 1, Len(ts)))

(* An input is taken whole or not at all, and only if it is in the language of
   its format: a refused one leaves the table as it was; CSV text is malformed
   exactly where the grammar says so; and the stack of frames tells what is
   not a JSON array from an array of the wrong number of values. *)
IngestIsExact ==
    /\ outcome # Idle => table.rows = before \o outcome.value /\ (IsOk(outcome) => Len(table.rows) <= table.max_rows)
    /\ format = "CSV" /\ outcome = Idle => (IsOk(CsvRecords(text)) <=> Grammatical(text))
    /\ format = "JSONCompactEachRow" /\ outcome = Idle =>
          LET array == ParseArray(text)
              tokens == JsonTokens(text, 1)
              kinds == [k \in 1 .. Len(tokens) - 1 |-> tokens[k].kind]
              inner == SubSeq(kinds, 2, Len(kinds) - 1)
          IN  IF Last(tokens).kind = "end" /\ kinds # <<>> /\ kinds[1] = "[" /\ IsValue(kinds)
              THEN /\ IsOk(array)
                   /\ inner # <<>> => Elements(inner) = {Len(array.value)}
              ELSE array = Err("json")
=============================================================================
