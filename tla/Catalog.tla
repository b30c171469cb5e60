------------------------------- MODULE Catalog -------------------------------
(***************************************************************************)
(* Catalog (src/catalog.rs), its statements (src/execution.rs), its tables *)
(* (src/storage.rs), its CSV input (src/csv.rs) and SharedCatalog          *)
(* (src/shared_catalog.rs).                                                *)
(*                                                                         *)
(* Every SharedCatalog call takes its one lock once and keeps it to the    *)
(* end, so a call is one step; a holder of the lock who panics poisons it. *)
(* A call that fails changes nothing: only the accepted ones are steps.    *)
(***************************************************************************)
EXTENDS Int64Operators

CONSTANTS
    Names,          \* table names
    ColumnNames,
    Values,         \* the Int64 values inserted
    CsvInputs,      \* texts offered to CSV ingestion, as lines
    CsvLimits,      \* the CsvIngestLimits offered
    Statements,     \* the statements read with
    MaxTables,      \* CatalogLimits
    MaxRowsPerTable,
    MaxTotalRows    \* bound: rows of the whole catalog

VARIABLES tables, poisoned

catalogVars == <<tables, poisoned>>

(* eq_ignore_ascii_case *)
Folded(name) == IF name = "T" THEN "t" ELSE name

-----------------------------------------------------------------------------
(* storage.rs *)

NewTable(column, nullable) == [column |-> column, nullable |-> nullable, values |-> <<>>]

AppendIsValid(t, batch) ==
    /\ Len(batch) <= MaxRowsPerTable - Len(t.values)
    /\ t.nullable \/ Null \notin ToSet(batch)

AppendBatch(n, batch) ==
    /\ AppendIsValid(tables[n], batch)
    /\ tables' = [tables EXCEPT ![n].values = @ \o batch]

-----------------------------------------------------------------------------
(* csv.rs.  A line is its text and its end: a line feed, with or without a
   carriage return, or what is left at the end of the input. *)

Bytes(lines) == FoldLeft(LAMBDA n, l : n + Len(l.text) + Len(l.end), 0, lines)

(* A last line without line feed keeps its carriage return. *)
LineContents(l) == IF l.end = "\r" THEN l.text \o l.end ELSE l.text

Decimal(text) == CASE text = "1" -> 1 [] text = "-2" -> 0 - 2 [] text = "+2" -> 2 [] OTHER -> I64Max + 1

ParseRecord(text) ==
    IF text = "" THEN Err("EmptyRecord")
    ELSE IF text = "1,1" THEN Err("WrongColumnCount")
    ELSE IF text = "NULL" THEN Ok(Null)
    ELSE IF Decimal(text) \in I64Min .. I64Max THEN Ok(Decimal(text))
    ELSE Err("InvalidInt64")

(* The rows of an input, or the first error met line by line. *)
CsvRecord(t, l, read, limits) ==
    LET value == ParseRecord(LineContents(l))
    IN  IF ~IsOk(read) THEN read
        ELSE IF Len(read.value) + 1 > limits.max_rows THEN Err("RowLimitExceeded")
        ELSE IF ~IsOk(value) THEN value
        ELSE IF value.value = Null /\ ~t.nullable THEN Err("NullNotAllowed")
        ELSE Ok(Append(read.value, value.value))

CsvRows(t, lines, limits) ==
    IF Bytes(lines) > limits.max_bytes THEN Err("ByteLimitExceeded")
    ELSE IF lines = <<>> THEN Err("MissingHeader")
    ELSE IF LineContents(lines[1]) # t.column THEN Err("HeaderMismatch")
    ELSE FoldLeft(LAMBDA read, l : CsvRecord(t, l, read, limits), Ok(<<>>), Tail(lines))

-----------------------------------------------------------------------------
(* The calls that change the catalog. *)

Init ==
    /\ tables = [n \in {} |-> n]
    /\ poisoned = FALSE

(* The table is registered under its exact name; IF NOT EXISTS is satisfied by
   a name that differs only in case. *)
Register(n, t) ==
    /\ n \notin DOMAIN tables
    /\ Cardinality(DOMAIN tables) < MaxTables
    /\ tables' = [m \in DOMAIN tables \cup {n} |-> IF m = n THEN t ELSE tables[m]]

Create(n) ==
    /\ \E if_not_exists \in BOOLEAN, column \in ColumnNames, nullable \in BOOLEAN :
        /\ if_not_exists => \A m \in DOMAIN tables : Folded(m) # Folded(n)
        /\ Register(n, NewTable(column, nullable))
    /\ UNCHANGED poisoned

RestoreInt64TableFromFile(n) ==
    /\ \E column \in ColumnNames, nullable \in BOOLEAN, rows \in BoundedSeq(Values \cup {Null}, MaxRowsPerTable + 1) :
        LET t == NewTable(column, nullable)
        IN  AppendIsValid(t, rows) /\ Register(n, [t EXCEPT !.values = rows])
    /\ UNCHANGED poisoned

Insert(n) ==
    /\ n \in DOMAIN tables
    /\ \E value \in Values \cup {Null} : AppendBatch(n, <<value>>)
    /\ UNCHANGED poisoned

(* table_mut lends the table, whose append_batch takes several rows. *)
AppendThroughTableMut(n) ==
    /\ n \in DOMAIN tables
    /\ \E batch \in BoundedSeq(Values \cup {Null}, 2) : AppendBatch(n, batch)
    /\ UNCHANGED poisoned

(* From bytes, or from a reader read to its end first, which the same byte
   limit stops. *)
IngestCsvWithNames(n) ==
    /\ n \in DOMAIN tables
    /\ \E lines \in CsvInputs, limits \in CsvLimits :
        LET read == CsvRows(tables[n], lines, limits)
        IN  IsOk(read) /\ AppendBatch(n, read.value)
    /\ UNCHANGED poisoned

(* The owner of the Arc given to from_arc panics while it holds the lock. *)
OwnerPanics == poisoned' = TRUE /\ UNCHANGED tables

TotalRows == MapThenSumSet(LAMBDA n : Len(tables[n].values), DOMAIN tables)

Next ==
    /\ ~poisoned
    /\ \/ \E n \in Names :
            \/ Create(n) \/ RestoreInt64TableFromFile(n)
            \/ Insert(n) \/ AppendThroughTableMut(n) \/ IngestCsvWithNames(n)
       \/ OwnerPanics
    /\ TotalRows' <= MaxTotalRows

Spec == Init /\ [][Next]_catalogVars

-----------------------------------------------------------------------------
(* The statements that read it.  The parser wants a direction, a place for
   NULL and a LIMIT with every ORDER BY. *)

None == "none"
NoLimit == 0 - 1
CatalogScan == [input |-> MaxRowsPerTable, result |-> MaxRowsPerTable]
CatalogOrder == [input |-> MaxRowsPerTable, limit |-> MaxRowsPerTable]

Lookup(n) == IF n \in DOMAIN tables THEN Ok(tables[n]) ELSE Err("UnknownTable")
Columns(s, t) == \A c \in {s.column, s.where.column} : c \in {None, t.column}

Project(rows, values) == IF IsOk(rows) THEN Ok([k \in DOMAIN rows.value |-> values[rows.value[k]]]) ELSE rows

(* The rows a WHERE lets through; without one nothing is scanned. *)
Matching(s, values) ==
    IF s.where.test = None THEN Ok(Rows(values)) ELSE ScanMatchingRows(values, s.where, s.scan)

Select(s, values) ==
    LET rows == Matching(s, values)
        filtered == Project(rows, values)
        limit == IF s.limit = NoLimit THEN Len(values) ELSE s.limit
    IN  IF ~IsOk(rows) THEN rows
        ELSE IF s.order.direction = None
             THEN Ok(SubSeq(filtered.value, 1, Min({limit, Len(filtered.value)})))
        ELSE Project(OrderNullable(filtered.value, s.order, limit, CatalogOrder), filtered.value)

(* COUNT of all rows or of a column, SUM and MIN. *)
Scalar(s, values) ==
    LET rows == Matching(s, values)
        Count(selected) == Ok(Len(IF s.column = None THEN selected ELSE Present(selected)))
    IN  IF ~IsOk(rows) THEN rows
        ELSE CASE s.kind = "count" -> Aggregate(values, rows.value, s.limits, Count)
               [] s.kind = "sum" -> Aggregate(values, rows.value, s.limits, SumOf)
               [] s.kind = "min" -> Aggregate(values, rows.value, s.limits, MinOf)

(* An inner join shows the left column, a left join the right one. *)
Join(s, left, right) ==
    LET pairs == EquiJoin(left, right, s.outer, s.limits)
        Value(p) == IF ~s.outer THEN left[p[1]] ELSE IF p[2] = Null THEN Null ELSE right[p[2]]
    IN  IF IsOk(pairs) THEN Ok([k \in DOMAIN pairs.value |-> Value(pairs.value[k])]) ELSE pairs

JoinColumns(s, left, right) ==
    /\ s.column = left.column /\ s.other_column = right.column
    /\ s.projected = IF s.outer THEN right.column ELSE left.column

Read(s) ==
    LET t == Lookup(s.table)
    IN  IF poisoned THEN Err("LockPoisoned")
        ELSE IF ~IsOk(t) THEN t
        ELSE IF s.kind = "join"
             THEN LET other == Lookup(s.other) IN
                  IF ~IsOk(other) THEN other
                  ELSE IF ~JoinColumns(s, t.value, other.value) THEN Err("UnknownColumn")
                  ELSE Join(s, t.value.values, other.value.values)
        ELSE IF ~Columns(s, t.value) THEN Err("UnknownColumn")
        ELSE CASE s.kind = "select" -> Select(s, t.value.values)
               [] s.kind = "distinct" -> Distinct(t.value.values, s.limits)
               [] OTHER -> Scalar(s, t.value.values)

-----------------------------------------------------------------------------
(* Properties. *)

(* What a statement means, read off the rows: the rows its predicate holds
   for, in source order, sorted only where it says so. *)
Meaning(s, values, right) ==
    LET hits == SelectSeq(values, LAMBDA v : s.where.test = None \/ Holds(s.where, v))
        precedes(a, b) ==
            IF a = Null \/ b = Null THEN (a = Null) = (s.order.nulls = "FIRST") /\ a # b
            ELSE IF s.order.direction = "ASC" THEN a < b ELSE b < a
        place(k) == Cardinality({j \in DOMAIN hits :
                        precedes(hits[j], hits[k]) \/ (hits[j] = hits[k] /\ j <= k)})
        sorted == [p \in DOMAIN hits |-> hits[CHOOSE k \in DOMAIN hits : place(k) = p]]
        limit == IF s.limit = NoLimit THEN Len(hits) ELSE Min({s.limit, Len(hits)})
        matches(l) == SelectSeq(right, LAMBDA v : v # Null /\ v = values[l])
        joined(l) == IF ~s.outer THEN [k \in DOMAIN matches(l) |-> values[l]]
                     ELSE IF matches(l) = <<>> THEN <<Null>> ELSE matches(l)
    IN  CASE s.kind = "select" -> SubSeq(IF s.order.direction = None THEN hits ELSE sorted, 1, limit)
          [] s.kind = "count" -> Len(IF s.column = None THEN hits ELSE Present(hits))
          [] s.kind = "sum" -> IF Present(hits) = <<>> THEN Null ELSE FoldLeft(+, 0, Present(hits))
          [] s.kind = "min" -> IF Present(hits) = <<>> THEN Null
                               ELSE CHOOSE v \in ToSet(Present(hits)) : \A w \in ToSet(Present(hits)) : v <= w
          [] s.kind = "distinct" -> SetToSortSeq(ToSet(values), KeyOrder)
          [] s.kind = "join" -> FlattenSeq([l \in DOMAIN values |-> joined(l)])

(* A name that is unknown, a limit that is exceeded by the whole input or the
   whole result, or a sum that is no Int64: nothing else refuses a statement. *)
Refused(s, meaning) ==
    LET names == {s.table} \cup (IF s.kind = "join" THEN {s.other} ELSE {})
        t == tables[s.table]
        hits == SelectSeq(t.values, LAMBDA v : s.where.test = None \/ Holds(s.where, v))
    IN  \/ ~(names \subseteq DOMAIN tables)
        \/ IF s.kind = "join"
           THEN \/ ~JoinColumns(s, t, tables[s.other])
                \/ Len(t.values) > s.limits.input \/ Len(tables[s.other].values) > s.limits.input
                \/ Len(meaning) > s.limits.output
           ELSE \/ ~Columns(s, t)
                \/ s.where.test # None /\ (Len(t.values) > s.scan.input \/ Len(hits) > s.scan.result)
                \/ s.kind = "select" /\ s.order.direction # None /\ s.limit > MaxRowsPerTable
                \/ s.kind = "distinct" /\ (Len(t.values) > s.limits.input \/ Len(meaning) > s.limits.groups)
                \/ s.kind \in {"count", "sum", "min"} /\
                      (Len(t.values) > s.limits.input \/ Len(hits) > s.limits.selected)
                \/ s.kind = "sum" /\ meaning # Null /\ meaning \notin I64Min .. I64Max

LimitsHold ==
    /\ Cardinality(DOMAIN tables) <= MaxTables
    /\ \A n \in DOMAIN tables :
        /\ Len(tables[n].values) <= MaxRowsPerTable
        /\ ToSet(tables[n].values) \subseteq I64Min .. I64Max \cup (IF tables[n].nullable THEN {Null} ELSE {})

AnswersAreExact ==
    \A s \in Statements :
        LET join == s.kind = "join"
            known == s.table \in DOMAIN tables /\ (join => s.other \in DOMAIN tables)
            meaning == IF ~known THEN <<>>
                       ELSE Meaning(s, tables[s.table].values, IF join THEN tables[s.other].values ELSE <<>>)
            answer == Read(s)
        IN  IF Refused(s, meaning) THEN ~IsOk(answer) ELSE IsOk(answer) /\ answer.value = meaning

GroupsAreExact ==
    \A n \in DOMAIN tables, limits \in [input : {1, 3}, groups : {1, 2, 3}] :
        LET values == tables[n].values
            keys == SetToSortSeq(ToSet(values), KeyOrder)
            Size(v) == Cardinality({r \in DOMAIN values : values[r] = v})
            answer == GroupedCount(values, limits)
        IN  IF Len(values) > limits.input \/ Len(keys) > limits.groups THEN ~IsOk(answer)
            ELSE IsOk(answer) /\ answer.value = [k \in DOMAIN keys |-> <<keys[k], Size(keys[k])>>]

(* Whatever was created, restored, inserted and ingested before, no call got a
   table past the catalog's limits, and every statement is answered with
   exactly its meaning or refused for a stated reason; so are the grouped
   counts that the crate exports beside the catalog. *)
CatalogIsExact == LimitsHold /\ (~poisoned => AnswersAreExact /\ GroupsAreExact)
=============================================================================
