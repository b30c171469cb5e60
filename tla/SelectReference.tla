-------------------------- MODULE SelectReference --------------------------
(***************************************************************************)
(* What a query means, stated over sets of rows: no selection, no fast     *)
(* path, no hash index, no incremental state.  Values are compared as      *)
(* integers, NULL below them all.                                          *)
(***************************************************************************)
EXTENDS Select

TrueRows(t, q) ==
    {row \in 1..t.row_count : \A k \in DOMAIN q.where : Truth(t, q.where[k], row) = "true"}

RowValue(t, i, row) == Scalar(i, t.columns[i.column][row])

(* An integer that orders like the value; averages of up to three rows. *)
Weight(i, v) ==
    IF v = Null THEN I64Min - 100
    ELSE IF i.kind = "avg" THEN v.sum * (6 \div v.count) ELSE v

(* a precedes b where some k separates them and nothing earlier does. *)
Precedes(a, b) ==
    \E k \in DOMAIN a : a[k] < b[k] /\ \A j \in 1..(k - 1) : a[j] = b[j]

Signed(o, weight) == IF o.descending THEN 0 - weight ELSE weight

(* The page of a sequence. *)
Page(s, q) ==
    LET from == IF q.offset = NoCount THEN 0 ELSE q.offset
    IN  {n \in DOMAIN s : n > from /\ (q.limit = NoCount \/ n <= from + q.limit)}
PageOf(s, q) == LET ns == Page(s, q) IN [n \in 1..Cardinality(ns) |-> s[n + Min(ns) - 1]]

-----------------------------------------------------------------------------
(* Rows: ordered by the named outputs, or by the window, then by position. *)
RowRank(t, q, row) ==
    LET windows == {i \in ToSet(q.items) : i.kind = "rowNumber" /\ i.column # 0}
        window == {Signed([descending |-> i.literal = 1], Weight(i, t.columns[i.column][row])) : i \in windows}
    IN  (IF window = {} THEN << >> ELSE <<CHOOSE w \in window : TRUE>>)
        \o [k \in DOMAIN q.order |->
               LET i == Output(q, q.order[k].name) IN Signed(q.order[k], Weight(i, RowValue(t, i, row)))]
        \o <<row>>

RowsInOrder(t, q) ==
    SetToSortSeq(TrueRows(t, q), LAMBDA a, b : Precedes(RowRank(t, q, a), RowRank(t, q, b)))

(* Representable(t, i, row): the item has a value for the row. *)
Representable(t, i, row) ==
    LET v == t.columns[i.column][row]
    IN  ~Unparsable(i, v) /\ ~OutOfRange(i, v)

OrderedText(t, q) ==
    \A k \in DOMAIN q.order, row \in TrueRows(t, q) :
        ~Unparsable(Output(q, q.order[k].name), t.columns[Output(q, q.order[k].name).column][row])

(* An ungrouped query answers its page, if every value on the page exists and
   every text it had to order is a number. *)
RowAnswer(t, q) ==
    LET page == PageOf(RowsInOrder(t, q), q)
        exists == \A n \in DOMAIN page, i \in ToSet(q.items) :
                     i.kind # "rowNumber" => Representable(t, i, page[n])
        value(n, i) == IF i.kind = "rowNumber" THEN n ELSE RowValue(t, i, page[n])
    IN  [ok |-> exists /\ (SelectionLimit(q) # 0 => OrderedText(t, q)),
         rows |-> [n \in DOMAIN page |-> [k \in DOMAIN q.items |-> value(n, q.items[k])]]]

-----------------------------------------------------------------------------
(* Groups: the rows that share a key; an aggregate without keys has one. *)
GroupsOf(t, q) ==
    LET rows == TrueRows(t, q)
    IN  IF GroupColumns(q) = << >> THEN {rows}
        ELSE {{r \in rows : Key(t, GroupColumns(q), r) = Key(t, GroupColumns(q), row)} : row \in rows}

(* An aggregate of a set of rows. *)
Aggregate(t, i, rows) ==
    LET value(r) == IF i.column = 0 THEN 1 ELSE t.columns[i.column][r]
        present == {r \in rows : value(r) # Null /\ (i.kind = "countIf" => value(r) = 1)}
        sum == MapThenSumSet(value, present)
        values == {value(r) : r \in present}
    IN  CASE i.kind \in {"count", "countIf"} -> Cardinality(present)
          [] present = {} -> Null
          [] i.kind = "sum" -> sum
          [] i.kind = "avg" -> [sum |-> sum, count |-> Cardinality(present)]
          [] i.kind = "min" -> Min(values)
          [] i.kind = "max" -> Max(values)

GroupItem(t, i, rows) ==
    IF i.kind \in Aggregates THEN Aggregate(t, i, rows)
    ELSE RowValue(t, i, CHOOSE r \in rows : TRUE)

Passes(t, q, rows) ==
    LET i == CHOOSE j \in ToSet(q.items) : Name(j) = q.having.name
        v == GroupItem(t, i, rows)
        scale == IF i.kind = "avg" THEN 6 ELSE 1
    IN  CASE q.having.test = None -> TRUE
          [] q.having.test = "isNull" -> v = Null
          [] q.having.test = "isNotNull" -> v # Null
          [] OTHER -> v # Null /\ Holds(q.having.test, Weight(i, v), scale * q.having.value)

(* Ordered by the outputs and then by the key; DISTINCT alone by first row. *)
GroupRank(t, q, rows) ==
    IF q.distinct /\ q.order = << >> THEN <<Min(rows)>>
    ELSE [k \in DOMAIN q.order |->
             LET i == Output(q, q.order[k].name) IN Signed(q.order[k], Weight(i, GroupItem(t, i, rows)))]
         \o [g \in DOMAIN GroupColumns(q) |->
               LET i == Item("column", GroupColumns(q)[g], 0, NoAlias)
               IN  Weight(i, RowValue(t, i, CHOOSE r \in rows : TRUE))]

(* A grouped query answers its page of the groups HAVING passes, if the sum
   of every group, passed or not, is an Int64. *)
GroupAnswer(t, q) ==
    LET groups == GroupsOf(t, q)
        passed == {g \in groups : Passes(t, q, g)}
        sorted == SetToSortSeq(passed, LAMBDA a, b : Precedes(GroupRank(t, q, a), GroupRank(t, q, b)))
        page == PageOf(sorted, q)
    IN  [ok |-> \A g \in groups, i \in ToSet(q.items) :
                   i.kind = "sum" /\ Aggregate(t, i, g) # Null => Aggregate(t, i, g) \in Int64,
         rows |-> [n \in DOMAIN page |-> [k \in DOMAIN q.items |-> GroupItem(t, q.items[k], page[n])]]]

Meaning(t, q) == IF Grouped(q) THEN GroupAnswer(t, q) ELSE RowAnswer(t, q)

(* A query the code does not refuse as malformed. *)
Legal(t, q) == ShapeIsValid(q) /\ Resolves(t, q) /\ SelectionLimit(q) <= UsizeMax
=============================================================================
