------------------------------- MODULE Select -------------------------------
(***************************************************************************)
(* SELECT after its rows are found (src/batch/engine.rs): shape checks,    *)
(* name resolution, grouping with its fast paths, HAVING, ORDER BY with    *)
(* bounded selection, OFFSET, resource limits, projection; UNION and CROSS *)
(* JOIN.                                                                   *)
(*                                                                         *)
(* An execution is the set of its possible outcomes: the library sorts     *)
(* unstably, so where rows compare equal any order is possible.            *)
(***************************************************************************)
EXTENDS Pruning

CONSTANT UsizeMax    \* the largest usize

None == "none"       \* no HAVING
NoCount == 0 - 1     \* no LIMIT, no OFFSET

(* Query items.  `column' is 0 for COUNT of all rows and for a window without
   order; `literal' is the operand, or 1 for a descending window.  The String
   of n bytes is the decimal text of n, and the empty one is no number. *)
Aggregates == {"count", "countIf", "sum", "avg", "min", "max"}
Item(kind, column, literal, alias) ==
    [kind |-> kind, column |-> column, literal |-> literal, alias |-> alias]

(* Names: an alias, or else the expression itself. *)
NoAlias == << >>
Expression(i) == <<i.kind, i.column, i.literal>>
Name(i) == IF i.alias = NoAlias THEN Expression(i) ELSE i.alias

Kinds(q) == {q.items[i].kind : i \in DOMAIN q.items}
HasAggregate(q) == Kinds(q) \cap Aggregates # {}
HasRowNumber(q) == "rowNumber" \in Kinds(q)

(* resolve_group_columns and resolve_distinct_columns. *)
GroupColumns(q) == IF q.distinct THEN [i \in DOMAIN q.items |-> q.items[i].column] ELSE q.group
Grouped(q) == q.distinct \/ q.group # << >> \/ HasAggregate(q)

-----------------------------------------------------------------------------
(* validate_distinct_shape, validate_row_number_shape, validate_offset_shape. *)
ShapeIsValid(q) ==
    /\ q.distinct => /\ q.items # << >>
                     /\ \A i \in DOMAIN q.items : q.items[i].kind = "column" /\ q.items[i].alias = NoAlias
                     /\ q.group = << >> /\ q.having.test = None
    /\ HasRowNumber(q) => /\ ~q.distinct /\ q.group = << >> /\ q.having.test = None
                          /\ ~HasAggregate(q) /\ q.order = << >> /\ q.offset = NoCount
    /\ q.offset # NoCount => q.limit # NoCount

(* resolve_select_items: columns and the scalars of nullable keys must be
   grouped where the query is, *)
KeyScalars == {"column", "isNull", "isNotNull", "ifNull", "castInt64"}

(* the other scalars are for ungrouped queries, *)
RowScalars == {"subtract", "abs", "toBool", "textToInt64", "length", "lengthUtf8", "empty"}

(* and every argument is typed. *)
ArgumentTypes(kind) ==
    CASE kind \in {"ifNull", "castInt64"} -> {"NullableInt64"}
      [] kind \in {"subtract", "abs", "toBool", "rowNumber"} -> {"Int64", "NullableInt64"}
      [] kind \in {"textToInt64", "length", "lengthUtf8", "empty"} -> {"String"}
      [] kind = "countIf" -> {"Bool"}
      [] kind \in {"sum", "avg"} -> {"Int64", "NullableInt64", "Float64"}
      [] OTHER -> {"Int64", "NullableInt64", "Float64", "Bool", "String"}

ItemIsValid(t, q, i) ==
    LET grouping == HasAggregate(q) \/ GroupColumns(q) # << >>
    IN  /\ IF i.column = 0 THEN i.kind \in {"count", "rowNumber"}
           ELSE t.schema[i.column].type \in ArgumentTypes(i.kind)
        /\ i.kind \in KeyScalars => (grouping => i.column \in ToSet(GroupColumns(q)))
        /\ i.kind \in RowScalars => ~grouping

(* resolve_row_number_ordering: one window ordering for all. *)
WindowIsValid(q) ==
    \A i, j \in DOMAIN q.items :
        q.items[i].kind = "rowNumber" /\ q.items[j].kind = "rowNumber"
            => Expression(q.items[i]) = Expression(q.items[j])

Named(q, name) == {i \in DOMAIN q.items : Name(q.items[i]) = name}

(* resolve_ordering: output names first, then the expressions behind them. *)
Outputs(q, name) ==
    IF Named(q, name) # {} THEN Named(q, name)
    ELSE {i \in DOMAIN q.items : Expression(q.items[i]) = name}
Output(q, name) == q.items[CHOOSE i \in Outputs(q, name) : TRUE]

(* aggregate_output_type and the result types of the other items. *)
OutputType(t, i) ==
    CASE i.kind = "avg" -> "Float64"
      [] i.kind \in {"isNull", "isNotNull", "toBool"} -> "Bool"
      [] i.kind \in {"count", "countIf", "textToInt64", "length", "lengthUtf8", "empty", "rowNumber"} -> "Int64"
      [] OTHER -> IF IsInt64(t.schema[i.column].type) THEN "Int64" ELSE t.schema[i.column].type

(* resolve_having: one output of that name, an aggregate, numeric if compared. *)
HavingIsValid(t, q) ==
    q.having.test # None =>
        /\ Cardinality(Named(q, q.having.name)) = 1
        /\ LET i == q.items[CHOOSE k \in Named(q, q.having.name) : TRUE]
           IN  /\ i.kind \in Aggregates
               /\ q.having.test \in Operators => OutputType(t, i) \in {"Int64", "Float64"}

Resolves(t, q) ==
    /\ \A i, j \in DOMAIN GroupColumns(q) : i # j => GroupColumns(q)[i] # GroupColumns(q)[j]
    /\ \A i \in DOMAIN q.items : ItemIsValid(t, q, q.items[i])
    /\ WindowIsValid(q)
    /\ HavingIsValid(t, q)
    /\ \A o \in DOMAIN q.order : Cardinality(Outputs(q, q.order[o].name)) = 1

-----------------------------------------------------------------------------
(* Values.  An average is its sum and count. *)

(* Ord of Value: NULL first. *)
Compare3(kind, a, b) ==
    LET x == IF kind = "avg" THEN a.sum * b.count ELSE a
        y == IF kind = "avg" THEN b.sum * a.count ELSE b
    IN  IF a = b THEN 0
        ELSE IF a = Null THEN 0 - 1
        ELSE IF b = Null THEN 1
        ELSE IF x < y THEN 0 - 1 ELSE IF x > y THEN 1 ELSE 0

Bit(b) == IF b THEN 1 ELSE 0

Magnitude(v) == IF v < 0 THEN 0 - v ELSE v

(* A scalar item of one value, before its range check. *)
Scalar(i, v) ==
    CASE i.kind = "ifNull" -> IF v = Null THEN i.literal ELSE v
      [] i.kind = "isNull" -> Bit(v = Null)
      [] i.kind = "isNotNull" -> Bit(v # Null)
      [] v = Null -> Null
      [] i.kind = "subtract" -> v - i.literal
      [] i.kind = "abs" -> Magnitude(v)
      [] i.kind = "toBool" -> Bit(v # 0)
      [] i.kind = "empty" -> Bit(v = 0)
      [] OTHER -> v

(* checked_subtract, checked_abs and checked_string_to_int64. *)
Unparsable(i, v) == i.kind = "textToInt64" /\ v = 0
OutOfRange(i, v) ==
    /\ i.kind \in {"subtract", "abs", "textToInt64"}
    /\ Scalar(i, v) # Null /\ Scalar(i, v) \notin Int64

(* The first difference under the ordering decides. *)
Lexicographic(signs) ==
    LET different == {k \in DOMAIN signs : signs[k] # 0}
    IN  IF different = {} THEN 0 ELSE signs[Min(different)]

Directed(o, sign) == IF o.descending THEN 0 - sign ELSE sign

-----------------------------------------------------------------------------
(* sort_and_limit_by: select_nth_unstable_by moves some `limit' smallest
   elements to the front, and an unstable sort orders them.  Before(a, b)
   says that a compares less than b. *)
Prefix(s, n) == SubSeq(s, 1, Min({n, Len(s)}))

Sorts(elements, Before(_, _)) ==
    {s \in SetToSeqs(elements) :
        \A i, j \in DOMAIN s : i < j => ~Before(s[j], s[i])}

SortAndLimit(s, limit, Before(_, _)) ==
    IF limit = 0 THEN {<< >>}
    ELSE IF limit = NoCount \/ limit >= Len(s) THEN Sorts(ToSet(s), Before)
    ELSE UNION {Sorts(kept, Before) :
                 kept \in {c \in kSubset(limit, ToSet(s)) :
                             \A a \in c, b \in ToSet(s) \ c : ~Before(b, a)}}

(* The comparators of order_source_rows, which orders a subtraction by its
   operand, and of order_window_rows. *)
RowOrder(t, q, a, b) ==
    Lexicographic([k \in DOMAIN q.order |->
        LET i == Output(q, q.order[k].name)
            value(row) == IF i.kind = "subtract" THEN t.columns[i.column][row]
                          ELSE Scalar(i, t.columns[i.column][row])
        IN  Directed(q.order[k], Compare3(i.kind, value(a), value(b)))])

(* Fault: rows that compare equal are left to the sort. *)
RowBefore_Ties(t, q, a, b) == RowOrder(t, q, a, b) < 0

RowBefore(t, q, a, b) ==
    LET sign == RowOrder(t, q, a, b)
    IN  sign < 0 \/ (sign = 0 /\ a < b)

WindowBefore(t, i, a, b) ==
    LET sign == Directed([descending |-> i.literal = 1],
                         Compare3("column", t.columns[i.column][a], t.columns[i.column][b]))
    IN  sign < 0 \/ (sign = 0 /\ a < b)

(* The errors of order_source_rows: a single lengthUTF8 key is cached for
   every row and charged, a text must parse in every row it orders. *)
OrderingStatus(t, q, rows, limit, limits) ==
    LET keys == {Output(q, q.order[k].name) : k \in DOMAIN q.order}
    IN  IF Len(q.order) = 1 /\ (\A i \in keys : i.kind = "lengthUtf8")
        THEN IF Len(rows) > limits.max_ordering_rows THEN "limit" ELSE "ok"
        ELSE IF limit # 0 /\ \E i \in keys, n \in DOMAIN rows : Unparsable(i, t.columns[i.column][rows[n]])
        THEN "syntax" ELSE "ok"

(* order_source_rows. *)
OrderSourceRows(t, q, rows, limit) ==
    IF q.order = << >> THEN {IF limit = NoCount THEN rows ELSE Prefix(rows, limit)}
    ELSE SortAndLimit(rows, limit, LAMBDA a, b : RowBefore(t, q, a, b))

Windows(q) == {q.items[i] : i \in {j \in DOMAIN q.items :
                    q.items[j].kind = "rowNumber" /\ q.items[j].column # 0}}

(* apply_offset, for a page of the first LIMIT + OFFSET rows. *)
ApplyOffset(s, offset) == SubSeq(s, offset + 1, Len(s))

(* checked_selection_limit. *)
SelectionLimit(q) ==
    IF q.limit = NoCount THEN NoCount ELSE q.limit + IF q.offset = NoCount THEN 0 ELSE q.offset

-----------------------------------------------------------------------------
(* Aggregation: AggregateState. *)

NewState == [count |-> 0, sum |-> 0, extreme |-> Null]

(* AggregateState::update; v is 0 for COUNT of all rows. *)
UpdateState(spec, state, v) ==
    IF v = Null \/ (spec.kind = "countIf" /\ v = 0) THEN state
    ELSE [count   |-> state.count + 1,
          sum     |-> state.sum + v,
          extreme |-> IF \/ state.extreme = Null
                         \/ spec.kind = "min" /\ v < state.extreme
                         \/ spec.kind = "max" /\ v > state.extreme
                      THEN v ELSE state.extreme]

Overflow == "overflow"

(* AggregateState::finish; an i128 sum is narrowed only here. *)
Finish(spec, state) ==
    CASE spec.kind \in {"count", "countIf"} -> [ok |-> TRUE, value |-> state.count]
      [] spec.kind = "sum" ->
            IF state.count = 0 THEN [ok |-> TRUE, value |-> Null]
            ELSE [ok |-> state.sum \in Int64, value |-> state.sum]
      [] spec.kind = "avg" ->
            [ok |-> TRUE, value |-> IF state.count = 0 THEN Null
                                    ELSE [sum |-> state.sum, count |-> state.count]]
      [] spec.kind \in {"min", "max"} -> [ok |-> TRUE, value |-> state.extreme]

Specs(q) == SelectSeq(q.items, LAMBDA i : i.kind \in Aggregates)
Argument(t, spec, row) == IF spec.column = 0 THEN 0 ELSE t.columns[spec.column][row]

(* What a fast path reduces its rows to; that chunks and helpers make no
   difference is AggregateScheduler's result. *)
Reduce(t, spec, rows) == FoldLeft(LAMBDA s, row : UpdateState(spec, s, Argument(t, spec, row)), NewState, rows)

(* paired_global_count_aggregate: a COUNT beside one other aggregate. *)
Paired(t, specs) ==
    /\ Len(specs) = 2
    /\ \E c \in 1..2 :
         LET count == specs[c]
             other == specs[3 - c]
         IN  /\ count.kind = "count" /\ other.kind \in {"sum", "avg", "min", "max"}
             /\ other.column # 0 /\ t.schema[other.column].type # "Bool"
             /\ \/ count.column = 0
                \/ /\ other.kind \in {"sum", "avg"}
                   /\ t.schema[other.column].type = "NullableInt64"
                   /\ count.column = other.column

(* The COUNT of such a pair: the matched rows, or the other's present ones. *)
PairedCount(t, spec, other, rows) ==
    IF spec.column = 0 THEN [NewState EXCEPT !.count = Len(rows)]
    ELSE [NewState EXCEPT !.count = Reduce(t, other, rows).count]

(* The sole aggregate of an ungrouped query over a physical Int64 column, and
   every countIf. *)
IsFast(t, specs, spec) ==
    \/ Paired(t, specs)
    \/ spec.kind = "countIf"
    \/ /\ Len(specs) = 1 /\ spec.column # 0
       /\ CASE spec.kind = "count" -> t.schema[spec.column].type = "NullableInt64"
            [] spec.kind \in {"sum", "avg"} -> IsInt64(t.schema[spec.column].type)
            [] OTHER -> t.schema[spec.column].type \in {"Int64", "NullableInt64", "Float64"}

(* The states before the loop over the rows. *)
GlobalStates(t, specs, rows) ==
    [s \in DOMAIN specs |->
        IF Paired(t, specs) /\ specs[s].kind = "count"
        THEN PairedCount(t, specs[s], specs[3 - s], rows)
        ELSE IF IsFast(t, specs, specs[s]) THEN Reduce(t, specs[s], rows)
        ELSE NewState]

(* execute_grouped_bool_count, .._sum_or_avg, .._min and .._max apply. *)
IsGroupedBool(t, groups, specs) ==
    /\ Len(groups) = 1 /\ t.schema[groups[1]].type = "Bool"
    /\ Len(specs) = 1
    /\ specs[1].kind \in {"count", "countIf"} \/ t.schema[specs[1].column].type \in {"Int64", "Float64"}

Key(t, groups, row) == [g \in DOMAIN groups |-> t.columns[groups[g]][row]]

GroupedBool(t, groups, specs, rows, limits) ==
    LET value(row) == t.columns[groups[1]][row]
        of(b) == SelectSeq(rows, LAMBDA row : value(row) = b)
        order == IF rows = << >> THEN << >>
                 ELSE LET first == value(rows[1])
                      IN  IF of(1 - first) = << >> THEN <<first>> ELSE <<first, 1 - first>>
    IN  IF Len(order) > limits.max_groups \/ Len(order) > limits.max_group_key_cells
        THEN [status |-> "limit"]
        ELSE [status |-> "ok", keys |-> [g \in DOMAIN order |-> <<order[g]>>],
              states |-> [g \in DOMAIN order |-> <<Reduce(t, specs[1], of(order[g]))>>]]

(* GroupIndex::find and insert, and the update of the group's states. *)
GroupStep(t, groups, specs, limits, probe, acc, row) ==
    LET key == Key(t, groups, row)
        found == {g \in DOMAIN acc.keys : acc.keys[g] = key}
        group == IF found # {} THEN CHOOSE g \in found : TRUE ELSE Len(acc.keys) + 1
        next == IF found # {} THEN acc
                ELSE [acc EXCEPT !.keys = Append(@, key),
                                 !.states = Append(@, [s \in DOMAIN specs |-> NewState])]
    IN  IF acc.status # "ok" THEN acc
        ELSE IF Len(next.keys) > limits.max_groups
             \/ probe + Len(next.keys) * Len(groups) > limits.max_group_key_cells
        THEN [acc EXCEPT !.status = "limit"]
        ELSE [next EXCEPT !.states[group] = [s \in DOMAIN specs |->
                IF groups = << >> /\ IsFast(t, specs, specs[s]) THEN @[s]
                ELSE UpdateState(specs[s], @[s], Argument(t, specs[s], row))]]

(* The checks of execute_grouped before it reads a row. *)
GroupingFits(groups, specs, rows, limits, probe) ==
    LET planned == IF groups = << >> THEN 1 ELSE Min({Len(rows), limits.max_groups})
    IN  /\ groups = << >> \/ rows # << >> => 1 <= limits.max_groups
        /\ planned * Len(specs) <= limits.max_aggregate_state_cells
        /\ groups # << >> /\ rows # << >> => probe + Len(groups) <= limits.max_group_key_cells

(* execute_grouped: keys in first-seen order, with their states. *)
ExecuteGrouped(t, groups, specs, rows, limits) ==
    LET probe == IF Len(groups) > 2 /\ rows # << >> THEN Len(groups) ELSE 0
        start == IF groups = << >>
                 THEN [status |-> "ok", keys |-> <<<< >>>>, states |-> <<GlobalStates(t, specs, rows)>>]
                 ELSE [status |-> "ok", keys |-> << >>, states |-> << >>]
    IN  IF ~GroupingFits(groups, specs, rows, limits, probe) THEN [status |-> "limit"]
        ELSE IF IsGroupedBool(t, groups, specs) THEN GroupedBool(t, groups, specs, rows, limits)
        ELSE FoldLeft(LAMBDA acc, row : GroupStep(t, groups, specs, limits, probe, acc, row), start, rows)

(* An output of a group: a key, a scalar of one, or an aggregate. *)
GroupValue(q, data, g, k) ==
    LET i == q.items[k]
        groups == GroupColumns(q)
        state == Cardinality({j \in 1..k : q.items[j].kind \in Aggregates})
    IN  IF i.kind \in Aggregates THEN Finish(i, data.states[g][state]).value
        ELSE Scalar(i, data.keys[g][CHOOSE p \in DOMAIN groups : groups[p] = i.column])

(* ResolvedHaving::evaluate: NULL compares with nothing. *)
Admits(q, data, g) ==
    LET k == CHOOSE j \in Named(q, q.having.name) : TRUE
        v == GroupValue(q, data, g, k)
        w == q.having.value
        threshold == IF q.items[k].kind = "avg" THEN [sum |-> w, count |-> 1] ELSE w
    IN  CASE q.having.test = None -> TRUE
          [] q.having.test = "isNull" -> v = Null
          [] q.having.test = "isNotNull" -> v # Null
          [] q.having.test \in Operators ->
                v # Null /\ Holds(q.having.test, Compare3(q.items[k].kind, v, threshold), 0)

(* order_grouped_rows: the ordering, then the group's key. *)
GroupBefore(q, data, a, b) ==
    LET keys == [p \in DOMAIN GroupColumns(q) |-> Compare3("column", data.keys[a][p], data.keys[b][p])]
        order == [o \in DOMAIN q.order |->
                    LET k == CHOOSE j \in Outputs(q, q.order[o].name) : TRUE
                    IN  Directed(q.order[o], Compare3(q.items[k].kind, GroupValue(q, data, a, k),
                                                      GroupValue(q, data, b, k)))]
    IN  Lexicographic(order \o keys) < 0

OrderGroups(q, data, chosen, limit) ==
    IF q.distinct /\ q.order = << >>
    THEN {IF limit = NoCount THEN chosen ELSE Prefix(chosen, limit)}
    ELSE SortAndLimit(chosen, limit, LAMBDA a, b : GroupBefore(q, data, a, b))

-----------------------------------------------------------------------------
(* Outcomes. *)
Failed(status) == [status |-> status, rows |-> << >>]
Answer(rows) == [status |-> "ok", rows |-> rows]

(* SelectResultPrefix: what the left operand of a UNION already holds. *)
NoPrefix == [rows |-> 0, bytes |-> 0]

(* The payload of the Strings of a result; NULL has none. *)
Payload(v) == IF v = Null THEN 0 ELSE v
StringBytes(t, items, rows) ==
    MapThenSumSet(LAMBDA k : IF OutputType(t, items[k]) # "String" THEN 0
                             ELSE MapThenSumSet(LAMBDA n : Payload(rows[n][k]), DOMAIN rows), DOMAIN items)

(* validate_projection_result_limits and validate_grouped_result_limits count
   the Strings where they lie, before any is copied. *)
ProjectionBytes(t, q, rows) ==
    MapThenSumSet(LAMBDA k :
        LET i == q.items[k]
        IN  IF i.kind = "column" /\ t.schema[i.column].type = "String"
            THEN MapThenSumSet(LAMBDA n : t.columns[i.column][rows[n]], DOMAIN rows) ELSE 0,
        DOMAIN q.items)

GroupedBytes(t, q, data, groups) ==
    MapThenSumSet(LAMBDA k :
        LET i == q.items[k]
        IN  IF i.kind \in {"column", "min", "max"} /\ t.schema[i.column].type = "String"
            THEN MapThenSumSet(LAMBDA n : Payload(GroupValue(q, data, groups[n], k)), DOMAIN groups) ELSE 0,
        DOMAIN q.items)

(* Fault: the right operand of a UNION is measured alone. *)
ResultFits_OwnRows(n, width, bytes, limits, prefix) ==
    /\ n <= limits.max_rows
    /\ n * width <= limits.max_values
    /\ n * width + bytes <= limits.max_bytes

(* validate_select_result_shape: rows, values and bytes, a value being one
   byte beside its String. *)
ResultFits(n, width, bytes, limits, prefix) ==
    LET rows == prefix.rows + n
    IN  /\ rows <= limits.max_rows
        /\ rows * width <= limits.max_values
        /\ rows * width + prefix.bytes + bytes <= limits.max_bytes

Offset(q) == IF q.offset = NoCount THEN 0 ELSE q.offset

(* execute_projection: row by row, item by item, the first error ends it. *)
Project(t, q, rows) ==
    LET source(n, k) == t.columns[q.items[k].column][rows[n]]
        value(n, k) == IF q.items[k].kind = "rowNumber" THEN n ELSE Scalar(q.items[k], source(n, k))
        status(n, k) == CASE q.items[k].kind = "rowNumber" -> "ok"
                          [] Unparsable(q.items[k], source(n, k)) -> "syntax"
                          [] OutOfRange(q.items[k], source(n, k)) -> Overflow
                          [] OTHER -> "ok"
        bad == {c \in (DOMAIN rows) \X (DOMAIN q.items) : status(c[1], c[2]) # "ok"}
        first == CHOOSE c \in bad : \A d \in bad : c[1] < d[1] \/ (c[1] = d[1] /\ c[2] <= d[2])
    IN  IF bad # {} THEN Failed(status(first[1], first[2]))
        ELSE Answer([n \in DOMAIN rows |-> [k \in DOMAIN q.items |-> value(n, k)]])

UngroupedOutcomes(t, q, rows, limits, prefix) ==
    LET limit == SelectionLimit(q)
        windowed == IF Windows(q) = {} THEN {rows}
                    ELSE LET i == CHOOSE w \in Windows(q) : TRUE
                         IN  SortAndLimit(rows, limit, LAMBDA a, b : WindowBefore(t, i, a, b))
        pages == UNION {{ApplyOffset(s, Offset(q)) : s \in OrderSourceRows(t, q, w, limit)} : w \in windowed}
        status == OrderingStatus(t, q, rows, limit, limits)
    IN  IF Windows(q) # {} /\ Len(rows) > limits.max_ordering_rows THEN {Failed("limit")}
        ELSE IF status # "ok" THEN {Failed(status)}
        ELSE {IF ResultFits(Len(p), Len(q.items), ProjectionBytes(t, q, p), limits, prefix) THEN Project(t, q, p)
              ELSE Failed("limit") : p \in pages}

GroupedOutcomes(t, q, rows, limits, prefix) ==
    LET data == ExecuteGrouped(t, GroupColumns(q), Specs(q), rows, limits)
        all == [g \in DOMAIN data.keys |-> g]
        chosen == SelectSeq(all, LAMBDA g : Admits(q, data, g))
        pages == {ApplyOffset(s, Offset(q)) : s \in OrderGroups(q, data, chosen, SelectionLimit(q))}
        out(p) == [n \in DOMAIN p |-> [k \in DOMAIN q.items |-> GroupValue(q, data, p[n], k)]]
    IN  IF data.status # "ok" THEN {Failed(data.status)}
        ELSE IF \E g \in DOMAIN all, s \in DOMAIN Specs(q) : ~Finish(Specs(q)[s], data.states[g][s]).ok
        THEN {Failed(Overflow)}
        ELSE {IF ResultFits(Len(p), Len(q.items), GroupedBytes(t, q, data, p), limits, prefix) THEN Answer(out(p))
              ELSE Failed("limit") : p \in pages}

(* The rows the WHERE clause leaves, in storage order; `where' is empty or
   holds the clause. *)
FilteredRows(t, q) ==
    IF q.where = << >> THEN [r \in 1..t.row_count |-> r]
    ELSE SetToSortSeq(MatchingRows(t, q.where[1]), <)

ScannedRows(t, q) ==
    IF q.where = << >> THEN t.row_count
    ELSE LET p == Compile(q.where[1], FALSE) IN Cardinality(SourceRows(t, PruningFilter(t, p)))

RowsOutcomes(t, q, rows, limits, prefix) ==
    IF Grouped(q) THEN GroupedOutcomes(t, q, rows, limits, prefix)
    ELSE UngroupedOutcomes(t, q, rows, limits, prefix)

(* execute_select_with_prefix. *)
SelectOutcomes(t, q, limits, prefix) ==
    IF ~ShapeIsValid(q) THEN {Failed("invalid")}
    ELSE IF SelectionLimit(q) > UsizeMax THEN {Failed(Overflow)}
    ELSE IF ~Resolves(t, q) THEN {Failed("invalid")}
    ELSE IF ScannedRows(t, q) > limits.max_scan_rows THEN {Failed("limit")}
    ELSE RowsOutcomes(t, q, FilteredRows(t, q), limits, prefix)

(* execute_query_statement_with_parameterized_limits: a caller may only
   tighten, and 0 asks for nothing. *)
EffectiveLimits(configured, requested) ==
    [l \in DOMAIN configured |->
        IF requested[l] = 0 THEN configured[l] ELSE Min({configured[l], requested[l]})]

-----------------------------------------------------------------------------
(* validate_union_schema. *)
SchemasAgree(t, left, right) ==
    /\ Len(left.items) = Len(right.items)
    /\ \A k \in DOMAIN left.items : OutputType(t, left.items[k]) = OutputType(t, right.items[k])

(* deduplicate_union_rows: the first of equal rows stays. *)
Deduplicate(rows, width, limits) ==
    LET probe == IF width > 2 THEN width ELSE 0
        kept == SelectSeq([n \in DOMAIN rows |-> n],
                          LAMBDA n : \A m \in 1..(n - 1) : rows[m] # rows[n])
    IN  IF rows # << >> /\ (\/ Len(kept) > limits.max_groups
                            \/ probe + Len(kept) * width > limits.max_group_key_cells)
        THEN Failed("limit")
        ELSE Answer([k \in DOMAIN kept |-> rows[kept[k]]])

(* execute_union_operands, then deduplication for UNION DISTINCT. *)
UnionOutcomes(t, left, right, distinct, limits) ==
    UNION {IF l.status # "ok" THEN {l}
           ELSE {IF ShapeIsValid(right) /\ SelectionLimit(right) <= UsizeMax /\ Resolves(t, right)
                    /\ ~SchemasAgree(t, left, right) THEN Failed("invalid")
                 ELSE IF r.status # "ok" THEN r
                 ELSE IF distinct THEN Deduplicate(l.rows \o r.rows, Len(left.items), limits)
                 ELSE Answer(l.rows \o r.rows) :
                    r \in SelectOutcomes(t, right, limits,
                            [rows |-> Len(l.rows), bytes |-> StringBytes(t, left.items, l.rows)])} :
             l \in SelectOutcomes(t, left, limits, NoPrefix)}

(* Fault: the product is refused before LIMIT is looked at. *)
CartesianRows_LimitLast(n, limit) ==
    IF n * n > UsizeMax THEN NoCount
    ELSE IF limit = NoCount THEN n * n ELSE Min({n * n, limit})

(* limited_cartesian_row_count; NoCount where the product is no usize. *)
CartesianRows(n, limit) ==
    IF n * n > UsizeMax THEN limit
    ELSE IF limit = NoCount THEN n * n ELSE Min({n * n, limit})

(* cross_join_string_bytes: whole left rows, then the partial one. *)
CrossJoinBytes(t, count) ==
    LET n == t.row_count
        bytesAt(r) == MapThenSumSet(LAMBDA c : IF t.schema[c].type = "String" THEN t.columns[c][r] ELSE 0,
                                    DOMAIN t.schema)
        sum(rows) == MapThenSumSet(bytesAt, rows)
        whole == count \div n
        part == count % n
    IN  IF count = 0 THEN 0
        ELSE sum(1..whole) * n + (IF part > 0 THEN bytesAt(whole + 1) * part ELSE 0)
             + sum(1..n) * whole + sum(1..part)

(* execute_cross_join of a table with itself. *)
CrossJoin(t, limit, limits) ==
    LET n == t.row_count
        count == CartesianRows(n, limit)
        row(r) == [c \in DOMAIN t.schema |-> t.columns[c][r]]
    IN  IF n > limits.max_scan_rows THEN Failed("limit")
        ELSE IF count = NoCount THEN Failed(Overflow)
        ELSE IF ~ResultFits(count, 2 * Len(t.schema), CrossJoinBytes(t, count), limits, NoPrefix) THEN Failed("limit")
        ELSE Answer([k \in 1..count |-> row(((k - 1) \div n) + 1) \o row(((k - 1) % n) + 1)])
=============================================================================
