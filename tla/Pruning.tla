------------------------------ MODULE Pruning ------------------------------
(***************************************************************************)
(* How SELECT finds the rows its WHERE clause matches (src/batch/engine.rs *)
(* CompiledPredicate and execute_select_with_prefix, src/batch/storage.rs  *)
(* int64_range_partition_rows and int64_min_max_index_scan): NOT is pushed *)
(* into the operators, an Int64 filter is derived, and partitions and      *)
(* index blocks that cannot match are skipped.                             *)
(*                                                                         *)
(* Reference: the three-valued truth of the clause as it was written.      *)
(***************************************************************************)
EXTENDS Table

Operators == {"=", "!=", "<", "<=", ">", ">="}

(* Predicates.  `flipped' puts the literal on the left of the operator. *)
Compare(c, op, v, flipped) ==
    [kind |-> "compare", column |-> c, op |-> op, value |-> v, flipped |-> flipped]
Nullness(c, isNull) == [kind |-> "nullness", column |-> c, is_null |-> isNull]
Not(p) == [kind |-> "not", arg |-> p]
And(p, q) == [kind |-> "and", left |-> p, right |-> q]
Or(p, q) == [kind |-> "or", left |-> p, right |-> q]

Holds(op, a, b) ==
    CASE op = "="  -> a = b
      [] op = "!=" -> a # b
      [] op = "<"  -> a < b
      [] op = "<=" -> a <= b
      [] op = ">"  -> a > b
      [] op = ">=" -> a >= b

InvertComparison == [op \in Operators |->
    CASE op = "=" -> "!=" [] op = "!=" -> "=" [] op = "<" -> ">="
      [] op = "<=" -> ">" [] op = ">" -> "<=" [] op = ">=" -> "<"]

ReverseComparison == [op \in Operators |->
    CASE op = "<" -> ">" [] op = "<=" -> ">=" [] op = ">" -> "<"
      [] op = ">=" -> "<=" [] OTHER -> op]

-----------------------------------------------------------------------------
(* compile_predicate_with_polarity. *)
RECURSIVE Compile(_, _)
Compile(p, negated) ==
    CASE p.kind = "compare" ->
            [p EXCEPT !.op = IF negated THEN InvertComparison[p.op] ELSE p.op]
      [] p.kind = "nullness" -> Nullness(p.column, p.is_null # negated)
      [] p.kind = "not" -> Compile(p.arg, ~negated)
      [] p.kind \in {"and", "or"} ->
            IF (p.kind = "and") # negated
            THEN And(Compile(p.left, negated), Compile(p.right, negated))
            ELSE Or(Compile(p.left, negated), Compile(p.right, negated))

(* CompiledPredicate::evaluate: a comparison with NULL is false. *)
RECURSIVE Evaluate(_, _, _)
Evaluate(t, p, row) ==
    CASE p.kind = "compare" ->
            LET v == t.columns[p.column][row]
            IN  /\ v # Null
                /\ IF p.flipped THEN Holds(p.op, p.value, v) ELSE Holds(p.op, v, p.value)
      [] p.kind = "nullness" -> (t.columns[p.column][row] = Null) = p.is_null
      [] p.kind = "and" -> Evaluate(t, p.left, row) /\ Evaluate(t, p.right, row)
      [] p.kind = "or" -> Evaluate(t, p.left, row) \/ Evaluate(t, p.right, row)

-----------------------------------------------------------------------------
(* Deriving an Int64 filter; every filter is a pair of bounds, and a half-open
   one reaches to the end of the range of i64. *)

NoFilter == [some |-> FALSE]
Filter(kind, column, lower, upper) ==
    [some |-> TRUE, kind |-> kind, column |-> column, lower |-> lower, upper |-> upper]

(* int64_filter: one comparison of an Int64 column with a literal. *)
Int64FilterOf(t, p) ==
    LET op == IF p.flipped THEN ReverseComparison[p.op] ELSE p.op
    IN  IF \/ p.kind # "compare" \/ ~IsInt64(t.schema[p.column].type) \/ op = "!="
        THEN NoFilter
        ELSE Filter(op, p.column, p.value, p.value)

(* normalized_int64_range: a strict bound at the end of i64 is an empty range. *)
NormalizedRange(lower, lowerStrict, upper, upperStrict) ==
    IF \/ lowerStrict /\ lower = I64Max
       \/ upperStrict /\ upper = I64Min
    THEN [lower |-> I64Max, upper |-> I64Min]
    ELSE [lower |-> IF lowerStrict THEN lower + 1 ELSE lower,
          upper |-> IF upperStrict THEN upper - 1 ELSE upper]

(* int64_range_filter: a lower and an upper bound on one column, either first. *)
RangeFilterOf(t, p) ==
    IF p.kind # "and" \/ p.left.kind # "compare" \/ p.right.kind # "compare" THEN NoFilter
    ELSE LET f == Int64FilterOf(t, p.left)
             g == Int64FilterOf(t, p.right)
             range(lo, hi) ==
                LET r == NormalizedRange(lo.lower, lo.kind = ">", hi.upper, hi.kind = "<")
                IN  Filter("range", lo.column, r.lower, r.upper)
         IN  IF ~f.some \/ ~g.some \/ f.column # g.column THEN NoFilter
             ELSE IF f.kind \in {">", ">="} /\ g.kind \in {"<", "<="} THEN range(f, g)
             ELSE IF f.kind \in {"<", "<="} /\ g.kind \in {">", ">="} THEN range(g, f)
             ELSE NoFilter

(* int64_partition_filter and int64_index_filter. *)
PruningFilter(t, p) ==
    IF p.kind = "compare" THEN Int64FilterOf(t, p) ELSE RangeFilterOf(t, p)

(* block_may_match, and the same test in int64_range_partition_rows: can a
   value in min..max satisfy the filter? *)
MayMatch(f, min, max) ==
    CASE f.kind = "=" -> min <= f.lower /\ f.lower <= max
      [] f.kind = "<" -> min < f.upper
      [] f.kind = "<=" -> min <= f.upper
      [] f.kind = ">" -> max > f.lower
      [] f.kind = ">=" -> max >= f.lower
      [] f.kind = "range" -> f.lower <= f.upper /\ max >= f.lower /\ min <= f.upper

-----------------------------------------------------------------------------
(* int64_range_partition_rows: from the first selected partition to the end
   of the last, or every row when the metadata does not apply. *)
SourceRows(t, f) ==
    IF ~(f.some /\ t.partitions.some /\ t.partitions.column = f.column)
    THEN 1..t.row_count
    ELSE LET parts == t.partitions.parts
             selected == {i \in DOMAIN parts : MayMatch(f, parts[i].lower, parts[i].upper)}
         IN  IF selected = {} THEN {}
             ELSE parts[Min(selected)].first..parts[Max(selected)].last

(* index_has_valid_layout. *)
ValidLayout(index) ==
    /\ Len(index.blocks) = DivCeil(index.indexed_rows, index.limits.block_rows)
    /\ \A b \in DOMAIN index.blocks :
        LET block == index.blocks[b]
            first == (b - 1) * index.limits.block_rows
        IN  /\ block.first_row = first
            /\ block.row_count = Min({index.indexed_rows - first, index.limits.block_rows})
            /\ (block.min = Null) = (block.max = Null)
            /\ IF block.min = Null THEN block.null_count = block.row_count
               ELSE block.null_count < block.row_count /\ block.min <= block.max

(* The early returns of int64_min_max_index_scan_with. *)
IndexApplies(t, column) ==
    /\ t.index.some
    /\ t.index.column = column
    /\ t.index.source_generation = t.generation
    /\ t.index.indexed_rows = t.row_count
    /\ ValidLayout(t.index)

BlockRows(b) == (b.first_row + 1)..(b.first_row + b.row_count)

(* The rows of the chosen blocks, cut to the source rows. *)
ScanRows(source, blocks) == source \cap UNION {BlockRows(b) : b \in blocks}

(* The candidates of execute_select_with_prefix. *)
CandidateRows(t, p) ==
    LET f == PruningFilter(t, p)
        source == SourceRows(t, f)
    IN  IF f.some /\ IndexApplies(t, f.column)
        THEN ScanRows(source, {b \in ToSet(t.index.blocks) :
                                  b.min # Null /\ MayMatch(f, b.min, b.max)})
        ELSE IF p.kind = "nullness" /\ IndexApplies(t, p.column)
        THEN ScanRows(source, {b \in ToSet(t.index.blocks) :
                                  IF p.is_null THEN b.null_count # 0
                                  ELSE b.null_count < b.row_count})
        ELSE source

(* The rows SELECT goes on with. *)
MatchingRows(t, p) ==
    LET q == Compile(p, FALSE)
    IN  {row \in CandidateRows(t, q) : Evaluate(t, q, row)}

-----------------------------------------------------------------------------
(* SQL's three-valued logic on the clause as written. *)
RECURSIVE Truth(_, _, _)
Truth(t, p, row) ==
    CASE p.kind = "compare" ->
            LET v == t.columns[p.column][row]
                r == IF p.flipped THEN Holds(p.op, p.value, v) ELSE Holds(p.op, v, p.value)
            IN  IF v = Null THEN "unknown" ELSE IF r THEN "true" ELSE "false"
      [] p.kind = "nullness" ->
            IF (t.columns[p.column][row] = Null) = p.is_null THEN "true" ELSE "false"
      [] p.kind = "not" ->
            LET r == Truth(t, p.arg, row)
            IN  IF r = "true" THEN "false" ELSE IF r = "false" THEN "true" ELSE r
      [] p.kind = "and" ->
            LET r == {Truth(t, p.left, row), Truth(t, p.right, row)}
            IN  IF "false" \in r THEN "false" ELSE IF "unknown" \in r THEN "unknown" ELSE "true"
      [] p.kind = "or" ->
            LET r == {Truth(t, p.left, row), Truth(t, p.right, row)}
            IN  IF "true" \in r THEN "true" ELSE IF "unknown" \in r THEN "unknown" ELSE "false"
=============================================================================
