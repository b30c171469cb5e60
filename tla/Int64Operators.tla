--------------------------- MODULE Int64Operators ---------------------------
(***************************************************************************)
(* The bounded operators over one nullable Int64 column that the           *)
(* single-table engine is made of: src/scan.rs, order.rs, distinct.rs,     *)
(* grouping.rs, aggregate.rs and join.rs.  Each checks its limits as it    *)
(* goes and returns a whole result or an error, never a part.              *)
(***************************************************************************)
EXTENDS Integers, Sequences, FiniteSets, SequencesExt, FiniteSetsExt

CONSTANTS
    I64Min, I64Max,   \* the range of Int64
    Null              \* SQL NULL

Ok(v) == [status |-> "ok", value |-> v]
Err(kind) == [status |-> kind, value |-> <<>>]
IsOk(r) == r.status = "ok"

Rows(values) == [k \in DOMAIN values |-> k]
Present(values) == SelectSeq(values, LAMBDA v : v # Null)

-----------------------------------------------------------------------------
(* scan.rs *)

Comparisons == {"=", "<>", "<", "<=", ">", ">="}

Matches(operator, left, right) ==
    CASE operator = "="  -> left = right
      [] operator = "<>" -> left # right
      [] operator = "<"  -> left < right
      [] operator = "<=" -> left <= right
      [] operator = ">"  -> left > right
      [] operator = ">=" -> left >= right

Holds(predicate, v) ==
    CASE predicate.test = "IS NULL"     -> v = Null
      [] predicate.test = "IS NOT NULL" -> v # Null
      [] OTHER -> v # Null /\ Matches(predicate.test, v, predicate.value)

(* It stops at the first match that does not fit. *)
ScanMatchingRows(values, predicate, limits) ==
    IF Len(values) > limits.input THEN Err("InputLimitExceeded")
    ELSE FoldLeft(LAMBDA found, row :
            IF ~IsOk(found) \/ ~Holds(predicate, values[row]) THEN found
            ELSE IF Len(found.value) = limits.result THEN Err("ResultLimitExceeded")
            ELSE Ok(Append(found.value, row)),
         Ok(<<>>), Rows(values))

-----------------------------------------------------------------------------
(* order.rs: a heap keeps the best rows, their source index breaking ties. *)

OrderKey(v, row, order) ==
    LET ascending == v - I64Min      \* the sign bit flipped
    IN  << IF (v = Null) = (order.nulls = "FIRST") THEN 0 ELSE 1,
           IF v = Null THEN 0
           ELSE IF order.direction = "ASC" THEN ascending
           ELSE (I64Max - I64Min) - ascending,
           row >>

Before(a, b) == \E k \in 1..3 : a[k] < b[k] /\ \A j \in 1 .. k - 1 : a[j] = b[j]

(* A candidate takes the place of the worst row kept, if it is better. *)
Keep(heap, candidate, retained) ==
    LET worst == CHOOSE w \in heap : \A k \in heap \ {w} : Before(k, w)
    IN  IF Cardinality(heap) < retained THEN heap \cup {candidate}
        ELSE IF Before(candidate, worst) THEN (heap \ {worst}) \cup {candidate}
        ELSE heap

OrderNullable(values, order, limit, limits) ==
    LET retained == Min({limit, Len(values)})
        top == FoldLeft(LAMBDA heap, row : Keep(heap, OrderKey(values[row], row, order), retained),
                        {}, Rows(values))
        sorted == SetToSortSeq(top, Before)
    IN  IF Len(values) > limits.input THEN Err("InputLimitExceeded")
        ELSE IF limit > limits.limit THEN Err("LimitExceeded")
        ELSE IF retained = 0 THEN Ok(<<>>)
        ELSE Ok([k \in DOMAIN sorted |-> sorted[k][3]])

-----------------------------------------------------------------------------
(* distinct.rs and grouping.rs: ordered maps, NULL before every value. *)

KeyOrder(a, b) == IF a = Null THEN b # Null ELSE b # Null /\ a < b

GroupedCount(values, limits) ==
    LET Count(groups, v) ==
            IF ~IsOk(groups) THEN groups
            ELSE IF v \in DOMAIN groups.value THEN Ok([groups.value EXCEPT ![v] = @ + 1])
            ELSE IF Cardinality(DOMAIN groups.value) = limits.groups THEN Err("DistinctLimitExceeded")
            ELSE Ok([k \in DOMAIN groups.value \cup {v} |-> IF k = v THEN 1 ELSE groups.value[k]])
        counts == FoldLeft(Count, Ok([k \in {} |-> 0]), values)
        keys == SetToSortSeq(DOMAIN counts.value, KeyOrder)
    IN  IF Len(values) > limits.input THEN Err("InputLimitExceeded")
        ELSE IF ~IsOk(counts) THEN counts
        ELSE Ok([k \in DOMAIN keys |-> <<keys[k], counts.value[keys[k]]>>])

Distinct(values, limits) ==
    LET groups == GroupedCount(values, limits)
    IN  IF IsOk(groups) THEN Ok([k \in DOMAIN groups.value |-> groups.value[k][1]]) ELSE groups

-----------------------------------------------------------------------------
(* aggregate.rs: over all rows or an explicit selection, which must be
   strictly increasing and in bounds. *)

ValidSelection(rows, n) ==
    /\ \A k \in DOMAIN rows : rows[k] <= n
    /\ \A k \in DOMAIN rows \ {1} : rows[k - 1] < rows[k]

Aggregate(values, rows, limits, Of(_)) ==
    IF Len(values) > limits.input THEN Err("InputLimitExceeded")
    ELSE IF Len(rows) > limits.selected THEN Err("SelectionLimitExceeded")
    ELSE IF ~ValidSelection(rows, Len(values)) THEN Err("InvalidSelection")
    ELSE Of([k \in DOMAIN rows |-> values[rows[k]]])

(* The sum is taken in i128 and only its final value must be an Int64. *)
SumOf_Narrow(values) ==
    FoldLeft(LAMBDA sum, v :
        IF ~IsOk(sum) \/ v = Null THEN sum
        ELSE LET total == v + (IF sum.value = Null THEN 0 ELSE sum.value)
             IN  IF total \in I64Min .. I64Max THEN Ok(total) ELSE Err("SumOverflow"),
        Ok(Null), values)
SumOf(values) ==
    LET present == Present(values)
        sum == FoldLeft(+, 0, present)
    IN  IF present = <<>> THEN Ok(Null)
        ELSE IF sum \in I64Min .. I64Max THEN Ok(sum)
        ELSE Err("SumOverflow")

MinOf(values) ==
    Ok(IF Present(values) = <<>> THEN Null ELSE Min(ToSet(Present(values))))

-----------------------------------------------------------------------------
(* join.rs: the right rows indexed by value, the output counted first. *)

IndexRightRows(right) ==
    [v \in ToSet(Present(right)) |-> SelectSeq(Rows(right), LAMBDA r : right[r] = v)]

RowsFor(index, v) == IF v \in DOMAIN index THEN index[v] ELSE <<>>

(* An unmatched left row of an outer join is one pair, with no right row. *)
PairsFor(index, v, outer) ==
    IF RowsFor(index, v) = <<>> /\ outer THEN <<Null>> ELSE RowsFor(index, v)

CountOutputPairs(left, index, outer, max) ==
    FoldLeft(LAMBDA n, v :
        IF ~IsOk(n) THEN n
        ELSE IF Len(PairsFor(index, v, outer)) > max - n.value THEN Err("OutputLimitExceeded")
        ELSE Ok(n.value + Len(PairsFor(index, v, outer))),
        Ok(0), left)

EquiJoin(left, right, outer, limits) ==
    LET index == IndexRightRows(right)
        pairs == CountOutputPairs(left, index, outer, limits.output)
        Pairs(l) == LET matched == PairsFor(index, left[l], outer)
                    IN  [k \in DOMAIN matched |-> <<l, matched[k]>>]
    IN  IF Len(left) > limits.input THEN Err("LeftInputLimitExceeded")
        ELSE IF Len(right) > limits.input THEN Err("RightInputLimitExceeded")
        ELSE IF ~IsOk(pairs) THEN pairs
        ELSE Ok(FlattenSeq([l \in DOMAIN left |-> Pairs(l)]))
=============================================================================
