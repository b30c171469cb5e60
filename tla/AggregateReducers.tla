------------------------- MODULE AggregateReducers -------------------------
(***************************************************************************)
(* The partial states of the parallel aggregates: COUNT and countIf, SUM   *)
(* and AVG, MIN and MAX, global or grouped by a Bool (src/batch/           *)
(* grouped_bool_*.rs, global_int64_sum_avg.rs, global_scalar_extremum.rs). *)
(* One record holds them all; a global aggregate is the one-group case.    *)
(*                                                                         *)
(* A row is [group, value]; a value is Null or [key, tag] where two values *)
(* with one key compare equal (0.0 and -0.0) and the tag tells them apart. *)
(* The checked additions cannot overflow: i64 values are summed in i128    *)
(* and counts are bounded by the number of rows.                           *)
(***************************************************************************)
EXTENDS Integers, Sequences, SequencesExt

CONSTANTS
    Null,
    Tags    \* what tells apart values that compare equal

(* A matched row: its group and the value it contributes. *)
Values == {Null} \cup [key : Int, tag : Tags]
Rows == [group : BOOLEAN, value : Values]

(* Partial::default. *)
EmptyPartial ==
    [first_seen |-> Null,
     rows  |-> [g \in BOOLEAN |-> 0],
     count |-> [g \in BOOLEAN |-> 0],
     sum   |-> [g \in BOOLEAN |-> 0],
     min   |-> [g \in BOOLEAN |-> Null],
     max   |-> [g \in BOOLEAN |-> Null]]

(* first_float64_minimum and first_float64_maximum: the left one on a tie. *)
FirstMinimum(left, right) == IF right.key < left.key THEN right ELSE left
FirstMaximum(left, right) == IF right.key > left.key THEN right ELSE left

(* reduce_partials: the extremum of two optional values. *)
MergeMin(a, b) == IF a = Null THEN b ELSE IF b = Null THEN a ELSE FirstMinimum(a, b)
MergeMax(a, b) == IF a = Null THEN b ELSE IF b = Null THEN a ELSE FirstMaximum(a, b)

(* Partial::observe; a NULL value counts as a row and nothing else. *)
Observe(p, row) ==
    LET g == row.group
        seen == [p EXCEPT !.first_seen = IF @ = Null THEN g ELSE @,
                          !.rows[g] = @ + 1]
    IN  IF row.value = Null THEN seen
        ELSE [seen EXCEPT !.count[g] = @ + 1,
                          !.sum[g] = @ + row.value.key,
                          !.min[g] = MergeMin(@, row.value),
                          !.max[g] = MergeMax(@, row.value)]

(* The scan of one lane. *)
Chunk(rows) == FoldLeft(Observe, EmptyPartial, rows)

(* reduce_ordered, one step. *)
Merge(total, p) ==
    [first_seen |-> IF total.first_seen = Null THEN p.first_seen ELSE total.first_seen,
     rows  |-> [g \in BOOLEAN |-> total.rows[g] + p.rows[g]],
     count |-> [g \in BOOLEAN |-> total.count[g] + p.count[g]],
     sum   |-> [g \in BOOLEAN |-> total.sum[g] + p.sum[g]],
     min   |-> [g \in BOOLEAN |-> MergeMin(total.min[g], p.min[g])],
     max   |-> [g \in BOOLEAN |-> MergeMax(total.max[g], p.max[g])]]

(* reduce_ordered: the partials in partition order. *)
ReduceOrdered(partials) == FoldLeft(Merge, EmptyPartial, partials)
=============================================================================
