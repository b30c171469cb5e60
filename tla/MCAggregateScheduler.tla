------------------------ MODULE MCAggregateScheduler ------------------------
(* Small instances of AggregateScheduler for TLC. *)
EXTENDS AggregateScheduler, TLC

Row(g, k, t) == [group |-> g, value |-> [key |-> k, tag |-> t]]
NullRow(g) == [group |-> g, value |-> Null]

(* Ties across lanes, NULLs first and last, groups that show up late. *)
SmallInputs ==
    {<<Row(TRUE, 0, "a")>>,
     <<NullRow(FALSE), Row(TRUE, 0, "a"), Row(TRUE, 0, "b"), Row(FALSE, 1, "a"), NullRow(TRUE)>>,
     <<Row(FALSE, 1, "a"), Row(FALSE, 1, "b"), Row(TRUE, 0, "b"), Row(TRUE, 0, "a")>>}

QuerySymmetry == Permutations(Queries)
=============================================================================
